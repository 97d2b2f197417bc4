------------------------------ MODULE PatchRun ------------------------------
(***************************************************************************)
(* npa-patch: one run of patch_ipa per element of Runs, on the directory   *)
(* the runs share.  A run reads the source IPA and the bridge dylibs,      *)
(* assembles the patched IPA under `.tmp-<output>` (through package_ipa,   *)
(* which goes by way of `.tmp-.tmp-<output>`), verifies what it assembled  *)
(* and renames it over the output.  A run can be killed between any two    *)
(* steps, a tool it calls can fail, a bridge dylib can be rebuilt or       *)
(* removed under it, and two runs can overlap.                             *)
(*                                                                         *)
(* A file is the function from its members to their content: an IPA has    *)
(* "main" and the bridges in Frameworks/, a bridge dylib has itself.  The  *)
(* rest of the bundle, which a run copies unread, is left out, as are the  *)
(* run's own work directory (mkdtemp) and the printing.                    *)
(***************************************************************************)
EXTENDS Integers, FiniteSets, Functions

CONSTANTS
    Runs,           \* processes that run npa-patch, each any number of times
    Invocations,    \* Invocations[r]: the [src, out, sel] r may be called with
    Names,          \* the names of the files in the directory
    Bridges,        \* the basenames of the bridge dylibs
    Supported,      \* the executables some manifest has the SHA-256 of
    Given,          \* the IPAs that are there before any run: path -> file
    MaxFaults,      \* bound: kills, tool failures and changes of a dylib
    Null

\* A path is a base name behind some number of ".tmp-" prefixes.  The default
\* output is named after the source and the selected dylibs.
MaxPrefixes == 2
Selections == (SUBSET Bridges) \ {{}}
BaseNames == Names \cup ({p.base : p \in DOMAIN Given} \X Selections)
Paths == [prefixes : 0..MaxPrefixes, base : BaseNames]
Hidden(p) == [p EXCEPT !.prefixes = @ + 1]
DefaultOutputName(src, sel) == [prefixes |-> src.prefixes, base |-> <<src.base, sel>>]
BridgePath(b) == [prefixes |-> 0, base |-> b]

\* Nobody names a source or an output ".tmp-...": a source that is named like
\* the temporary of its output is deleted, and no check of the code is for it.
ASSUME PatchAssumption ==
    /\ Bridges \subseteq Names \ {"main"}
    /\ MaxFaults \in Nat
    /\ DOMAIN Given \subseteq [prefixes : {0}, base : Names \ Bridges]
    /\ \A r \in Runs : Invocations[r] \subseteq
           [src : [prefixes : {0}, base : BaseNames],
            out : [prefixes : {0}, base : Names] \cup {Null},
            sel : Selections]

\* A main is an executable with the call sites of some units rewritten.
Main(app, units) == [app |-> app, units |-> units]
NoFile == [m \in {} |-> Null]
Dylib(b, condition) == [m \in {b} |-> condition]

\* The members of one file, and those of the other that it does not have.
Over(f, g) == [m \in DOMAIN f \cup DOMAIN g |-> IF m \in DOMAIN f THEN f[m] ELSE g[m]]

VARIABLES
    disk,       \* the shared directory: path -> file, NoFile when missing
    pc,         \* the next step of each run
    args,       \* src, out and sel of the run's invocation
    main,       \* the executable it extracted from the source
    tree,       \* the bundle it assembles in its scratch directory
    shipped,    \* what it extracted from the package to verify
    todo,       \* the bridges it has still to copy
    result,     \* how its last invocation ended
    orphans,    \* the temporaries of the runs that were killed (history)
    faults      \* faults left (bound)

vars == <<disk, pc, args, main, tree, shipped, todo, result, orphans, faults>>
private == <<args, main, tree, shipped, todo>>

Out(r) == args[r].out
\* Mutant: named after the source.
TemporaryOfSource(r) == Hidden(args[r].src)
Temporary(r) == Hidden(Out(r))
Scratch(r) == Hidden(Temporary(r))
Missing(p) == disk[p] = NoFile

\* The bundle a run that was given this main and this selection should ship.
Artifact(app, sel) == [m \in {"main"} \cup sel |-> IF m = "main" THEN Main(app, sel) ELSE "good"]

Init ==
    /\ disk = [p \in Paths |->
                 IF p \in DOMAIN Given THEN Given[p]
                 ELSE IF \E b \in Bridges : p = BridgePath(b) THEN Dylib(p.base, "good")
                 ELSE NoFile]
    /\ pc = [r \in Runs |-> "idle"]
    /\ args = [r \in Runs |-> Null]
    /\ main = [r \in Runs |-> Null]
    /\ tree = [r \in Runs |-> NoFile]
    /\ shipped = [r \in Runs |-> NoFile]
    /\ todo = [r \in Runs |-> {}]
    /\ result = [r \in Runs |-> "none"]
    /\ orphans = {}
    /\ faults = MaxFaults

Goto(r, l) == pc' = [pc EXCEPT ![r] = l]
\* The end of a run: its work directory and its locals are gone.
End(r, how) ==
    /\ Goto(r, "idle")
    /\ result' = [result EXCEPT ![r] = how]
    /\ args' = [args EXCEPT ![r] = Null]
    /\ main' = [main EXCEPT ![r] = Null]
    /\ tree' = [tree EXCEPT ![r] = NoFile]
    /\ shipped' = [shipped EXCEPT ![r] = NoFile]
    /\ todo' = [todo EXCEPT ![r] = {}]
Write(p, f) == disk' = [disk EXCEPT ![p] = f]
Unlink(p) == Write(p, NoFile)
Keep == UNCHANGED <<disk, result, orphans, faults>>

\* The steps in the `try` of package_ipa's zip, those in the `try` of
\* patch_ipa's packaging, and those after which nothing has to be undone.
InZipTry == {"zip", "inspect"}
InPackageTry == {"bundle", "copy", "clear_scratch", "replace", "report",
                 "extract_shipped", "verify_artifact", "publish"}
BeforeTry == {"idle", "find_bridges", "check_inputs"}
Handlers == {"undo_scratch", "undo_temporary"}
Raise(r) ==
    CASE pc[r] \in InZipTry -> Goto(r, "undo_scratch") /\ UNCHANGED <<private, result>>
      [] pc[r] \in InPackageTry -> Goto(r, "undo_temporary") /\ UNCHANGED <<private, result>>
      [] OTHER -> End(r, "failed")
Fail(r) == Raise(r) /\ UNCHANGED <<disk, orphans, faults>>

-----------------------------------------------------------------------------
\* The executable is read, must be a decrypted one, and must be known: the
\* main of an IPA that was patched already has another SHA-256.
Acceptable(m) == m.app \in Supported /\ m.units = {}

Invoke(r) ==
    /\ pc[r] = "idle"
    /\ \E i \in Invocations[r] :
           /\ args' = [args EXCEPT ![r] =
                         [i EXCEPT !.out = IF @ = Null THEN DefaultOutputName(i.src, i.sel) ELSE @]]
           /\ "main" \in DOMAIN disk[i.src]
           /\ Acceptable(disk[i.src]["main"])
           /\ main' = [main EXCEPT ![r] = disk[i.src]["main"]]
    /\ Goto(r, "find_bridges")
    /\ UNCHANGED <<disk, tree, shipped, todo, result, orphans, faults>>

\* An invocation on a source that is missing or that no manifest knows.
Refuse(r) ==
    /\ pc[r] = "idle"
    /\ \E i \in Invocations[r] :
           "main" \in DOMAIN disk[i.src] => ~Acceptable(disk[i.src]["main"])
    /\ End(r, "failed")
    /\ UNCHANGED <<disk, orphans, faults>>

OverwritesInput(r) ==
    \/ Out(r) = args[r].src
    \/ \E b \in args[r].sel : Out(r) = BridgePath(b)

\* Mutant: without the two refusals.
FindBridgesUnguarded(r) ==
    /\ pc[r] = "find_bridges"
    /\ IF \E b \in args[r].sel : Missing(BridgePath(b))
       THEN Fail(r)
       ELSE Goto(r, "check_inputs") /\ UNCHANGED private /\ Keep

FindBridges(r) ==
    /\ pc[r] = "find_bridges"
    /\ IF (\E b \in args[r].sel : Missing(BridgePath(b))) \/ OverwritesInput(r)
       THEN Fail(r)
       ELSE Goto(r, "check_inputs") /\ UNCHANGED private /\ Keep

GoodBridge(b, f) == b \in DOMAIN f /\ f[b] = "good"

\* Mutant: an existing temporary refuses the run.
CheckInputsExclusive(r) ==
    /\ pc[r] = "check_inputs"
    /\ IF /\ \A b \in args[r].sel : GoodBridge(b, disk[BridgePath(b)])
          /\ Missing(Temporary(r))
       THEN /\ Goto(r, "bundle")
            /\ UNCHANGED private /\ Keep
       ELSE Fail(r)

\* verify_bridge of every selected dylib, preflight, phase A and phase B, and
\* then the temporary of an earlier run is cleared away.  The bridges may
\* change again before they are copied.
CheckInputs(r) ==
    /\ pc[r] = "check_inputs"
    /\ IF \A b \in args[r].sel : GoodBridge(b, disk[BridgePath(b)])
       THEN /\ Unlink(Temporary(r))
            /\ Goto(r, "bundle")
            /\ UNCHANGED <<private, result, orphans, faults>>
       ELSE Fail(r)

\* package_ipa unzips the source a second time, now all of it, and puts the
\* rewritten main, signed, in the place of the original one.
ExtractBundle(r) ==
    /\ pc[r] = "bundle"
    /\ IF "main" \in DOMAIN disk[args[r].src]
       THEN /\ tree' = [tree EXCEPT ![r] =
                   [disk[args[r].src] EXCEPT !["main"] = Main(main[r].app, args[r].sel)]]
            /\ todo' = [todo EXCEPT ![r] = args[r].sel]
            /\ Goto(r, "copy")
            /\ UNCHANGED <<args, main, shipped>> /\ Keep
       ELSE Fail(r)

Copied(b) == Dylib(b, IF GoodBridge(b, disk[BridgePath(b)]) THEN "good" ELSE "bad")

\* Mutant: only one bridge is copied.
CopyFirstBridge(r) ==
    /\ pc[r] = "copy"
    /\ \E b \in todo[r] :
           IF Missing(BridgePath(b))
           THEN Fail(r)
           ELSE /\ tree' = [tree EXCEPT ![r] = Over(Copied(b), @)]
                /\ todo' = [todo EXCEPT ![r] = @ \ {b}]
                /\ Goto(r, "clear_scratch")
                /\ UNCHANGED <<args, main, shipped>> /\ Keep

CopyBridge(r) ==
    /\ pc[r] = "copy"
    /\ \E b \in todo[r] :
           IF Missing(BridgePath(b))
           THEN Fail(r)
           ELSE /\ tree' = [tree EXCEPT ![r] = Over(Copied(b), @)]
                /\ todo' = [todo EXCEPT ![r] = @ \ {b}]
                /\ Goto(r, IF todo[r] = {b} THEN "clear_scratch" ELSE "copy")
                /\ UNCHANGED <<args, main, shipped>> /\ Keep

\* Mutant: zip adds to what is there.
ClearScratchSkipped(r) ==
    /\ pc[r] = "clear_scratch"
    /\ Goto(r, "zip")
    /\ UNCHANGED private /\ Keep

ClearScratch(r) ==
    /\ pc[r] = "clear_scratch"
    /\ Unlink(Scratch(r))
    /\ Goto(r, "zip")
    /\ UNCHANGED <<private, result, orphans, faults>>

\* `zip -r` adds the tree's entries to the archive that is already there.
Zip(r) ==
    /\ pc[r] = "zip"
    /\ Write(Scratch(r), Over(tree[r], disk[Scratch(r)]))
    /\ Goto(r, "inspect")
    /\ UNCHANGED <<private, result, orphans, faults>>

Carries(p, sel) == {"main"} \cup sel \subseteq DOMAIN disk[p]

Inspect(r) ==
    /\ pc[r] = "inspect"
    /\ IF Carries(Scratch(r), args[r].sel)
       THEN Goto(r, "replace") /\ UNCHANGED private /\ Keep
       ELSE Fail(r)

ReplaceTemporary(r) ==
    /\ pc[r] = "replace"
    /\ IF Missing(Scratch(r))
       THEN Fail(r)
       ELSE /\ disk' = [disk EXCEPT ![Temporary(r)] = disk[Scratch(r)],
                                    ![Scratch(r)] = NoFile]
            /\ Goto(r, "report")
            /\ UNCHANGED <<private, result, orphans, faults>>

\* package_ipa's report hashes every bridge file once more.
Report(r) ==
    /\ pc[r] = "report"
    /\ IF \E b \in args[r].sel : Missing(BridgePath(b))
       THEN Fail(r)
       ELSE Goto(r, "extract_shipped") /\ UNCHANGED private /\ Keep

ExtractShipped(r) ==
    /\ pc[r] = "extract_shipped"
    /\ IF "main" \in DOMAIN disk[Temporary(r)]
       THEN /\ shipped' = [shipped EXCEPT ![r] =
                   Restrict(disk[Temporary(r)],
                            ({"main"} \cup args[r].sel) \cap DOMAIN disk[Temporary(r)])]
            /\ Goto(r, "verify_artifact")
            /\ UNCHANGED <<args, main, tree, todo>> /\ Keep
       ELSE Fail(r)

\* Mutant: only the main is verified once shipped.
VerifyMainOnly(r) ==
    /\ pc[r] = "verify_artifact"
    /\ IF shipped[r]["main"] = Main(main[r].app, args[r].sel)
       THEN Goto(r, "publish") /\ UNCHANGED private /\ Keep
       ELSE Fail(r)

\* The shipped main must be the source's with exactly the selected units
\* rewritten, and every shipped bridge must meet its contract.
VerifyArtifact(r) ==
    /\ pc[r] = "verify_artifact"
    /\ IF /\ shipped[r]["main"] = Main(main[r].app, args[r].sel)
          /\ \A b \in args[r].sel : GoodBridge(b, shipped[r])
       THEN Goto(r, "publish") /\ UNCHANGED private /\ Keep
       ELSE Fail(r)

\* Mutant: a copy where the code has a rename.
PublishCopy(r) ==
    /\ pc[r] = "publish"
    /\ IF Missing(Temporary(r))
       THEN Fail(r)
       ELSE /\ Write(Out(r), disk[Temporary(r)])
            /\ End(r, "published")
            /\ UNCHANGED <<orphans, faults>>

Publish(r) ==
    /\ pc[r] = "publish"
    /\ IF Missing(Temporary(r))
       THEN Fail(r)
       ELSE /\ disk' = [disk EXCEPT ![Out(r)] = disk[Temporary(r)],
                                    ![Temporary(r)] = NoFile]
            /\ End(r, "published")
            /\ UNCHANGED <<orphans, faults>>

\* Mutant: the inner handler is missing.
UndoScratchKept(r) ==
    /\ pc[r] = "undo_scratch"
    /\ Goto(r, "undo_temporary")
    /\ UNCHANGED <<private, disk, result, orphans, faults>>

\* The exception handlers.
UndoScratch(r) ==
    /\ pc[r] = "undo_scratch"
    /\ Unlink(Scratch(r))
    /\ Goto(r, "undo_temporary")
    /\ UNCHANGED <<private, result, orphans, faults>>

UndoTemporary(r) ==
    /\ pc[r] = "undo_temporary"
    /\ Unlink(Temporary(r))
    /\ End(r, "failed")
    /\ UNCHANGED <<orphans, faults>>

-----------------------------------------------------------------------------
\* What the run does not control.
Fault == faults > 0 /\ faults' = faults - 1

\* unzip, ldid and zip exit with an error, zip with or without an archive.
ToolFails(r) ==
    /\ pc[r] \in {"bundle", "copy", "zip"}
    /\ \/ UNCHANGED disk
       \/ pc[r] = "zip" /\ Write(Scratch(r), Over(tree[r], disk[Scratch(r)]))
    /\ Raise(r)
    /\ Fault
    /\ UNCHANGED orphans

\* A kill, a crash or a Ctrl-C: none of the `except Exception` handlers runs.
Kill(r) ==
    /\ pc[r] # "idle"
    /\ End(r, "killed")
    /\ orphans' = orphans \cup {Temporary(r), Scratch(r)}
    /\ Fault
    /\ UNCHANGED disk

\* `make bridge` or the user changes a dylib.
ChangeBridge ==
    /\ \E b \in Bridges : \E f \in {NoFile, Dylib(b, "good"), Dylib(b, "bad")} :
           disk[BridgePath(b)] # f /\ Write(BridgePath(b), f)
    /\ Fault
    /\ UNCHANGED <<pc, private, result, orphans>>

Step(r) ==
    \/ FindBridges(r) \/ CheckInputs(r) \/ ExtractBundle(r) \/ CopyBridge(r)
    \/ ClearScratch(r) \/ Zip(r) \/ Inspect(r) \/ ReplaceTemporary(r) \/ Report(r)
    \/ ExtractShipped(r) \/ VerifyArtifact(r) \/ Publish(r)
    \/ UndoScratch(r) \/ UndoTemporary(r)

Next ==
    \/ \E r \in Runs : Invoke(r) \/ Refuse(r) \/ Step(r) \/ ToolFails(r) \/ Kill(r)
    \/ ChangeBridge

Spec == Init /\ [][Next]_vars

\* The operating system keeps running a process it has started.
FairSpec == Spec /\ \A r \in Runs : WF_vars(Step(r))
=============================================================================
