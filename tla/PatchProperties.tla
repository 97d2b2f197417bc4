-------------------------- MODULE PatchProperties ---------------------------
(***************************************************************************)
(* What npa-patch promises about the files of its user.                    *)
(***************************************************************************)
EXTENDS PatchRun

Mains == {g["main"] : g \in {Given[p] : p \in DOMAIN Given}}
             \cup {Main(app, sel) : app \in Supported, sel \in Selections}
Members(f) == DOMAIN f \subseteq {"main"} \cup Bridges
IsFile(f) ==
    /\ Members(f)
    /\ \A b \in Bridges \cap DOMAIN f : f[b] \in {"good", "bad"}
    /\ "main" \in DOMAIN f => f["main"] \in Mains

\* The invocations a run can be under way with.
Calls ==
    [src : [prefixes : {0}, base : BaseNames],
     out : [prefixes : {0}, base : BaseNames],
     sel : Selections]

ASSUME FileAssumption ==
    /\ \A p \in DOMAIN Given : IsFile(Given[p])
    /\ Null \notin Mains \cup Calls

\* The type invariant: files are made of known members, and each run is at one
\* of the steps of patch_ipa, with an invocation exactly while it is running, and past the
\* copying only once every selected bridge is in its bundle.
PatchTypeOK ==
    /\ \A p \in Paths : IsFile(disk[p])
    /\ \A r \in Runs :
        /\ pc[r] \in BeforeTry \cup InPackageTry \cup InZipTry \cup Handlers
        /\ result[r] \in {"none", "published", "failed", "killed"}
        /\ args[r] = Null <=> pc[r] = "idle"
        /\ IsFile(tree[r]) /\ IsFile(shipped[r])
        /\ main[r] = Null <=> pc[r] = "idle"
        /\ todo[r] # {} => pc[r] \in {"copy", "undo_temporary"} /\ todo[r] \subseteq args[r].sel
    /\ faults \in 0..MaxFaults

\* "Verify the shipped artifact before publishing it": an output changes at
\* once from what it was to a complete artifact, with the main of a supported
\* executable, the selected units rewritten in it, and a good copy of each
\* selected bridge and of no other.  This must survive overlapping runs,
\* rebuilt dylibs, failing tools, leftovers of killed runs, and a source that
\* is itself an output.
Outputs == {[prefixes |-> 0, base |-> n] : n \in BaseNames \ Bridges}
PublishedWhole ==
    [][\A p \in Outputs : disk'[p] # disk[p] =>
          \E app \in Supported, sel \in Selections : disk'[p] = Artifact(app, sel)]_vars

\* What a run publishes is what that run has verified, so that the digests it
\* prints are those of the file it leaves.
CheckedThenPublished ==
    [][\A r \in Runs : pc[r] = "publish" /\ result'[r] = "published" /\ pc'[r] = "idle" =>
          disk'[Out(r)] = shipped[r]]_vars

\* A run never changes the files it reads: its source IPA and the dylibs it
\* installs ("refusing to overwrite the source IPA").
InputsPreserved ==
    [][\A r \in Runs : pc[r] # "idle" /\ pc'[r] # pc[r] =>
          /\ disk'[args[r].src] = disk[args[r].src]
          /\ \A b \in args[r].sel : disk'[BridgePath(b)] = disk[BridgePath(b)]]_vars

\* The condition under which runs do not get into each other's way: no two of
\* them have one output, none writes over an IPA that was there (its own source
\* excepted, which is refused), and an IPA that can be patched has no bridge.
OutputOf(i) == IF i.out = Null THEN DefaultOutputName(i.src, i.sel) ELSE i.out
OutputsApart ==
    /\ \A r, s \in Runs : \A i \in Invocations[r], j \in Invocations[s] :
           r # s => OutputOf(i) # OutputOf(j)
    /\ \A r \in Runs : \A i \in Invocations[r] :
           OutputOf(i) \in DOMAIN Given => OutputOf(i) = i.src
    /\ \A p \in DOMAIN Given :
           "main" \in DOMAIN Given[p] /\ Acceptable(Given[p]["main"]) => DOMAIN Given[p] = {"main"}

\* No run writes over a dylib another run reads (one of its own it refuses).
InputsApart ==
    \A r, s \in Runs : r # s =>
        \A i \in Invocations[r], j \in Invocations[s] : \A b \in i.sel : OutputOf(j) # BridgePath(b)

\* A run that publishes leaves none of its temporary files behind, not even
\* those it found there.
CleanAfterSuccess ==
    [][\A r \in Runs : result'[r] = "published" /\ pc[r] = "publish" /\ pc'[r] = "idle" =>
          disk'[Temporary(r)] = NoFile /\ disk'[Scratch(r)] = NoFile]_vars

\* A temporary file belongs to a run that is under way or that was killed:
\* whichever step of a run fails, its handlers remove what it has written.
OwnedTemporaries ==
    \A p \in Paths : p.prefixes > 0 /\ ~Missing(p) =>
        \/ p \in orphans
        \/ \E r \in Runs : pc[r] # "idle" /\ p \in {Temporary(r), Scratch(r)}

\* A run with good inputs that nothing disturbs any more publishes its
\* artifact, whatever files earlier, killed runs have left.
Undisturbed(r) ==
    /\ pc[r] = "find_bridges" /\ faults = 0 /\ ~OverwritesInput(r)
    /\ \A b \in args[r].sel : disk[BridgePath(b)] = Dylib(b, "good")
RerunPublishes ==
    \A r \in Runs : Undisturbed(r) ~> (result[r] = "published")
=============================================================================
