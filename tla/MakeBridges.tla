----------------------------- MODULE MakeBridges -----------------------------
(***************************************************************************)
(* npabridge/build_bridge.py on top of the closures and the bootstrap: the *)
(* bridge dylibs, and what `make bootstrap deps bridge` promises about     *)
(* them.  A dylib is the versions of the libraries that were linked into   *)
(* it.                                                                     *)
(***************************************************************************)
EXTENDS KeystoneBuild, ClosureBuild

CONSTANTS
    BridgeOrder,    \* the dylibs of the manifest that have a build section
    ClosureOf       \* the closure each of them names

Bridges == Range(BridgeOrder)

ASSUME BridgeAssumption ==
    /\ BridgeOrder \in Seq(Bridges)
    /\ ClosureOf \in [Bridges -> Closures]

\* What the Makefile and a user run, one at a time.
Programs ==
    ({"keystone"} \X {"reuse", "force"}) \cup ({"deps", "ffmpeg", "ffmpeg-core"} \X {0})
    \cup ({"bridges", "checks"} \X {1}) \cup {<<"verify", "libass">>}

\* `make bootstrap deps bridge`
MakeAll == <<<<"keystone", "reuse">>, <<"deps", 0>>, <<"ffmpeg", 0>>, <<"ffmpeg-core", 0>>, <<"bridges", 1>>>>

ASSUME CommandAssumption == Commands \subseteq Seq(Programs)

Linked(b) == [s \in SourcesOf(ClosureOf[b]) |-> libs[s]]
NoDylib(b) == [s \in SourcesOf(ClosureOf[b]) |-> 0]
Defective(b) == [s \in SourcesOf(ClosureOf[b]) |-> Bad]

VARIABLES
    dylib,          \* build/<basename>
    bridgeReport    \* the dylib build/bridge/<id>-verification.json is about

bridges == <<dylib, bridgeReport>>
vars == <<agenda, keystone, closures, bridges>>

Init ==
    /\ AgendaInit /\ KeystoneInit /\ ClosureInit
    /\ dylib = [b \in Bridges |-> NoDylib(b)]
    /\ bridgeReport = [b \in Bridges |-> NoDylib(b)]

\* main: build and verify one dylib after the other.
NextBridge ==
    /\ At("bridges")
    /\ Then(IF Arg > Len(BridgeOrder) THEN <<>>
            ELSE LET b == BridgeOrder[Arg]
                 IN <<<<"load", b>>, <<"unlink", b>>, <<"link", b>>, <<"check", b>>, <<"bridges", Arg + 1>>>>)
    /\ UNCHANGED bridges

\* make verify
NextCheck ==
    /\ At("checks")
    /\ Then(IF Arg > Len(BridgeOrder) THEN <<>> ELSE <<<<"check", BridgeOrder[Arg]>>, <<"checks", Arg + 1>>>>)
    /\ UNCHANGED bridges

Loadable(c) == c \in closure /\ Built(c)

LoadClosure ==
    /\ At("load")
    /\ \/ Loadable(ClosureOf[Arg]) /\ Then(<<>>)
       \/ ~ Loadable(ClosureOf[Arg]) /\ Stop
    /\ UNCHANGED bridges

\* compile_dylib, and the unlink before the link.
CompileDylib ==
    /\ At("unlink")
    /\ dylib' = [dylib EXCEPT ![Arg] = NoDylib(Arg)]
    /\ Then(<<>>)
    /\ UNCHANGED bridgeReport

LinkDylib ==
    /\ At("link")
    /\ dylib' = [dylib EXCEPT ![Arg] = Linked(Arg)]
    /\ Then(<<>>)
    /\ UNCHANGED bridgeReport

\* The toolchain makes a dylib that breaks a rule, an initializer for example.
BadLink ==
    /\ At("link")
    /\ faults > 0
    /\ faults' = faults - 1
    /\ dylib' = [dylib EXCEPT ![Arg] = Defective(Arg)]
    /\ todo' = Tail(todo)
    /\ UNCHANGED <<command, outcome, bridgeReport>>

Fails(b) == dylib[b] \in {NoDylib(b), Defective(b)}

\* verify_dylib: a dylib that fails leaves an older report as it is.
VerifyDylib ==
    /\ At("check")
    /\ \/ Fails(Arg) /\ Stop /\ UNCHANGED bridgeReport
       \/ ~ Fails(Arg) /\ Then(<<>>) /\ bridgeReport' = [bridgeReport EXCEPT ![Arg] = dylib[Arg]]
    /\ UNCHANGED dylib

BridgeStep == NextBridge \/ NextCheck \/ LoadClosure \/ CompileDylib \/ LinkDylib \/ VerifyDylib

Step ==
    \/ KeystoneStep /\ UNCHANGED <<closures, bridges>>
    \/ ClosureStep /\ UNCHANGED <<keystone, bridges>>
    \/ BridgeStep /\ UNCHANGED <<keystone, closures>>

Next ==
    \/ Step
    \/ Start /\ UNCHANGED <<keystone, closures, bridges>>
    \/ Repin /\ UNCHANGED <<keystone, bridges>>
    \/ Interrupt /\ UNCHANGED <<keystone, closures, bridges>>
    \/ BadDelivery /\ UNCHANGED <<keystone, bridges>>
    \/ BadLink /\ UNCHANGED <<keystone, closures>>

Spec == Init /\ [][Next]_vars

\* A command that was started keeps running.
FairSpec == Spec /\ WF_vars(Step)

-----------------------------------------------------------------------------
Operations ==
    Programs
    \cup ({"source", "download", "downloaded", "untar", "untarred", "build", "copy", "copied"} \X {0})
    \cup ({"policy", "rewrite"} \X PolicyFiles)
    \cup ({"reset", "removed"} \X {0})
    \cup ({"libraries", "bridges", "checks"} \X (Nat \ {0}))
    \cup ({"extract", "fetch", "move", "hash", "unpack", "release", "compile"} \X Sources)
    \cup ({"clear", "verify", "report"} \X Closures)
    \cup ({"load", "unlink", "link", "check"} \X Bridges)

KeystoneOK ==
    /\ archive \in {"none", "partial", "whole"}
    /\ source \in {"none", "partial", "whole"}
    /\ policy \in [PolicyFiles -> {"old", "torn", "new"}]
    /\ library \in {"none", "partial", "whole"}

Stock == 0..MaxVersion

ClosuresOK ==
    /\ pin \in [Sources -> Versions]
    /\ cached \in [ArchiveNames -> Stock \cup {Bad}]
    /\ tree \in [Sources -> Stock]
    /\ torn \subseteq Sources
    /\ libs \in [Sources -> Stock]
    /\ closure \subseteq Closures
    /\ DOMAIN report = Closures
    /\ \A c \in Closures : report[c] \in [SourcesOf(c) -> Stock]

BridgesOK ==
    /\ DOMAIN dylib = Bridges /\ DOMAIN bridgeReport = Bridges
    /\ \A b \in Bridges :
          /\ dylib[b] \in [SourcesOf(ClosureOf[b]) -> Stock] \cup {Defective(b)}
          /\ bridgeReport[b] \in [SourcesOf(ClosureOf[b]) -> Stock]

\* Types.  Content that no lock file has the hash of gets no further than the
\* cache: no tree and no library is made of it, and no report is about a dylib
\* that breaks a rule.
TypeOK == todo \in Seq(Operations) /\ KeystoneOK /\ ClosuresOK /\ BridgesOK

Pins(c) == [s \in SourcesOf(c) |-> pin[s]]

\* "`make bootstrap deps bridge` rebuilds every closure and dylib" (README): when
\* it succeeds every dylib was linked from the pinned versions, passed its checks,
\* and is what its report is about, as are the closures, and the assembler is
\* there (a copy of it that was cut short is not noticed): whatever older commits,
\* commands and interruptions have left.
MadeIsPinned ==
    command = MakeAll /\ outcome = "ok" =>
        /\ \A b \in Bridges : dylib[b] = Pins(ClosureOf[b]) /\ bridgeReport[b] = dylib[b]
        /\ \A c \in Closures : report[c] = Pins(c)
        /\ library # "none"

\* "Each verified against the SHA-256" (build_deps.py): no source is unpacked that
\* is not the one the lock files pin, by a download or from the cache, whichever
\* build has filled it and wherever that was stopped.
UnpackedIsPinned ==
    [][\A s \in Sources : tree'[s] # tree[s] => tree'[s] \in {0, pin[s]}]_vars

\* The report of a closure names the version that was built.
ReportNames(c, s) == report'[c] # report[c] => report'[c][s] = libs'[s]

\* The core closure cannot silently be built out of any other FFmpeg: whatever
\* tree an earlier commit has left, the version the report names occurs in the
\* RELEASE of what was built, from the look at RELEASE to the report many
\* operations later (build_ffmpeg_core.py).
CoreReportInRelease ==
    [][report'["ffmpeg-core"] # report["ffmpeg-core"] =>
           report'["ffmpeg-core"][FfmpegCore] \in NamedIn[libs'[FfmpegCore]]]_vars

\* "ffmpeg-core source tree is not ..." (build_ffmpeg_core.py) is the error for a
\* tree that is not the pinned version: the report names what was built.
CoreReportNamesSource == [][ReportNames("ffmpeg-core", FfmpegCore)]_vars

\* The scaler's closure: the same, with a build that does not look.
ScalerReportNamesSource == [][ReportNames("ffmpeg", Ffmpeg)]_vars

\* What a build cannot get over by itself: files it takes for complete.
Damaged ==
    \/ library = "none" /\ source = "none" /\ archive = "partial"
    \/ library = "none" /\ source = "partial"
    \/ library = "none" /\ \E f \in PolicyFiles : policy[f] = "torn"
    \/ \E s \in Sources : cached[ArchiveName(s)] \notin {0, pin[s]}

\* But for such files, what earlier commands, interrupted at any operation, have
\* left never keeps a full build from succeeding.
MakeRecovers ==
    (command = MakeAll /\ todo = MakeAll /\ faults = 0 /\ ~ Damaged) ~> outcome = "ok"
=============================================================================
