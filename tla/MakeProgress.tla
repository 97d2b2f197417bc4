---------------------------- MODULE MakeProgress ----------------------------
(***************************************************************************)
(* The inductive invariant of the builds: what the disk holds, in terms of *)
(* what is left of the command.                                            *)
(***************************************************************************)
EXTENDS MakeBridges

-----------------------------------------------------------------------------
(***************************************************************************)
(* Any command.  A program puts its operations in front one by one, so     *)
(* what an operation may rely on is what the one before it has left: which *)
(* operation comes before which, and what holds when one is next.          *)
(***************************************************************************)
\* The operations that rely on the one before them.
Relies(b) ==
    \/ b[1] \in {"fetch", "move", "hash", "unpack"}
    \/ b \in {<<"clear", "ffmpeg-core">>, <<"extract", Dav1d>>, <<"compile", Dav1d>>,
              <<"compile", FfmpegCore>>, <<"verify", "ffmpeg-core">>, <<"report", "ffmpeg-core">>}

\* a may come right before b.
Before(a, b) ==
    Relies(b) =>
        \/ b[1] = "unpack" /\ a[1] \in {"fetch", "move", "hash"} /\ a[2] = b[2]
        \/ b = <<"clear", "ffmpeg-core">> /\ a = <<"release", FfmpegCore>>
        \/ b = <<"extract", Dav1d>> /\ a = <<"clear", "ffmpeg-core">>
        \/ b = <<"compile", Dav1d>> /\ a \in {<<"extract", Dav1d>>, <<"unpack", Dav1d>>}
        \/ b = <<"compile", FfmpegCore>> /\ a = <<"compile", Dav1d>>
        \/ b = <<"verify", "ffmpeg-core">> /\ a = <<"compile", FfmpegCore>>

Chained(s) == \A i \in 1..(Len(s) - 1) : Before(s[i], s[i + 1])

\* The operations of the core closure that need the pinned version to occur in
\* the RELEASE of its FFmpeg's tree, and those whose libraries are of such a tree.
OnTree ==
    {<<"clear", "ffmpeg-core">>, <<"compile", FfmpegCore>>}
    \cup ({"extract", "fetch", "move", "hash", "unpack", "compile"} \X {Dav1d})
OnLibraries == {<<"verify", "ffmpeg-core">>, <<"report", "ffmpeg-core">>}

Ready(h) ==
    /\ h[1] = "hash" => cached[ArchiveName(h[2])] # 0
    /\ h[1] = "unpack" => cached[ArchiveName(h[2])] = pin[h[2]]
    /\ h \in OnTree => pin[FfmpegCore] \in NamedIn[tree[FfmpegCore]]
    /\ h \in OnLibraries => pin[FfmpegCore] \in NamedIn[libs[FfmpegCore]]

AgendaInv ==
    /\ todo \in Seq(Operations)
    /\ Chained(todo)
    /\ todo # <<>> => Ready(Head(todo))

BuildInv == TypeOK /\ AgendaInv

-----------------------------------------------------------------------------
(***************************************************************************)
(* `make bootstrap deps bridge`: what is left to do, place by place, and   *)
(* what the disk holds by then.  A place is the list of the operations     *)
(* from there on, so its definition names the place after it.              *)
(***************************************************************************)
\* The operation x, then the rest.
Do(x, rest) == <<x>> \o rest

\* After each program.
AfterBridges == <<>>
BridgesFrom(n) == Do(<<"bridges", n>>, AfterBridges)
AfterCore == BridgesFrom(1)
AfterFfmpeg == Do(<<"ffmpeg-core", 0>>, AfterCore)
AfterLibass == Do(<<"ffmpeg", 0>>, AfterFfmpeg)
AfterKeystone == Do(<<"deps", 0>>, AfterLibass)

\* In tools/keystone.py.
CopyPlace == Do(<<"copy", 0>>, AfterKeystone)
BuildPlace == Do(<<"build", 0>>, CopyPlace)
Policy2 == Do(<<"policy", 2>>, BuildPlace)
Policy1 == Do(<<"policy", 1>>, Policy2)
UntarPlace == Do(<<"untar", 0>>, Policy1)

\* In deps/*.py.
ReportPlace(c, rest) == Do(<<"report", c>>, rest)
VerifyPlace(c, rest) == Do(<<"verify", c>>, rest)
LibrariesFrom(n) == Do(<<"libraries", n>>, AfterLibass)
CompileNth(n) == Do(<<"compile", BuildOrder[n]>>, LibrariesFrom(n + 1))
RemovedPlace == Do(<<"removed", 0>>, LibrariesFrom(1))
CompileFfmpeg == Do(<<"compile", Ffmpeg>>, VerifyPlace("ffmpeg", AfterFfmpeg))
ClearFfmpeg == Do(<<"clear", "ffmpeg">>, CompileFfmpeg)
CompileCore == Do(<<"compile", FfmpegCore>>, VerifyPlace("ffmpeg-core", AfterCore))
CompileDav1d == Do(<<"compile", Dav1d>>, CompileCore)
ClearCore == Do(<<"clear", "ffmpeg-core">>, Do(<<"extract", Dav1d>>, CompileDav1d))
ReleasePlace == Do(<<"release", FfmpegCore>>, ClearCore)

\* In build_bridge.py, at the nth dylib.
CheckPlace(n) == Do(<<"check", BridgeOrder[n]>>, BridgesFrom(n + 1))
LinkPlace(n) == Do(<<"link", BridgeOrder[n]>>, CheckPlace(n))
UnlinkPlace(n) == Do(<<"unlink", BridgeOrder[n]>>, LinkPlace(n))
LoadPlace(n) == Do(<<"load", BridgeOrder[n]>>, UnlinkPlace(n))

TreesPinned == torn = {} /\ \A s \in Sources : tree[s] \in {0, pin[s]}
LibsPinned(S) == \A s \in S : libs[s] = pin[s]
ClosureMade(c) == c \in closure /\ LibsPinned(SourcesOf(c)) /\ report[c] = Pins(c)
BridgeMade(b) == dylib[b] = Pins(ClosureOf[b]) /\ bridgeReport[b] = dylib[b]

KeystoneStage ==
    \/ todo \in {MakeAll, Do(<<"source", 0>>, Policy1), UntarPlace,
                 Do(<<"download", 0>>, UntarPlace), Do(<<"downloaded", 0>>, UntarPlace),
                 Do(<<"untarred", 0>>, Policy1), Policy1, Do(<<"rewrite", 1>>, Policy2),
                 Policy2, Do(<<"rewrite", 2>>, BuildPlace), BuildPlace, CopyPlace}
    \/ todo = Do(<<"copied", 0>>, AfterKeystone) /\ library # "none"

\* A tree is looked for, and the archive it comes from.
Extracting(s, rest) ==
    todo \in {Do(<<"extract", s>>, rest), Do(<<"fetch", s>>, Do(<<"unpack", s>>, rest)),
              Do(<<"move", s>>, Do(<<"unpack", s>>, rest)),
              Do(<<"hash", s>>, Do(<<"unpack", s>>, rest)), Do(<<"unpack", s>>, rest)}

\* The libraries are there and are looked at.
Verifying(c, rest) ==
    /\ LibsPinned(SourcesOf(c))
    /\ todo = VerifyPlace(c, rest) \/ (todo = ReportPlace(c, rest) /\ c \in closure)

\* The libraries before the nth are there.
AtLibrary(n) ==
    /\ \A i \in 1..(n - 1) : libs[BuildOrder[i]] = pin[BuildOrder[i]]
    /\ \/ todo = LibrariesFrom(n)
       \/ n <= Len(BuildOrder) /\ Extracting(BuildOrder[n], CompileNth(n))
       \/ n <= Len(BuildOrder) /\ tree[BuildOrder[n]] = pin[BuildOrder[n]] /\ todo = CompileNth(n)

LibassStage ==
    \/ todo \in {AfterKeystone, Do(<<"reset", 0>>, RemovedPlace), RemovedPlace}
    \/ TreesPinned /\ \E n \in 1..(Len(BuildOrder) + 1) : AtLibrary(n)
    \/ TreesPinned /\ Verifying("libass", AfterLibass)

FfmpegStage ==
    \/ todo = AfterLibass
    \/ Extracting(Ffmpeg, ClearFfmpeg)
    \/ tree[Ffmpeg] = pin[Ffmpeg] /\ todo \in {ClearFfmpeg, CompileFfmpeg}
    \/ Verifying("ffmpeg", AfterFfmpeg)

CoreStage ==
    \/ todo = AfterFfmpeg
    \/ Extracting(FfmpegCore, ReleasePlace)
    \/ tree[FfmpegCore] = pin[FfmpegCore] /\ todo \in {ReleasePlace, ClearCore}
    \/ tree[FfmpegCore] = pin[FfmpegCore] /\ Extracting(Dav1d, CompileDav1d)
    \/ /\ tree[FfmpegCore] = pin[FfmpegCore] /\ tree[Dav1d] = pin[Dav1d]
       /\ todo = CompileDav1d
    \/ tree[FfmpegCore] = pin[FfmpegCore] /\ LibsPinned({Dav1d}) /\ todo = CompileCore
    \/ Verifying("ffmpeg-core", AfterCore)

\* The dylibs before the nth are there, but for the nth if it has been there.
AtBridge(n) ==
    /\ n <= Len(BridgeOrder)
    /\ \A i \in 1..(n - 1) : BridgeOrder[i] # BridgeOrder[n] => BridgeMade(BridgeOrder[i])
    /\ \/ todo \in {LoadPlace(n), UnlinkPlace(n), LinkPlace(n)}
       \/ /\ todo = CheckPlace(n)
          /\ dylib[BridgeOrder[n]] \in {Pins(ClosureOf[BridgeOrder[n]]), Defective(BridgeOrder[n])}

BridgeStage ==
    \E n \in 1..(Len(BridgeOrder) + 1) :
        \/ todo = BridgesFrom(n) /\ \A i \in 1..(n - 1) : BridgeMade(BridgeOrder[i])
        \/ AtBridge(n)

Bootstrapped == library # "none"
LibassMade == Bootstrapped /\ TreesPinned /\ ClosureMade("libass")
FfmpegMade == LibassMade /\ ClosureMade("ffmpeg")
CoreMade == FfmpegMade /\ ClosureMade("ffmpeg-core")

\* A stage is reached with everything before it made.
Progress ==
    \/ KeystoneStage
    \/ Bootstrapped /\ LibassStage
    \/ LibassMade /\ FfmpegStage
    \/ FfmpegMade /\ CoreStage
    \/ CoreMade /\ BridgeStage

ProgressInv ==
    /\ outcome # "running" => todo = <<>>
    /\ command = MakeAll /\ outcome = "running" => Progress
    /\ command = MakeAll /\ outcome = "ok" => CoreMade /\ \A b \in Bridges : BridgeMade(b)

MakeInv == BuildInv /\ ProgressInv

-----------------------------------------------------------------------------
(***************************************************************************)
(* A full build that nothing disturbs, from a disk that is not Damaged:    *)
(* what keeps the operation that is next from failing.                     *)
(***************************************************************************)
Untorn(files) == \A f \in files : policy[f] # "torn"

\* The source tree can be made or taken, and edited.
Workable == (source = "none" => archive # "partial") /\ source # "partial" /\ Untorn(PolicyFiles)

KeystoneWay ==
    \/ todo = MakeAll /\ (library # "none" \/ Workable)
    \/ todo = Do(<<"source", 0>>, Policy1) /\ Workable
    \/ /\ todo \in {Do(<<"download", 0>>, UntarPlace), Do(<<"downloaded", 0>>, UntarPlace),
                    Do(<<"untarred", 0>>, Policy1)}
       /\ Untorn(PolicyFiles)
    \/ todo = UntarPlace /\ archive = "whole" /\ Untorn(PolicyFiles)
    \/ todo = Policy1 /\ source # "partial" /\ Untorn(PolicyFiles)
    \/ todo \in {Do(<<"rewrite", 1>>, Policy2), Policy2} /\ source # "partial" /\ Untorn({2})
    \/ todo \in {Do(<<"rewrite", 2>>, BuildPlace), BuildPlace} /\ source # "partial"
    \/ todo = CopyPlace
    \/ todo = Do(<<"copied", 0>>, AfterKeystone) /\ library # "none"

\* A dylib that is looked at was linked without a fault.
SoundlyLinked == At("check") => dylib[Arg] = Pins(ClosureOf[Arg])

CacheGood == \A s \in Sources : cached[ArchiveName(s)] \in {0, pin[s]}

OnWay ==
    /\ command = MakeAll /\ outcome = "running" /\ faults = 0
    /\ CacheGood
    /\ \/ KeystoneWay
       \/ Bootstrapped /\ LibassStage
       \/ LibassMade /\ FfmpegStage
       \/ FfmpegMade /\ CoreStage
       \/ CoreMade /\ BridgeStage /\ SoundlyLinked

\* The operation that is next cannot fail by itself.
Smooth ==
    /\ At("untar") => archive = "whole"
    /\ At("policy") => policy[Arg] # "torn" /\ source # "partial"
    /\ At("build") => source # "partial"
    /\ At("fetch") => cached[ArchiveName(Arg)] \in {0, pin[Arg]}
    /\ At("hash") => cached[ArchiveName(Arg)] = pin[Arg]
    /\ At("release") => pin[Arg] \in NamedIn[tree[Arg]] /\ torn = {}
    /\ At("compile") => torn = {}
    /\ At("verify") => Built(Arg)
    /\ At("load") => Loadable(ClosureOf[Arg])
    /\ At("check") => ~ Fails(Arg)
=============================================================================
