---------------------------- MODULE ClosureBuild ----------------------------
(***************************************************************************)
(* deps/*.py: three closures of static libraries, built from sources that  *)
(* lock files pin.  A version of a source stands for its content; 0 is     *)
(* nothing, Bad is content that no lock file has the hash of.              *)
(*                                                                         *)
(* The archives of a source come and go together, and what a build writes  *)
(* besides them (headers, pkg-config files, build directories) goes with   *)
(* them.                                                                   *)
(***************************************************************************)
EXTENDS MakeAgenda, FiniteSets, Functions

CONSTANTS
    BuildOrder,     \* the sources of the libass closure; the last is libass
    Ffmpeg,         \* the source of the scaler's closure
    FfmpegCore,     \* the sources of the core closure
    Dav1d,
    NamedIn,        \* the versions that occur in the RELEASE of a tree of FFmpeg
    MaxVersion,     \* bound: the versions of a source
    Commits,        \* bound: the changes of a pin: <<source, from, to>>
    MaxMoved        \* bound: the sources whose pin changes

Closures == {"libass", "ffmpeg", "ffmpeg-core"}
SourcesOf(c) ==
    CASE c = "libass" -> Range(BuildOrder)
      [] c = "ffmpeg" -> {Ffmpeg}
      [] c = "ffmpeg-core" -> {FfmpegCore, Dav1d}
Sources == UNION {SourcesOf(c) : c \in Closures}

\* Every closure has sources of its own.
ASSUME SourceAssumption ==
    /\ BuildOrder \in Seq(Range(BuildOrder)) /\ BuildOrder # <<>>
    /\ Ffmpeg # FfmpegCore /\ Ffmpeg # Dav1d /\ FfmpegCore # Dav1d
    /\ {Ffmpeg, FfmpegCore, Dav1d} \cap Range(BuildOrder) = {}
    /\ MaxVersion \in Nat \ {0}

Bad == -1
Versions == 1..MaxVersion

\* RELEASE holds the version of its tree, and whatever that string contains: 4.4
\* and 4.4.1 occur in that of 4.4.10.  No tree, no RELEASE.
ASSUME ReleaseAssumption ==
    /\ NamedIn \in [0..MaxVersion -> SUBSET Versions]
    /\ NamedIn[0] = {}
    /\ \A v \in Versions : v \in NamedIn[v]

ASSUME CommitAssumption == Commits \subseteq Sources \X Versions \X Versions

\* The archives of FFmpeg and dav1d have the version in their names.
ArchiveNames == Sources \X (0..MaxVersion)

VARIABLES
    pin,        \* the lock files: source -> version
    cached,     \* build/deps/downloads: archive name -> content
    tree,       \* build/deps/sources: source -> version
    torn,       \* the trees that are not whole
    libs,       \* the static libraries: source -> version
    closure,    \* the closures with a closure file
    report      \* the versions a closure's report stands for

closures == <<pin, cached, tree, torn, libs, closure, report>>

ArchiveName(s) == <<s, IF s \in Range(BuildOrder) THEN 0 ELSE pin[s]>>

ClosureInit ==
    /\ pin = [s \in Sources |-> 1]
    /\ cached = [n \in ArchiveNames |-> 0]
    /\ tree = [s \in Sources |-> 0]
    /\ torn = {}
    /\ libs = [s \in Sources |-> 0]
    /\ closure = {}
    /\ report = [c \in Closures |-> [s \in SourcesOf(c) |-> 0]]

\* A commit with another version of a source, newer or older.
Repin ==
    /\ Idle
    /\ \E c \in Commits :
          /\ pin[c[1]] = c[2]
          /\ pin[c[1]] = 1 => Cardinality({s \in Sources : pin[s] # 1}) < MaxMoved
          /\ pin' = [pin EXCEPT ![c[1]] = c[3]]
    /\ command' = <<>>
    /\ outcome' = "none"
    /\ UNCHANGED <<todo, faults, cached, tree, torn, libs, closure, report>>

-----------------------------------------------------------------------------
\* build_all, and the builds of the two other closures.
BuildLibass ==
    /\ At("deps")
    /\ Then(<<<<"reset", 0>>, <<"removed", 0>>, <<"libraries", 1>>>>)
    /\ UNCHANGED closures

Libraries ==
    /\ At("libraries")
    /\ Then(IF Arg > Len(BuildOrder) THEN <<<<"verify", "libass">>>>
            ELSE <<<<"extract", BuildOrder[Arg]>>, <<"compile", BuildOrder[Arg]>>, <<"libraries", Arg + 1>>>>)
    /\ UNCHANGED closures

BuildFfmpeg ==
    /\ At("ffmpeg")
    /\ Then(<<<<"extract", Ffmpeg>>, <<"clear", "ffmpeg">>, <<"compile", Ffmpeg>>, <<"verify", "ffmpeg">>>>)
    /\ UNCHANGED closures

BuildFfmpegCore ==
    /\ At("ffmpeg-core")
    /\ Then(<<<<"extract", FfmpegCore>>, <<"release", FfmpegCore>>, <<"clear", "ffmpeg-core">>,
              <<"extract", Dav1d>>, <<"compile", Dav1d>>, <<"compile", FfmpegCore>>,
              <<"verify", "ffmpeg-core">>>>)
    /\ UNCHANGED closures

\* _reset_build_tree: the trees of all closures, and the libraries of libass.
Reset ==
    /\ At("reset")
    /\ torn' = {s \in Sources : tree[s] # 0}
    /\ Then(<<>>)
    /\ UNCHANGED <<pin, cached, tree, libs, closure, report>>

\* Mutant: the trees stay.
RemovedLibraries ==
    /\ At("removed")
    /\ torn' = {}
    /\ libs' = [s \in Sources |-> IF s \in SourcesOf("libass") THEN 0 ELSE libs[s]]
    /\ Then(<<>>)
    /\ UNCHANGED <<pin, cached, tree, closure, report>>

Removed ==
    /\ At("removed")
    /\ tree' = [s \in Sources |-> 0]
    /\ torn' = {}
    /\ libs' = [s \in Sources |-> IF s \in SourcesOf("libass") THEN 0 ELSE libs[s]]
    /\ Then(<<>>)
    /\ UNCHANGED <<pin, cached, closure, report>>

\* extract_source: a tree that is there is returned as it is.
Extract ==
    /\ At("extract")
    /\ Then(IF tree[Arg] # 0 THEN <<>> ELSE <<<<"fetch", Arg>>, <<"unpack", Arg>>>>)
    /\ UNCHANGED closures

\* Mutant: a cached archive is not compared with its hash.
FetchCached ==
    /\ At("fetch")
    /\ \/ cached[ArchiveName(Arg)] = 0 /\ Then(<<<<"move", Arg>>>>)
       \/ cached[ArchiveName(Arg)] # 0 /\ Then(<<>>)
    /\ UNCHANGED closures

\* fetch_source: a cached archive must have the hash of the lock file, and
\* stays if it does not.
Fetch ==
    /\ At("fetch")
    /\ \/ cached[ArchiveName(Arg)] = 0 /\ Then(<<<<"move", Arg>>>>)
       \/ cached[ArchiveName(Arg)] = pin[Arg] /\ Then(<<>>)
       \/ cached[ArchiveName(Arg)] \notin {0, pin[Arg]} /\ Stop
    /\ UNCHANGED closures

\* The download, which ends with a rename.  A server may deliver anything.
Move ==
    /\ At("move")
    /\ cached' = [cached EXCEPT ![ArchiveName(Arg)] = pin[Arg]]
    /\ Then(<<<<"hash", Arg>>>>)
    /\ UNCHANGED <<pin, tree, torn, libs, closure, report>>

BadDelivery ==
    /\ At("move")
    /\ faults > 0
    /\ faults' = faults - 1
    /\ cached' = [cached EXCEPT ![ArchiveName(Arg)] = Bad]
    /\ todo' = <<<<"hash", Arg>>>> \o Tail(todo)
    /\ UNCHANGED <<command, outcome, pin, tree, torn, libs, closure, report>>

Hash ==
    /\ At("hash")
    /\ \/ cached[ArchiveName(Arg)] = pin[Arg] /\ Then(<<>>) /\ UNCHANGED cached
       \/ cached[ArchiveName(Arg)] # pin[Arg] /\ Stop /\ cached' = [cached EXCEPT ![ArchiveName(Arg)] = 0]
    /\ UNCHANGED <<pin, tree, torn, libs, closure, report>>

\* The archive is extracted elsewhere and renamed.
Unpack ==
    /\ At("unpack")
    /\ tree' = [tree EXCEPT ![Arg] = cached[ArchiveName(Arg)]]
    /\ Then(<<>>)
    /\ UNCHANGED <<pin, cached, torn, libs, closure, report>>

\* Mutant: without the look at RELEASE.
ReleaseUnchecked ==
    /\ At("release")
    /\ Then(<<>>)
    /\ UNCHANGED closures

\* build_ffmpeg_core.build: the pinned version occurs in RELEASE.  A torn tree
\* may have lost its RELEASE.
Release ==
    /\ At("release")
    /\ \/ pin[Arg] \in NamedIn[tree[Arg]] /\ Then(<<>>)
       \/ (pin[Arg] \notin NamedIn[tree[Arg]] \/ Arg \in torn) /\ Stop
    /\ UNCHANGED closures

Clear ==
    /\ At("clear")
    /\ libs' = [s \in Sources |-> IF s \in SourcesOf(Arg) THEN 0 ELSE libs[s]]
    /\ Then(<<>>)
    /\ UNCHANGED <<pin, cached, tree, torn, closure, report>>

\* What is missing from a torn tree may or may not be needed.  With its last
\* library the libass closure gets its closure file.
Compile ==
    /\ At("compile")
    /\ \/ /\ libs' = [libs EXCEPT ![Arg] = tree[Arg]]
          /\ closure' = closure \cup {c \in {"libass"} : Arg = BuildOrder[Len(BuildOrder)]}
          /\ Then(<<>>)
       \/ Arg \in torn /\ Stop /\ UNCHANGED <<libs, closure>>
    /\ UNCHANGED <<pin, cached, tree, torn, report>>

Built(c) == \A s \in SourcesOf(c) : libs[s] # 0

\* verify_closure: the archives, the closure file, and the report.
VerifyClosure ==
    /\ At("verify")
    /\ \/ Built(Arg) /\ closure' = closure \cup {Arg} /\ Then(<<<<"report", Arg>>>>)
       \/ ~ Built(Arg) /\ Stop /\ UNCHANGED closure
    /\ UNCHANGED <<pin, cached, tree, torn, libs, report>>

\* The FFmpeg reports name the versions of the lock file, that of libass only
\* what it has hashed.
ReportClosure ==
    /\ At("report")
    /\ report' = [report EXCEPT ![Arg] =
           [s \in SourcesOf(Arg) |-> IF Arg = "libass" THEN libs[s] ELSE pin[s]]]
    /\ Then(<<>>)
    /\ UNCHANGED <<pin, cached, tree, torn, libs, closure>>

ClosureStep ==
    \/ BuildLibass \/ Libraries \/ BuildFfmpeg \/ BuildFfmpegCore \/ Reset \/ Removed
    \/ Extract \/ Fetch \/ Move \/ Hash \/ Unpack \/ Release \/ Clear \/ Compile
    \/ VerifyClosure \/ ReportClosure
=============================================================================
