----------------------------- MODULE MakeProofs -----------------------------
(***************************************************************************)
(* Proofs about the builds, for any sources, versions, bridges, commands   *)
(* and faults: only what the lock files pin is unpacked, the report of the *)
(* core closure names the FFmpeg that is in it, and a full build that      *)
(* succeeds has made everything from the pinned versions.                  *)
(*                                                                         *)
(* First BuildInv: a program puts its operations in front of the command   *)
(* one by one, so what an operation may rely on is what the one before it  *)
(* has left.  Then ProgressInv: a full build is followed from one place to *)
(* the next, stage by stage.  Last a full build that nothing disturbs: no  *)
(* operation it comes to fails.                                            *)
(***************************************************************************)
EXTENDS MakeProgress, TLAPS

-----------------------------------------------------------------------------
(* The agenda. *)

LEMMA Unrelying == ASSUME NEW a, NEW b, ~ Relies(b) PROVE Before(a, b) /\ Ready(b)
BY DEF Before, Ready, Relies, OnTree, OnLibraries

LEMMA UnrelyingNext == ASSUME NEW b, ~ Relies(b) PROVE Ready(b)'
BY DEF Ready, Relies, OnTree, OnLibraries

\* The operations that others rely on.
Given(a) ==
    \/ a[1] \in {"fetch", "move", "hash"}
    \/ a \in {<<"release", FfmpegCore>>, <<"clear", "ffmpeg-core">>, <<"extract", Dav1d>>,
              <<"unpack", Dav1d>>, <<"compile", Dav1d>>, <<"compile", FfmpegCore>>}

LEMMA Ungiven == ASSUME NEW a, NEW b, ~ Given(a), Before(a, b) PROVE ~ Relies(b)
BY DEF Before, Given

LEMMA Rest ==
    ASSUME todo \in Seq(Operations), todo # <<>>, Chained(todo)
    PROVE  /\ Tail(todo) \in Seq(Operations)
           /\ Chained(Tail(todo))
           /\ Head(todo) \in Operations
           /\ Tail(todo) # <<>> => Before(Head(todo), Head(Tail(todo)))
<1>1. /\ Tail(todo) \in Seq(Operations) /\ Len(Tail(todo)) = Len(todo) - 1
      /\ \A i \in 1..Len(Tail(todo)) : Tail(todo)[i] = todo[i + 1]
      /\ Head(todo) = todo[1] /\ Len(todo) \in Nat \ {0} /\ todo[1] \in Operations
  OBVIOUS
<1>2. Chained(Tail(todo))
  <2> SUFFICES ASSUME NEW i \in 1..(Len(Tail(todo)) - 1) PROVE Before(Tail(todo)[i], Tail(todo)[i + 1])
    BY DEF Chained
  <2>1. Tail(todo)[i] = todo[i + 1] /\ Tail(todo)[i + 1] = todo[(i + 1) + 1] /\ i + 1 \in 1..(Len(todo) - 1)
    BY <1>1
  <2> QED BY <2>1 DEF Chained
<1>3. ASSUME Tail(todo) # <<>> PROVE Before(Head(todo), Head(Tail(todo)))
  <2>1. Head(Tail(todo)) = todo[2] /\ 1 \in 1..(Len(todo) - 1) /\ 1 + 1 = 2
    BY <1>1, <1>3
  <2> QED BY <2>1, <1>1 DEF Chained
<1> QED BY <1>1, <1>2, <1>3

LEMMA Joined ==
    ASSUME NEW S, NEW o \in Seq(S), NEW t \in Seq(S), Chained(o), Chained(t), o # <<>>,
           t # <<>> => Before(o[Len(o)], Head(t))
    PROVE  /\ o \o t \in Seq(S) /\ o \o t # <<>>
           /\ Head(o \o t) = o[1]
           /\ Chained(o \o t)
<1>1. /\ o \o t \in Seq(S) /\ Len(o \o t) = Len(o) + Len(t)
      /\ \A i \in 1..(Len(o) + Len(t)) : (o \o t)[i] = IF i <= Len(o) THEN o[i] ELSE t[i - Len(o)]
      /\ Len(o) \in Nat \ {0} /\ Len(t) \in Nat
  OBVIOUS
<1>2. o \o t # <<>> /\ Head(o \o t) = o[1]
  BY <1>1
<1>3. Chained(o \o t)
  <2> SUFFICES ASSUME NEW i \in 1..(Len(o) + Len(t) - 1)
               PROVE  Before((o \o t)[i], (o \o t)[i + 1])
    BY <1>1 DEF Chained
  <2>1. CASE i < Len(o)
    <3>1. i \in 1..(Len(o) - 1) /\ (o \o t)[i] = o[i] /\ (o \o t)[i + 1] = o[i + 1]
      BY <1>1, <2>1
    <3> QED BY <3>1 DEF Chained
  <2>2. CASE i = Len(o)
    <3>1. (o \o t)[i] = o[Len(o)] /\ (o \o t)[i + 1] = t[1] /\ t # <<>> /\ Head(t) = t[1]
      BY <1>1, <2>2
    <3> QED BY <3>1
  <2>3. CASE i > Len(o)
    <3>1. /\ i - Len(o) \in 1..(Len(t) - 1)
          /\ (o \o t)[i] = t[i - Len(o)] /\ (o \o t)[i + 1] = t[(i - Len(o)) + 1]
      BY <1>1, <2>3
    <3> QED BY <3>1 DEF Chained
  <2> QED BY <1>1, <2>1, <2>2, <2>3
<1> QED BY <1>1, <1>2, <1>3

\* The operation is done and leaves nothing in front.
LEMMA DoneStep ==
    ASSUME AgendaInv, todo # <<>>, todo' = Tail(todo),
           todo' # <<>> /\ Before(Head(todo), Head(todo')) => Ready(Head(todo))'
    PROVE  AgendaInv'
<1>1. /\ todo' \in Seq(Operations) /\ Chained(todo)'
      /\ todo' # <<>> => Before(Head(todo), Head(todo'))
  BY Rest DEF AgendaInv, Chained
<1> QED BY <1>1 DEF AgendaInv

\* It puts operations in front, of which the last is one nothing relied on.
LEMMA MoreStep ==
    ASSUME AgendaInv, todo # <<>>, NEW o \in Seq(Operations), o # <<>>, Chained(o),
           todo' = o \o Tail(todo), Ready(o[1])',
           \A b : Before(Head(todo), b) => Before(o[Len(o)], b)
    PROVE  AgendaInv'
<1>1. /\ Tail(todo) \in Seq(Operations) /\ Chained(Tail(todo))
      /\ Tail(todo) # <<>> => Before(o[Len(o)], Head(Tail(todo)))
  BY Rest DEF AgendaInv
<1>2. /\ todo' \in Seq(Operations) /\ todo' # <<>> /\ Head(todo') = o[1] /\ Chained(todo)'
  BY <1>1, Joined DEF Chained
<1> QED BY <1>2 DEF AgendaInv

LEMMA EndStep == ASSUME todo' = <<>> PROVE AgendaInv'
BY DEF AgendaInv, Chained

\* An operation nothing relies on is done, and what it puts in front is ready.
LEMMA PlainStep ==
    ASSUME AgendaInv, todo # <<>>, ~ Given(Head(todo)),
           NEW o \in Seq(Operations), Chained(o), todo' = o \o Tail(todo),
           o # <<>> => Ready(o[1])'
    PROVE  AgendaInv'
<1>1. \A b : Before(Head(todo), b) => ~ Relies(b)
  BY Ungiven
<1>2. CASE o = <<>>
  <2>1. todo' = Tail(todo)
    BY <1>2, Rest DEF AgendaInv
  <2>2. Before(Head(todo), Head(todo')) => Ready(Head(todo))'
    <3> SUFFICES ASSUME Before(Head(todo), Head(todo')) PROVE Ready(Head(todo))'
      OBVIOUS
    <3>1. ~ Relies(Head(todo'))
      BY <1>1
    <3> QED BY <3>1, UnrelyingNext
  <2> QED BY <2>1, <2>2, DoneStep
<1>3. CASE o # <<>>
  BY <1>1, <1>3, MoreStep, Unrelying
<1> QED BY <1>2, <1>3

\* What is put in front is chained if only its first operation relies on another.
LEMMA LooselyChained ==
    ASSUME NEW o \in Seq(Operations), \A i \in 2..Len(o) : ~ Relies(o[i])
    PROVE  Chained(o)
<1> SUFFICES ASSUME NEW i \in 1..(Len(o) - 1) PROVE Before(o[i], o[i + 1])
  BY DEF Chained
<1>1. ~ Relies(o[i + 1])
  OBVIOUS
<1> QED BY <1>1, Unrelying

\* Without a look at the closures, and with nothing in front that relies on them.
LEMMA LooseStep ==
    ASSUME AgendaInv, todo # <<>>, ~ Given(Head(todo)),
           NEW o \in Seq(Operations), \A i \in 1..Len(o) : ~ Relies(o[i]), Then(o)
    PROVE  AgendaInv'
<1>1. Chained(o)
  BY LooselyChained
<1>2. ASSUME o # <<>> PROVE Ready(o[1])'
  <2>1. ~ Relies(o[1])
    BY <1>2
  <2> QED BY <2>1 DEF Ready, Relies, OnTree, OnLibraries
<1> QED BY <1>1, <1>2, PlainStep DEF Then

-----------------------------------------------------------------------------
(* The bootstrap. *)

LEMMA KeystoneStepInv ==
    ASSUME BuildInv, KeystoneStep, UNCHANGED <<closures, bridges>>
    PROVE  BuildInv'
<1> DEFINE Name == Head(todo)[1]
<1>0. Head(todo) \in Operations \/ todo = <<>>
  BY DEF BuildInv, TypeOK
<1>1. ClosuresOK' /\ BridgesOK'
  BY DEF BuildInv, TypeOK, ClosuresOK, BridgesOK, closures, bridges, Stock, Versions, ArchiveNames, Defective
<1>2. ASSUME AgendaInv', KeystoneOK' PROVE BuildInv'
  BY <1>1, <1>2 DEF BuildInv, TypeOK, AgendaInv
<1>3. ASSUME todo # <<>>,
             Name \in {"keystone", "source", "download", "downloaded", "untar", "untarred",
                       "policy", "rewrite", "build", "copy", "copied"}
      PROVE  ~ Given(Head(todo))
  BY <1>3 DEF Given
<1>4. ASSUME todo # <<>>, Name \in {"policy", "rewrite"} PROVE Arg \in PolicyFiles
  BY <1>0, <1>4 DEF Arg, Operations, Programs
<1>5. <<>> \in Seq(Operations) /\ \A i \in 1..Len(<<>>) : ~ Relies(<<>>[i])
  OBVIOUS
<1>6. CASE Bootstrap
  <2> DEFINE o == <<<<"source", 0>>, <<"policy", 1>>, <<"policy", 2>>, <<"build", 0>>, <<"copy", 0>>>>
  <2>1. o \in Seq(Operations) /\ Len(o) = 5
    BY DEF Operations, PolicyFiles
  <2>2. \A i \in 1..5 : ~ Relies(o[i])
    BY DEF Relies
  <2>3. AgendaInv'
    BY <1>3, <1>5, <1>6, <2>1, <2>2, LooseStep DEF Bootstrap, At, BuildInv
  <2> QED BY <1>2, <1>6, <2>3 DEF BuildInv, TypeOK, Bootstrap, KeystoneOK, keystone
<1>7. CASE FindSource
  <2> DEFINE u == <<<<"untar", 0>>>>
             d == <<<<"download", 0>>, <<"untar", 0>>>>
  <2>1. u \in Seq(Operations) /\ Len(u) = 1 /\ d \in Seq(Operations) /\ Len(d) = 2
    BY DEF Operations
  <2>2. (\A i \in 1..1 : ~ Relies(u[i])) /\ (\A i \in 1..2 : ~ Relies(d[i]))
    BY DEF Relies
  <2>3. AgendaInv'
    BY <1>3, <1>5, <1>7, <2>1, <2>2, LooseStep DEF FindSource, At, BuildInv
  <2> QED BY <1>2, <1>7, <2>3 DEF BuildInv, TypeOK, FindSource, KeystoneOK, keystone
<1>8. ASSUME NEW name \in {"downloaded", "untarred", "copied"}, todo # <<>>,
             ~ Given(Head(todo)), Then(<<<<name, 0>>>>)
      PROVE  AgendaInv'
  <2> DEFINE o == <<<<name, 0>>>>
  <2>1. o \in Seq(Operations) /\ Len(o) = 1 /\ \A i \in 1..1 : ~ Relies(o[i])
    BY DEF Operations, Relies
  <2> QED BY <1>8, <2>1, LooseStep DEF BuildInv
<1>9. ASSUME todo # <<>>, ~ Given(Head(todo)), Then(<<>>) PROVE AgendaInv'
  BY <1>5, <1>9, LooseStep DEF BuildInv
<1>10. ASSUME Stop PROVE AgendaInv'
  BY <1>10, EndStep DEF Stop
<1>11. CASE Download
  BY <1>2, <1>3, <1>8, <1>11 DEF BuildInv, TypeOK, Download, At, KeystoneOK
<1>12. CASE Downloaded
  BY <1>2, <1>3, <1>9, <1>12 DEF BuildInv, TypeOK, Downloaded, At, KeystoneOK
<1>13. CASE Untar
  BY <1>2, <1>3, <1>8, <1>10, <1>13 DEF BuildInv, TypeOK, Untar, At, KeystoneOK
<1>14. CASE Untarred
  BY <1>2, <1>3, <1>9, <1>14 DEF BuildInv, TypeOK, Untarred, At, KeystoneOK
<1>15. CASE EditPolicy
  <2>1. todo # <<>> /\ ~ Given(Head(todo)) /\ Arg \in PolicyFiles
    BY <1>3, <1>4, <1>15 DEF EditPolicy, At
  <2>2. KeystoneOK'
    BY <1>15, <2>1 DEF BuildInv, TypeOK, EditPolicy, KeystoneOK
  <2>3. ASSUME Then(<<<<"rewrite", Arg>>>>) PROVE AgendaInv'
    <3>1. <<"rewrite", Arg>> \in Operations /\ ~ Relies(<<"rewrite", Arg>>)
      BY <2>1 DEF Operations, Relies
    <3> DEFINE o == <<<<"rewrite", Arg>>>>
    <3>2. o \in Seq(Operations) /\ Len(o) = 1 /\ o[1] = <<"rewrite", Arg>>
      BY <3>1
    <3> HIDE DEF o
    <3>3. \A i \in 1..Len(o) : ~ Relies(o[i])
      BY <3>1, <3>2
    <3> QED BY <2>1, <2>3, <3>2, <3>3, LooseStep DEF BuildInv, o
  <2>4. AgendaInv'
    BY <1>9, <1>10, <1>15, <2>1, <2>3 DEF EditPolicy
  <2> QED BY <1>2, <2>2, <2>4
<1>16. CASE RewritePolicy
  BY <1>2, <1>3, <1>4, <1>9, <1>16 DEF BuildInv, TypeOK, RewritePolicy, At, KeystoneOK
<1>17. CASE BuildKeystone
  BY <1>2, <1>3, <1>9, <1>10, <1>17 DEF BuildInv, TypeOK, BuildKeystone, At, KeystoneOK, keystone
<1>18. CASE CopyLibrary
  BY <1>2, <1>3, <1>8, <1>18 DEF BuildInv, TypeOK, CopyLibrary, At, KeystoneOK
<1>19. CASE LibraryCopied
  BY <1>2, <1>3, <1>9, <1>19 DEF BuildInv, TypeOK, LibraryCopied, At, KeystoneOK
<1> QED
  BY <1>6, <1>7, <1>11, <1>12, <1>13, <1>14, <1>15, <1>16, <1>17, <1>18, <1>19 DEF KeystoneStep

-----------------------------------------------------------------------------
(* The dylibs. *)

LEMMA LinkedOK ==
    ASSUME TypeOK, NEW b \in Bridges
    PROVE  /\ SourcesOf(ClosureOf[b]) \subseteq Sources /\ ClosureOf[b] \in Closures
           /\ Linked(b) \in [SourcesOf(ClosureOf[b]) -> Stock]
           /\ NoDylib(b) \in [SourcesOf(ClosureOf[b]) -> Stock]
<1>1. ClosureOf[b] \in Closures
  BY BridgeAssumption
<1>2. SourcesOf(ClosureOf[b]) \subseteq Sources
  BY <1>1 DEF Sources
<1>3. 0 \in Stock
  BY SourceAssumption DEF Stock
<1> QED BY <1>1, <1>2, <1>3 DEF TypeOK, ClosuresOK, Linked, NoDylib

LEMMA BridgeStepInv ==
    ASSUME BuildInv, BridgeStep, UNCHANGED <<keystone, closures>>
    PROVE  BuildInv'
<1> DEFINE Name == Head(todo)[1]
<1>0. Head(todo) \in Operations \/ todo = <<>>
  BY DEF BuildInv, TypeOK
<1>1. ClosuresOK' /\ KeystoneOK'
  BY DEF BuildInv, TypeOK, ClosuresOK, KeystoneOK, closures, keystone, Stock, Versions, ArchiveNames
<1>2. ASSUME AgendaInv', BridgesOK' PROVE BuildInv'
  BY <1>1, <1>2 DEF BuildInv, TypeOK, AgendaInv
<1>3. ASSUME todo # <<>>, Name \in {"bridges", "checks", "load", "unlink", "link", "check"}
      PROVE  ~ Given(Head(todo))
  BY <1>3 DEF Given
<1>4. ASSUME todo # <<>>, Name \in {"load", "unlink", "link", "check"} PROVE Arg \in Bridges
  BY <1>0, <1>4 DEF Arg, Operations, Programs
<1>5. ASSUME todo # <<>>, Name \in {"bridges", "checks"} PROVE Arg \in Nat \ {0}
  BY <1>0, <1>5 DEF Arg, Operations, Programs
<1>6. <<>> \in Seq(Operations) /\ \A i \in 1..Len(<<>>) : ~ Relies(<<>>[i])
  OBVIOUS
<1>7. ASSUME todo # <<>>, ~ Given(Head(todo)), Then(<<>>) PROVE AgendaInv'
  BY <1>6, <1>7, LooseStep DEF BuildInv
<1>8. ASSUME Stop PROVE AgendaInv'
  BY <1>8, EndStep DEF Stop
<1>9. ASSUME UNCHANGED bridges PROVE BridgesOK'
  BY <1>9 DEF BuildInv, TypeOK, BridgesOK, bridges, Stock, Defective
<1>10. CASE NextBridge
  <2>1. todo # <<>> /\ ~ Given(Head(todo)) /\ Arg \in Nat \ {0}
    BY <1>3, <1>5, <1>10 DEF NextBridge, At
  <2>2. CASE Arg <= Len(BridgeOrder)
    <3> DEFINE b == BridgeOrder[Arg]
               o == <<<<"load", b>>, <<"unlink", b>>, <<"link", b>>, <<"check", b>>, <<"bridges", Arg + 1>>>>
    <3>1. b \in Bridges /\ Arg + 1 \in Nat \ {0}
      BY <2>1, <2>2, BridgeAssumption
    <3>2. o \in Seq(Operations) /\ Len(o) = 5 /\ \A i \in 1..5 : ~ Relies(o[i])
      <4> HIDE DEF b
      <4>1. /\ <<"load", b>> \in Operations /\ <<"unlink", b>> \in Operations
            /\ <<"link", b>> \in Operations /\ <<"check", b>> \in Operations
            /\ <<"bridges", Arg + 1>> \in Operations
        BY <3>1 DEF Operations
      <4>2. /\ ~ Relies(<<"load", b>>) /\ ~ Relies(<<"unlink", b>>) /\ ~ Relies(<<"link", b>>)
            /\ ~ Relies(<<"check", b>>) /\ ~ Relies(<<"bridges", Arg + 1>>)
        BY DEF Relies
      <4> QED BY <4>1, <4>2
    <3>3. Then(o)
      BY <1>10, <2>1, <2>2, BridgeAssumption DEF NextBridge
    <3> HIDE DEF o
    <3> QED BY <1>2, <1>9, <1>10, <2>1, <3>2, <3>3, LooseStep DEF BuildInv, NextBridge
  <2>3. CASE Arg > Len(BridgeOrder)
    BY <1>2, <1>7, <1>9, <1>10, <2>1, <2>3 DEF NextBridge
  <2> QED BY <2>1, <2>2, <2>3, BridgeAssumption
<1>11. CASE NextCheck
  <2>1. todo # <<>> /\ ~ Given(Head(todo)) /\ Arg \in Nat \ {0}
    BY <1>3, <1>5, <1>11 DEF NextCheck, At
  <2>2. CASE Arg <= Len(BridgeOrder)
    <3> DEFINE b == BridgeOrder[Arg]
               o == <<<<"check", b>>, <<"checks", Arg + 1>>>>
    <3>1. b \in Bridges /\ Arg + 1 \in Nat \ {0}
      BY <2>1, <2>2, BridgeAssumption
    <3>2. o \in Seq(Operations) /\ Len(o) = 2 /\ \A i \in 1..2 : ~ Relies(o[i])
      <4> HIDE DEF b
      <4>1. <<"check", b>> \in Operations /\ <<"checks", Arg + 1>> \in Operations
        BY <3>1 DEF Operations
      <4>2. ~ Relies(<<"check", b>>) /\ ~ Relies(<<"checks", Arg + 1>>)
        BY DEF Relies
      <4> QED BY <4>1, <4>2
    <3>3. Then(o)
      BY <1>11, <2>1, <2>2, BridgeAssumption DEF NextCheck
    <3> HIDE DEF o
    <3> QED BY <1>2, <1>9, <1>11, <2>1, <3>2, <3>3, LooseStep DEF BuildInv, NextCheck
  <2>3. CASE Arg > Len(BridgeOrder)
    BY <1>2, <1>7, <1>9, <1>11, <2>1, <2>3 DEF NextCheck
  <2> QED BY <2>1, <2>2, <2>3, BridgeAssumption
<1>12. CASE LoadClosure
  BY <1>2, <1>3, <1>7, <1>8, <1>9, <1>12 DEF LoadClosure, At
<1>13. CASE CompileDylib
  <2>1. todo # <<>> /\ ~ Given(Head(todo)) /\ Arg \in Bridges
    BY <1>3, <1>4, <1>13 DEF CompileDylib, At
  <2>2. BridgesOK'
    BY <1>13, <2>1, LinkedOK DEF CompileDylib, BuildInv, TypeOK, BridgesOK, Stock, Defective
  <2> QED BY <1>2, <1>7, <1>13, <2>1, <2>2 DEF CompileDylib
<1>14. CASE LinkDylib
  <2>1. todo # <<>> /\ ~ Given(Head(todo)) /\ Arg \in Bridges
    BY <1>3, <1>4, <1>14 DEF LinkDylib, At
  <2>2. BridgesOK'
    BY <1>14, <2>1, LinkedOK DEF LinkDylib, BuildInv, TypeOK, BridgesOK, Stock, Defective
  <2> QED BY <1>2, <1>7, <1>14, <2>1, <2>2 DEF LinkDylib
<1>15. CASE VerifyDylib
  <2>1. todo # <<>> /\ ~ Given(Head(todo)) /\ Arg \in Bridges
    BY <1>3, <1>4, <1>15 DEF VerifyDylib, At
  <2>2. BridgesOK'
    BY <1>15, <2>1 DEF VerifyDylib, Fails, BuildInv, TypeOK, BridgesOK, Stock, Defective
  <2> QED BY <1>2, <1>7, <1>8, <1>15, <2>1, <2>2 DEF VerifyDylib
<1> QED BY <1>10, <1>11, <1>12, <1>13, <1>14, <1>15 DEF BridgeStep

-----------------------------------------------------------------------------
(* The closures. *)

LEMMA SourceFacts ==
    /\ \A i \in 1..Len(BuildOrder) : BuildOrder[i] \in Sources \ {Ffmpeg, FfmpegCore, Dav1d}
    /\ {Ffmpeg, FfmpegCore, Dav1d} \subseteq Sources
    /\ Len(BuildOrder) \in Nat \ {0}
    /\ \A c \in Closures : SourcesOf(c) \subseteq Sources
    /\ 0 \in Stock /\ Versions \subseteq Stock /\ Bad \notin Stock
<1>1. /\ \A c \in Closures : SourcesOf(c) \subseteq Sources
      /\ {"libass", "ffmpeg", "ffmpeg-core"} = Closures
  BY DEF Sources, Closures
<1>2. /\ SourcesOf("libass") = Range(BuildOrder)
      /\ SourcesOf("ffmpeg") = {Ffmpeg}
      /\ SourcesOf("ffmpeg-core") = {FfmpegCore, Dav1d}
  BY DEF SourcesOf
<1>3. \A i \in 1..Len(BuildOrder) : BuildOrder[i] \in Range(BuildOrder)
  BY SourceAssumption
<1> QED BY <1>1, <1>2, <1>3, SourceAssumption DEF Stock, Versions, Bad

\* The operation is done: what comes next relied on it, or on nothing.
LEMMA GivenStep ==
    ASSUME AgendaInv, todo # <<>>, Then(<<>>),
           \A b : Before(Head(todo), b) /\ Relies(b) => Ready(b)'
    PROVE  AgendaInv'
<1>1. todo' = Tail(todo)
  BY Rest DEF Then, AgendaInv
<1>2. ASSUME Before(Head(todo), Head(todo')) PROVE Ready(Head(todo))'
  <2>1. CASE Relies(Head(todo'))
    BY <1>2, <2>1
  <2>2. CASE ~ Relies(Head(todo'))
    BY <2>2, UnrelyingNext
  <2> QED BY <2>1, <2>2
<1> QED BY <1>1, <1>2, DoneStep

LEMMA ArgFacts ==
    ASSUME TypeOK, todo # <<>>
    PROVE  /\ Head(todo)[1] \in {"extract", "fetch", "move", "hash", "unpack", "release", "compile"}
                  => Arg \in Sources /\ Head(todo) = <<Head(todo)[1], Arg>>
           /\ Head(todo)[1] \in {"clear", "verify", "report"}
                  => Arg \in Closures /\ Head(todo) = <<Head(todo)[1], Arg>>
           /\ Head(todo)[1] = "libraries" => Arg \in Nat \ {0}
<1>1. Head(todo) \in Operations
  BY DEF TypeOK
<1> QED BY <1>1 DEF Arg, Operations, Programs, Closures

\* The programs, and the list of the libass closure.
LEMMA ProgramStepInv ==
    ASSUME BuildInv, BuildLibass \/ Libraries \/ BuildFfmpeg \/ BuildFfmpegCore
    PROVE  AgendaInv'
<1>1. CASE BuildLibass
  <2> DEFINE o == <<<<"reset", 0>>, <<"removed", 0>>, <<"libraries", 1>>>>
  <2>1. o \in Seq(Operations) /\ Len(o) = 3 /\ \A i \in 1..3 : ~ Relies(o[i])
    BY DEF Operations, Relies
  <2>2. todo # <<>> /\ ~ Given(Head(todo)) /\ Then(o)
    BY <1>1 DEF BuildLibass, At, Given
  <2> QED BY <2>1, <2>2, LooseStep DEF BuildInv
<1>2. CASE Libraries
  <2>1. todo # <<>> /\ ~ Given(Head(todo)) /\ Arg \in Nat \ {0}
    BY <1>2, ArgFacts DEF Libraries, At, Given, BuildInv
  <2>2. CASE Arg > Len(BuildOrder)
    <3> DEFINE o == <<<<"verify", "libass">>>>
    <3>1. o \in Seq(Operations) /\ Len(o) = 1 /\ \A i \in 1..1 : ~ Relies(o[i])
      BY DEF Operations, Programs, Relies
    <3>2. Then(o)
      BY <1>2, <2>2 DEF Libraries
    <3> QED BY <2>1, <3>1, <3>2, LooseStep DEF BuildInv
  <2>3. CASE Arg <= Len(BuildOrder)
    <3> DEFINE s == BuildOrder[Arg]
               o == <<<<"extract", s>>, <<"compile", s>>, <<"libraries", Arg + 1>>>>
    <3>1. s \in Sources \ {Ffmpeg, FfmpegCore, Dav1d} /\ Arg + 1 \in Nat \ {0}
      BY <2>1, <2>3, SourceFacts
    <3>2. o \in Seq(Operations) /\ Len(o) = 3 /\ \A i \in 1..3 : ~ Relies(o[i])
      <4> HIDE DEF s
      <4>1. /\ <<"extract", s>> \in Operations /\ <<"compile", s>> \in Operations
            /\ <<"libraries", Arg + 1>> \in Operations
        BY <3>1 DEF Operations
      <4>2. ~ Relies(<<"extract", s>>) /\ ~ Relies(<<"compile", s>>) /\ ~ Relies(<<"libraries", Arg + 1>>)
        BY <3>1 DEF Relies
      <4> QED BY <4>1, <4>2
    <3>3. Then(o)
      BY <1>2, <2>1, <2>3, SourceFacts DEF Libraries
    <3> HIDE DEF o
    <3> QED BY <2>1, <3>2, <3>3, LooseStep DEF BuildInv
  <2> QED BY <2>1, <2>2, <2>3, SourceFacts
<1>3. CASE BuildFfmpeg
  <2> DEFINE o == <<<<"extract", Ffmpeg>>, <<"clear", "ffmpeg">>, <<"compile", Ffmpeg>>, <<"verify", "ffmpeg">>>>
  <2>1. o \in Seq(Operations) /\ Len(o) = 4 /\ \A i \in 1..4 : ~ Relies(o[i])
    BY SourceFacts, SourceAssumption DEF Operations, Closures, Relies
  <2>2. todo # <<>> /\ ~ Given(Head(todo)) /\ Then(o)
    BY <1>3 DEF BuildFfmpeg, At, Given
  <2> QED BY <2>1, <2>2, LooseStep DEF BuildInv
<1>4. CASE BuildFfmpegCore
  <2> DEFINE o == <<<<"extract", FfmpegCore>>, <<"release", FfmpegCore>>, <<"clear", "ffmpeg-core">>,
                    <<"extract", Dav1d>>, <<"compile", Dav1d>>, <<"compile", FfmpegCore>>,
                    <<"verify", "ffmpeg-core">>>>
  <2>1. o \in Seq(Operations) /\ Len(o) = 7
    BY SourceFacts DEF Operations, Closures
  <2>2. ~ Relies(o[1]) /\ ~ Relies(o[2])
    BY SourceAssumption DEF Relies
  <2>3. Chained(o)
    <3>1. Before(o[1], o[2]) /\ Before(o[2], o[3]) /\ Before(o[3], o[4])
      BY <2>2 DEF Before
    <3>2. Before(o[4], o[5]) /\ Before(o[5], o[6]) /\ Before(o[6], o[7])
      BY DEF Before
    <3> HIDE DEF o
    <3> QED BY <2>1, <3>1, <3>2 DEF Chained
  <2>4. Ready(o[1])'
    BY <2>2, UnrelyingNext
  <2>5. todo # <<>> /\ ~ Given(Head(todo)) /\ Then(o)
    BY <1>4 DEF BuildFfmpegCore, At, Given
  <2> QED BY <2>1, <2>3, <2>4, <2>5, PlainStep DEF BuildInv, Then
<1> QED BY <1>1, <1>2, <1>3, <1>4

\* One operation put in front of what relies on the one it replaces.
LEMMA ReplacedStep ==
    ASSUME AgendaInv, todo # <<>>, NEW x \in Operations, todo' = <<x>> \o Tail(todo), Ready(x)',
           \A b : Before(Head(todo), b) => Before(x, b)
    PROVE  AgendaInv'
<1> DEFINE o == <<x>>
<1>1. o \in Seq(Operations) /\ Len(o) = 1 /\ o # <<>> /\ o[1] = x
  OBVIOUS
<1>2. Chained(o)
  BY <1>1 DEF Chained
<1>3. Ready(o[1])'
  OBVIOUS
<1>4. todo' = o \o Tail(todo)
  OBVIOUS
<1> HIDE DEF o
<1> QED BY <1>1, <1>2, <1>3, <1>4, MoreStep

\* extract_source
LEMMA ExtractInv ==
    ASSUME BuildInv, Extract
    PROVE  AgendaInv'
<1>1. /\ todo # <<>> /\ Arg \in Sources /\ Head(todo) = <<"extract", Arg>> /\ Ready(Head(todo))
      /\ AgendaInv /\ UNCHANGED <<pin, cached, tree, libs>>
  BY ArgFacts DEF Extract, At, BuildInv, AgendaInv, closures
<1>2. CASE tree[Arg] # 0
  <2>1. Then(<<>>)
    BY <1>2 DEF Extract
  <2>2. ASSUME NEW b, Before(Head(todo), b), Relies(b) PROVE Ready(b)'
    <3>1. b = <<"compile", Dav1d>> /\ Arg = Dav1d
      BY <1>1, <2>2 DEF Before
    <3> QED BY <1>1, <3>1 DEF Ready, OnTree, OnLibraries
  <2> QED BY <1>1, <2>1, <2>2, GivenStep
<1>3. CASE tree[Arg] = 0
  <2> PICK s \in Sources : s = Arg
    BY <1>1
  <2> DEFINE o == <<<<"fetch", s>>, <<"unpack", s>>>>
  <2>1. Then(o)
    BY <1>3 DEF Extract
  <2>2. <<"fetch", s>> \in Operations /\ <<"unpack", s>> \in Operations
    BY <1>1 DEF Operations
  <2>3. o \in Seq(Operations) /\ Len(o) = 2 /\ o # <<>>
    BY <2>2
  <2>4. Before(<<"fetch", s>>, <<"unpack", s>>)
    BY DEF Before
  <2>5. Chained(o)
    BY <2>3, <2>4 DEF Chained
  <2>6. Ready(<<"fetch", s>>)'
    BY <1>1 DEF Ready, OnTree, OnLibraries
  <2>7. \A b : Before(Head(todo), b) => Before(<<"unpack", s>>, b)
    BY <1>1 DEF Before
  <2> QED BY <1>1, <2>1, <2>3, <2>5, <2>6, <2>7, MoreStep DEF Then
<1> QED BY <1>2, <1>3

\* What is next after an archive that is the pinned one.
LEMMA ArchiveIsPinned ==
    ASSUME AgendaInv, todo # <<>>, NEW name \in {"fetch", "hash"}, Head(todo) = <<name, Arg>>,
           Then(<<>>), UNCHANGED <<pin, cached, tree, libs>>, cached[ArchiveName(Arg)] = pin[Arg]
    PROVE  AgendaInv'
<1>1. ASSUME NEW b, Before(Head(todo), b), Relies(b) PROVE Ready(b)'
  <2>1. b[1] = "unpack" /\ b[2] = Arg
    BY <1>1 DEF Before
  <2>2. b \in OnTree => <<name, Arg>> \in OnTree
    BY <2>1 DEF OnTree
  <2>3. b \notin OnLibraries
    BY <2>1 DEF OnLibraries
  <2> QED BY <2>1, <2>2, <2>3 DEF AgendaInv, Ready, ArchiveName
<1> QED BY <1>1, GivenStep

LEMMA CacheOK ==
    ASSUME TypeOK, NEW s \in Sources, NEW v \in Stock \cup {Bad}
    PROVE  /\ ArchiveName(s) \in ArchiveNames
           /\ [cached EXCEPT ![ArchiveName(s)] = v] \in [ArchiveNames -> Stock \cup {Bad}]
           /\ [cached EXCEPT ![ArchiveName(s)] = v][ArchiveName(s)] = v
<1>1. pin[s] \in 0..MaxVersion /\ 0 \in 0..MaxVersion
  BY SourceFacts DEF TypeOK, ClosuresOK, Stock
<1>2. ArchiveName(s) \in ArchiveNames
  BY <1>1 DEF ArchiveName, ArchiveNames
<1> QED BY <1>2 DEF TypeOK, ClosuresOK

\* What a step that leaves the tree and the libraries alone, and that is about a
\* download, puts in front is as ready as what it replaces.
LEMMA DownloadReady ==
    ASSUME AgendaInv, todo # <<>>, NEW a \in {"fetch", "move"}, NEW x \in {"move", "hash"},
           NEW s \in Sources, Head(todo) = <<a, s>>, UNCHANGED <<pin, tree, libs>>,
           todo' = <<<<x, s>>>> \o Tail(todo), x = "hash" => cached'[ArchiveName(s)] # 0
    PROVE  AgendaInv'
<1>1. <<x, s>> \in Operations
  BY DEF Operations
<1>2. Ready(<<x, s>>)'
  <2>1. <<x, s>> \in OnTree => <<a, s>> \in OnTree
    BY DEF OnTree
  <2>2. <<x, s>> \notin OnLibraries
    BY DEF OnLibraries
  <2> QED BY <2>1, <2>2 DEF AgendaInv, Ready, ArchiveName
<1>3. \A b : Before(Head(todo), b) => Before(<<x, s>>, b)
  BY DEF Before
<1> QED BY <1>1, <1>2, <1>3, ReplacedStep

LEMMA FetchInv ==
    ASSUME BuildInv, Fetch \/ Move \/ BadDelivery \/ Hash
    PROVE  AgendaInv' /\ cached' \in [ArchiveNames -> Stock \cup {Bad}]
<1>0. TypeOK /\ AgendaInv /\ cached \in [ArchiveNames -> Stock \cup {Bad}] /\ ArchiveNames' = ArchiveNames
  BY DEF BuildInv, TypeOK, ClosuresOK, ArchiveNames
<1>1. CASE Fetch
  <2>1. /\ todo # <<>> /\ Arg \in Sources /\ Head(todo) = <<"fetch", Arg>>
        /\ UNCHANGED <<pin, cached, tree, libs>>
    BY <1>0, <1>1, ArgFacts DEF Fetch, At, closures
  <2>2. CASE Then(<<<<"move", Arg>>>>)
    BY <1>0, <2>1, <2>2, DownloadReady DEF Then
  <2>3. CASE cached[ArchiveName(Arg)] = pin[Arg] /\ Then(<<>>)
    BY <1>0, <2>1, <2>3, ArchiveIsPinned
  <2>4. CASE Stop
    BY <1>0, <2>1, <2>4, EndStep DEF Stop
  <2> QED BY <1>1, <2>2, <2>3, <2>4, <2>1, <1>0 DEF Fetch
<1>2. CASE Move
  <2>1. /\ todo # <<>> /\ Arg \in Sources /\ Head(todo) = <<"move", Arg>>
        /\ UNCHANGED <<pin, tree, libs>>
        /\ todo' = <<<<"hash", Arg>>>> \o Tail(todo)
    BY <1>0, <1>2, ArgFacts DEF Move, At, Then
  <2>2. pin[Arg] \in Stock /\ pin[Arg] # 0
    BY <2>1, SourceFacts DEF BuildInv, TypeOK, ClosuresOK, Versions
  <2>3. cached' \in [ArchiveNames -> Stock \cup {Bad}] /\ cached'[ArchiveName(Arg)] # 0
    BY <1>0, <1>2, <2>1, <2>2, CacheOK DEF Move
  <2> QED BY <1>0, <2>1, <2>3, DownloadReady
<1>3. CASE BadDelivery
  <2>1. /\ todo # <<>> /\ Arg \in Sources /\ Head(todo) = <<"move", Arg>>
        /\ UNCHANGED <<pin, tree, libs>>
        /\ todo' = <<<<"hash", Arg>>>> \o Tail(todo)
    BY <1>0, <1>3, ArgFacts DEF BadDelivery, At
  <2>2. Bad \in Stock \cup {Bad} /\ Bad # 0
    BY DEF Bad
  <2>3. cached' \in [ArchiveNames -> Stock \cup {Bad}] /\ cached'[ArchiveName(Arg)] # 0
    BY <1>0, <1>3, <2>1, <2>2, CacheOK DEF BadDelivery
  <2> QED BY <1>0, <2>1, <2>3, DownloadReady
<1>4. CASE Hash
  <2>1. todo # <<>> /\ Arg \in Sources /\ Head(todo) = <<"hash", Arg>> /\ UNCHANGED <<pin, tree, libs>>
    BY <1>0, <1>4, ArgFacts DEF Hash, At
  <2>2. CASE cached[ArchiveName(Arg)] = pin[Arg] /\ Then(<<>>) /\ UNCHANGED cached
    BY <1>0, <2>1, <2>2, ArchiveIsPinned
  <2>3. CASE Stop /\ cached' = [cached EXCEPT ![ArchiveName(Arg)] = 0]
    BY <1>0, <2>1, <2>3, EndStep, CacheOK, SourceFacts DEF Stop
  <2> QED BY <1>4, <2>2, <2>3 DEF Hash
<1> QED BY <1>1, <1>2, <1>3, <1>4

\* The operations on the trees and the libraries that leave nothing in front.
LEMMA SourceStepInv ==
    ASSUME BuildInv, Unpack \/ Release \/ Clear \/ Compile
    PROVE  AgendaInv' /\ tree' \in [Sources -> Stock] /\ libs' \in [Sources -> Stock] /\ closure' \subseteq Closures
<1>0. /\ TypeOK /\ AgendaInv /\ ClosuresOK
      /\ tree \in [Sources -> Stock] /\ libs \in [Sources -> Stock] /\ closure \subseteq Closures
      /\ FfmpegCore \in Sources /\ Dav1d \in Sources /\ FfmpegCore # Dav1d /\ 0 \in Stock
  BY SourceFacts, SourceAssumption DEF BuildInv, TypeOK, ClosuresOK
<1>1. CASE Unpack
  <2>1. /\ todo # <<>> /\ Arg \in Sources /\ Head(todo) = <<"unpack", Arg>> /\ Ready(Head(todo)) /\ Then(<<>>)
        /\ tree' = [tree EXCEPT ![Arg] = cached[ArchiveName(Arg)]] /\ UNCHANGED <<pin, cached, libs, closure>>
    BY <1>0, <1>1, ArgFacts DEF Unpack, At, AgendaInv
  <2>2. cached[ArchiveName(Arg)] = pin[Arg] /\ pin[Arg] \in Stock
    BY <1>0, <2>1, SourceFacts DEF Ready, ClosuresOK
  <2>3. ASSUME NEW b, Before(Head(todo), b), Relies(b) PROVE Ready(b)'
    <3>1. b = <<"compile", Dav1d>> /\ Arg = Dav1d
      BY <2>1, <2>3 DEF Before
    <3>2. pin[FfmpegCore] \in NamedIn[tree[FfmpegCore]]
      BY <2>1, <3>1 DEF Ready, OnTree
    <3> QED BY <1>0, <2>1, <3>1, <3>2 DEF Ready, OnLibraries
  <2> QED BY <1>0, <2>1, <2>2, <2>3, GivenStep
<1>2. CASE Release
  <2>1. /\ todo # <<>> /\ Arg \in Sources /\ Head(todo) = <<"release", Arg>>
        /\ UNCHANGED <<pin, cached, tree, libs, closure>>
    BY <1>0, <1>2, ArgFacts DEF Release, At, closures
  <2>2. CASE pin[Arg] \in NamedIn[tree[Arg]] /\ Then(<<>>)
    <3>1. ASSUME NEW b, Before(Head(todo), b), Relies(b) PROVE Ready(b)'
      <4>1. b = <<"clear", "ffmpeg-core">> /\ Arg = FfmpegCore
        BY <2>1, <3>1 DEF Before
      <4> QED BY <2>1, <2>2, <4>1 DEF Ready, OnLibraries
    <3> QED BY <1>0, <2>1, <2>2, <3>1, GivenStep
  <2>3. CASE Stop
    BY <1>0, <2>1, <2>3, EndStep DEF Stop
  <2> QED BY <1>2, <2>2, <2>3 DEF Release
<1>3. CASE Clear
  <2>1. /\ todo # <<>> /\ Arg \in Closures /\ Head(todo) = <<"clear", Arg>> /\ Ready(Head(todo)) /\ Then(<<>>)
        /\ libs' = [s \in Sources |-> IF s \in SourcesOf(Arg) THEN 0 ELSE libs[s]]
        /\ UNCHANGED <<pin, cached, tree, closure>>
    BY <1>0, <1>3, ArgFacts DEF Clear, At, AgendaInv
  <2>2. ASSUME NEW b, Before(Head(todo), b), Relies(b) PROVE Ready(b)'
    <3>1. b = <<"extract", Dav1d>> /\ Arg = "ffmpeg-core"
      BY <2>1, <2>2 DEF Before
    <3>2. pin[FfmpegCore] \in NamedIn[tree[FfmpegCore]]
      BY <2>1, <3>1 DEF Ready, OnTree
    <3> QED BY <2>1, <3>1, <3>2 DEF Ready, OnLibraries
  <2>3. libs' \in [Sources -> Stock]
    BY <1>0, <2>1
  <2> QED BY <1>0, <2>1, <2>2, <2>3, GivenStep
<1>4. CASE Compile
  <2>1. /\ todo # <<>> /\ Arg \in Sources /\ Head(todo) = <<"compile", Arg>> /\ Ready(Head(todo))
        /\ UNCHANGED <<pin, cached, tree>>
    BY <1>0, <1>4, ArgFacts DEF Compile, At, AgendaInv
  <2>2. CASE /\ libs' = [libs EXCEPT ![Arg] = tree[Arg]]
             /\ closure' = closure \cup {c \in {"libass"} : Arg = BuildOrder[Len(BuildOrder)]}
             /\ Then(<<>>)
    <3>1. ASSUME NEW b, Before(Head(todo), b), Relies(b) PROVE Ready(b)'
      <4>1. \/ b = <<"compile", FfmpegCore>> /\ Arg = Dav1d
            \/ b = <<"verify", "ffmpeg-core">> /\ Arg = FfmpegCore
        BY <2>1, <3>1 DEF Before
      <4>2. pin[FfmpegCore] \in NamedIn[tree[FfmpegCore]]
        BY <2>1, <4>1 DEF Ready, OnTree
      <4>3. CASE b = <<"compile", FfmpegCore>>
        BY <2>1, <4>2, <4>3 DEF Ready, OnLibraries
      <4>4. CASE b = <<"verify", "ffmpeg-core">> /\ Arg = FfmpegCore
        BY <1>0, <2>1, <2>2, <4>2, <4>4 DEF Ready
      <4> QED BY <4>1, <4>3, <4>4
    <3>2. libs' \in [Sources -> Stock] /\ closure' \subseteq Closures
      BY <1>0, <2>1, <2>2 DEF Closures
    <3> QED BY <1>0, <2>1, <2>2, <3>1, <3>2, GivenStep
  <2>3. CASE Stop /\ UNCHANGED <<libs, closure>>
    BY <1>0, <2>1, <2>3, EndStep DEF Stop
  <2> QED BY <1>4, <2>2, <2>3 DEF Compile
<1> QED BY <1>1, <1>2, <1>3, <1>4

LEMMA VerifyInv ==
    ASSUME BuildInv, VerifyClosure
    PROVE  AgendaInv' /\ closure' \subseteq Closures
<1> PICK c : c = Arg
  OBVIOUS
<1>1. /\ TypeOK /\ AgendaInv /\ closure \subseteq Closures
      /\ todo # <<>> /\ c \in Closures /\ Head(todo) = <<"verify", c>> /\ Ready(Head(todo))
      /\ UNCHANGED <<pin, cached, tree, libs>>
  BY ArgFacts DEF BuildInv, TypeOK, ClosuresOK, VerifyClosure, At, AgendaInv
<1>2. CASE Stop /\ UNCHANGED closure
  BY <1>1, <1>2, EndStep DEF Stop
<1>3. CASE closure' = closure \cup {c} /\ Then(<<<<"report", c>>>>)
  <2> DEFINE o == <<<<"report", c>>>>
  <2>1. <<"report", c>> \in Operations
    BY <1>1 DEF Operations
  <2>2. o \in Seq(Operations) /\ Len(o) = 1 /\ o[1] = <<"report", c>>
    BY <2>1
  <2>3. Ready(<<"report", c>>)'
    <3>1. <<"report", c>> \in OnLibraries => <<"verify", c>> \in OnLibraries
      BY DEF OnLibraries
    <3>2. <<"report", c>> \notin OnTree
      BY DEF OnTree
    <3> QED BY <1>1, <3>1, <3>2 DEF Ready
  <2>4. Chained(o)
    BY <2>2 DEF Chained
  <2>5. ~ Given(Head(todo))
    BY <1>1 DEF Given
  <2>6. o[1] = <<"report", c>> => Ready(o[1])'
    BY <2>3
  <2> QED BY <1>1, <1>3, <2>2, <2>4, <2>5, <2>6, PlainStep DEF Then
<1> QED BY <1>2, <1>3 DEF VerifyClosure

LEMMA ClosureStepInv ==
    ASSUME BuildInv, ClosureStep, UNCHANGED <<keystone, bridges>>
    PROVE  BuildInv'
<1>0. TypeOK /\ AgendaInv /\ ClosuresOK
  BY DEF BuildInv, TypeOK
<1>1. KeystoneOK' /\ BridgesOK'
  BY <1>0 DEF TypeOK, KeystoneOK, BridgesOK, keystone, bridges, Stock, Defective
<1>2. ASSUME AgendaInv', ClosuresOK' PROVE BuildInv'
  BY <1>1, <1>2 DEF BuildInv, TypeOK, AgendaInv
<1>3. <<>> \in Seq(Operations) /\ \A i \in 1..Len(<<>>) : ~ Relies(<<>>[i])
  OBVIOUS
<1>4. CASE BuildLibass \/ Libraries \/ BuildFfmpeg \/ BuildFfmpegCore
  <2>1. UNCHANGED closures
    BY <1>4 DEF BuildLibass, Libraries, BuildFfmpeg, BuildFfmpegCore
  <2>2. ClosuresOK'
    BY <1>0, <2>1 DEF ClosuresOK, closures, Stock, Versions, ArchiveNames
  <2> QED BY <1>2, <1>4, <2>2, ProgramStepInv
<1>5. CASE Extract
  <2>1. ClosuresOK'
    BY <1>0, <1>5 DEF Extract, ClosuresOK, closures, Stock, Versions, ArchiveNames
  <2> QED BY <1>2, <1>5, <2>1, ExtractInv
<1>6. CASE Fetch \/ Move \/ BadDelivery \/ Hash
  <2>1. UNCHANGED <<pin, tree, torn, libs, closure, report>>
    BY <1>6 DEF Fetch, Move, BadDelivery, Hash, closures
  <2>2. ClosuresOK'
    BY <1>0, <1>6, <2>1, FetchInv DEF ClosuresOK, Stock, Versions, ArchiveNames
  <2> QED BY <1>2, <1>6, <2>2, FetchInv
<1>7. CASE Unpack \/ Release \/ Clear \/ Compile
  <2>1. UNCHANGED <<pin, cached, torn, report>>
    BY <1>7 DEF Unpack, Release, Clear, Compile, closures
  <2>2. ClosuresOK'
    BY <1>0, <1>7, <2>1, SourceStepInv DEF ClosuresOK, Stock, Versions, ArchiveNames
  <2> QED BY <1>2, <1>7, <2>2, SourceStepInv
<1>8. CASE VerifyClosure
  <2>1. ClosuresOK'
    BY <1>0, <1>8, VerifyInv DEF VerifyClosure, ClosuresOK, Stock, Versions, ArchiveNames
  <2> QED BY <1>2, <1>8, <2>1, VerifyInv
<1>9. CASE Reset \/ Removed \/ ReportClosure
  <2>1. todo # <<>> /\ ~ Given(Head(todo)) /\ Then(<<>>)
    BY <1>9 DEF Reset, Removed, ReportClosure, At, Given
  <2>2. ClosuresOK'
    <3>1. CASE Reset
      BY <1>0, <3>1 DEF Reset, ClosuresOK, Stock, Versions, ArchiveNames
    <3>2. CASE Removed
      BY <1>0, <3>2, SourceFacts DEF Removed, ClosuresOK, Stock, Versions, ArchiveNames
    <3>3. CASE ReportClosure
      <4>1. Arg \in Closures /\ SourcesOf(Arg) \subseteq Sources
        BY <1>0, <3>3, ArgFacts, SourceFacts DEF ReportClosure, At
      <4> DEFINE new == [s \in SourcesOf(Arg) |-> IF Arg = "libass" THEN libs[s] ELSE pin[s]]
      <4>2. new \in [SourcesOf(Arg) -> Stock]
        BY <1>0, <4>1, SourceFacts DEF ClosuresOK
      <4>3. report' = [report EXCEPT ![Arg] = new]
        BY <3>3 DEF ReportClosure
      <4> HIDE DEF new
      <4>4. DOMAIN report' = Closures /\ \A c \in Closures : report'[c] \in [SourcesOf(c) -> Stock]
        BY <1>0, <4>1, <4>2, <4>3 DEF ClosuresOK
      <4>5. UNCHANGED <<pin, cached, tree, torn, libs, closure>>
        BY <3>3 DEF ReportClosure
      <4> QED BY <1>0, <4>4, <4>5 DEF ClosuresOK, Stock, Versions, ArchiveNames
    <3> QED BY <1>9, <3>1, <3>2, <3>3
  <2> QED BY <1>0, <1>2, <1>3, <2>1, <2>2, LooseStep
<1> QED BY <1>4, <1>5, <1>6, <1>7, <1>8, <1>9 DEF ClosureStep

LEMMA BadDeliveryInv ==
    ASSUME BuildInv, BadDelivery, UNCHANGED <<keystone, bridges>>
    PROVE  BuildInv'
<1>1. UNCHANGED <<pin, tree, torn, libs, closure, report>>
  BY DEF BadDelivery
<1>2. ClosuresOK' /\ AgendaInv'
  BY <1>1, FetchInv DEF BuildInv, TypeOK, ClosuresOK, Stock, Versions, ArchiveNames
<1>3. KeystoneOK' /\ BridgesOK'
  BY DEF BuildInv, TypeOK, KeystoneOK, BridgesOK, keystone, bridges, Stock, Defective
<1> QED BY <1>2, <1>3 DEF BuildInv, TypeOK, AgendaInv

-----------------------------------------------------------------------------
(* The whole. *)

LEMMA InitInv == Init => BuildInv
<1> SUFFICES ASSUME Init PROVE BuildInv
  OBVIOUS
<1>1. KeystoneOK
  BY DEF Init, KeystoneInit, KeystoneOK
<1>2. ClosuresOK
  <2>1. 1 \in Versions
    BY SourceAssumption DEF Versions
  <2> QED BY <2>1, SourceFacts DEF Init, ClosureInit, ClosuresOK
<1>3. BridgesOK
  <2> SUFFICES ASSUME NEW b \in Bridges
               PROVE  NoDylib(b) \in [SourcesOf(ClosureOf[b]) -> Stock]
    BY DEF Init, BridgesOK
  <2> QED BY SourceFacts DEF NoDylib
<1>4. AgendaInv
  BY DEF Init, AgendaInit, AgendaInv, Chained
<1> QED BY <1>1, <1>2, <1>3, <1>4 DEF BuildInv, TypeOK, AgendaInv

LEMMA StartInv ==
    ASSUME Start
    PROVE  AgendaInv'
<1>1. PICK c \in Commands : todo' = c
  BY DEF Start
<1>2. c \in Seq(Programs) /\ c \in Seq(Operations)
  BY CommandAssumption DEF Operations
<1>3. \A p \in Programs : ~ Relies(p)
  BY DEF Programs, Relies
<1>4. \A i \in 1..Len(c) : ~ Relies(c[i])
  BY <1>2, <1>3
<1>5. Chained(c)
  BY <1>2, <1>4, LooselyChained
<1>6. c # <<>> => ~ Relies(Head(c))
  BY <1>2, <1>4
<1>7. c # <<>> => Ready(Head(todo))'
  BY <1>1, <1>6, UnrelyingNext
<1> QED BY <1>1, <1>2, <1>5, <1>7 DEF AgendaInv, Chained

LEMMA NextInv == BuildInv /\ [Next]_vars => BuildInv'
<1> SUFFICES ASSUME BuildInv, [Next]_vars PROVE BuildInv'
  OBVIOUS
<1> USE DEF BuildInv, TypeOK
<1>1. ASSUME UNCHANGED keystone PROVE KeystoneOK'
  BY <1>1 DEF KeystoneOK, keystone
<1>2. ASSUME UNCHANGED closures PROVE ClosuresOK'
  BY <1>2 DEF ClosuresOK, closures, Stock, Versions, ArchiveNames
<1>3. ASSUME UNCHANGED bridges PROVE BridgesOK'
  BY <1>3 DEF BridgesOK, bridges, Stock, Defective
<1>4. ASSUME AgendaInv', KeystoneOK', ClosuresOK', BridgesOK' PROVE BuildInv'
  BY <1>4 DEF AgendaInv
<1>5. CASE Step
  BY <1>5, KeystoneStepInv, ClosureStepInv, BridgeStepInv DEF Step
<1>6. CASE Start /\ UNCHANGED <<keystone, closures, bridges>>
  BY <1>1, <1>2, <1>3, <1>4, <1>6, StartInv
<1>7. CASE Repin /\ UNCHANGED <<keystone, bridges>>
  <2>1. AgendaInv'
    BY <1>7 DEF Repin, Idle, AgendaInv, Chained
  <2>2. ClosuresOK'
    <3> PICK c \in Commits : pin' = [pin EXCEPT ![c[1]] = c[3]]
      BY <1>7 DEF Repin
    <3>1. c[3] \in Versions
      BY CommitAssumption
    <3>2. pin' \in [Sources -> Versions]
      BY <3>1 DEF ClosuresOK
    <3> QED BY <1>7, <3>2 DEF Repin, ClosuresOK, Stock, Versions, ArchiveNames
  <2> QED BY <1>1, <1>3, <1>4, <1>7, <2>1, <2>2
<1>8. CASE Interrupt /\ UNCHANGED <<keystone, closures, bridges>>
  BY <1>1, <1>2, <1>3, <1>4, <1>8, EndStep DEF Interrupt
<1>9. CASE BadDelivery /\ UNCHANGED <<keystone, bridges>>
  BY <1>9, BadDeliveryInv
<1>10. CASE BadLink /\ UNCHANGED <<keystone, closures>>
  <2>1. todo # <<>> /\ Head(todo)[1] = "link" /\ todo' = Tail(todo) /\ Head(todo) \in Operations
    BY <1>10 DEF BadLink, At
  <2>2. ASSUME Before(Head(todo), Head(todo')) PROVE Ready(Head(todo))'
    <3>1. ~ Given(Head(todo))
      BY <2>1 DEF Given
    <3>2. ~ Relies(Head(todo'))
      BY <2>2, <3>1, Ungiven
    <3> QED BY <3>2, UnrelyingNext
  <2>3. AgendaInv'
    BY <2>1, <2>2, DoneStep
  <2>4. BridgesOK'
    BY <1>10, <2>1 DEF BadLink, BridgesOK, Defective, Stock
  <2> QED BY <1>1, <1>2, <1>4, <1>10, <2>3, <2>4
<1>11. CASE UNCHANGED vars
  <2>1. UNCHANGED <<todo, keystone, closures, bridges>>
    BY <1>11 DEF vars, agenda
  <2>2. AgendaInv'
    BY <2>1 DEF AgendaInv, Chained, Ready, ArchiveName, closures
  <2> QED BY <1>1, <1>2, <1>3, <1>4, <2>1, <2>2
<1> QED BY <1>5, <1>6, <1>7, <1>8, <1>9, <1>10, <1>11 DEF Next

LEMMA InvHolds == Spec => []BuildInv
BY InitInv, NextInv, PTL DEF Spec

\* Types: in particular no tree and no library is ever made of content that no
\* lock file has the hash of, whatever a server delivers and wherever a download
\* is stopped (build_deps.py: fetch_source, extract_source).
THEOREM Types == Spec => []TypeOK
<1>1. BuildInv => TypeOK
  BY DEF BuildInv
<1> QED BY InvHolds, <1>1, PTL

\* A source is unpacked only from an archive that has, at that moment, the hash
\* the lock files give it, be it downloaded or from the cache (build_deps.py:
\* fetch_source): for any sources, commands, faults and changes of the pins.
THEOREM OnlyPinnedIsUnpacked == Spec => UnpackedIsPinned
<1>1. ASSUME BuildInv, [Next]_vars
      PROVE  [\A s \in Sources : tree'[s] # tree[s] => tree'[s] \in {0, pin[s]}]_vars
  <2> SUFFICES ASSUME NEW s \in Sources, tree'[s] # tree[s]
               PROVE  tree'[s] \in {0, pin[s]}
    OBVIOUS
  <2>1. Unpack \/ Removed
    <3>1. UNCHANGED tree \/ Unpack \/ Removed
      BY <1>1 DEF Next, Step, ClosureStep, BuildLibass, Libraries, BuildFfmpeg, BuildFfmpegCore,
         Reset, Extract, Fetch, Move, BadDelivery, Hash, Release, Clear, Compile,
         VerifyClosure, ReportClosure, Repin, closures, vars
    <3> QED BY <3>1
  <2>2. CASE Removed
    BY <2>2 DEF Removed
  <2>3. CASE Unpack
    <3>1. /\ Head(todo) = <<"unpack", Arg>> /\ Ready(Head(todo)) /\ tree \in [Sources -> Stock]
          /\ tree' = [tree EXCEPT ![Arg] = cached[ArchiveName(Arg)]]
      BY <1>1, <2>3, ArgFacts DEF Unpack, At, BuildInv, AgendaInv, TypeOK, ClosuresOK
    <3>2. cached[ArchiveName(Arg)] = pin[Arg]
      BY <3>1 DEF Ready
    <3> QED BY <3>1, <3>2
  <2> QED BY <2>1, <2>2, <2>3
<1> QED BY InvHolds, <1>1, PTL DEF Spec, UnpackedIsPinned

\* What the look at RELEASE gives, and what is lost if it is dropped or if another
\* build comes between it and the report: the version in the report occurs in the
\* RELEASE of the FFmpeg that the libraries were built from (build_ffmpeg_core.py:
\* build), whichever versions occur in which.
THEOREM CoreReportIsOfTree == Spec => CoreReportInRelease
<1>1. ASSUME BuildInv, [Next]_vars
      PROVE  [report'["ffmpeg-core"] # report["ffmpeg-core"] =>
                 report'["ffmpeg-core"][FfmpegCore] \in NamedIn[libs'[FfmpegCore]]]_vars
  <2> SUFFICES ASSUME report'["ffmpeg-core"] # report["ffmpeg-core"]
               PROVE  report'["ffmpeg-core"][FfmpegCore] \in NamedIn[libs'[FfmpegCore]]
    OBVIOUS
  <2>1. ReportClosure
    <3>1. UNCHANGED report \/ ReportClosure
      BY <1>1 DEF Next, Step, ClosureStep, BuildLibass, Libraries, BuildFfmpeg, BuildFfmpegCore,
         Reset, Removed, Extract, Fetch, Move, BadDelivery, Hash, Unpack, Release, Clear, Compile,
         VerifyClosure, Repin, closures, vars
    <3> QED BY <3>1
  <2>2. /\ Head(todo) = <<"report", Arg>> /\ Ready(Head(todo)) /\ DOMAIN report = Closures
        /\ "ffmpeg-core" \in Closures
        /\ UNCHANGED libs
        /\ report' = [report EXCEPT ![Arg] =
               [s \in SourcesOf(Arg) |-> IF Arg = "libass" THEN libs[s] ELSE pin[s]]]
    BY <1>1, <2>1, ArgFacts DEF ReportClosure, At, BuildInv, AgendaInv, TypeOK, ClosuresOK, Closures
  <2>3. Arg = "ffmpeg-core"
    BY <2>2
  <2>4. pin[FfmpegCore] \in NamedIn[libs[FfmpegCore]]
    BY <2>2, <2>3 DEF Ready, OnLibraries
  <2>5. FfmpegCore \in SourcesOf("ffmpeg-core")
    BY DEF SourcesOf
  <2> QED BY <2>2, <2>3, <2>4, <2>5
<1> QED BY InvHolds, <1>1, PTL DEF Spec, CoreReportInRelease

\* Hence the report names the version that was built whenever no pinned version
\* occurs in the RELEASE of another one.
THEOREM CoreReportIsRight ==
    ASSUME \A v \in Versions : NamedIn[v] = {v}
    PROVE  Spec => CoreReportNamesSource
<1>1. ASSUME TypeOK',
             [report'["ffmpeg-core"] # report["ffmpeg-core"] =>
                 report'["ffmpeg-core"][FfmpegCore] \in NamedIn[libs'[FfmpegCore]]]_vars
      PROVE  [ReportNames("ffmpeg-core", FfmpegCore)]_vars
  <2> SUFFICES ASSUME report'["ffmpeg-core"] # report["ffmpeg-core"], vars' # vars
               PROVE  report'["ffmpeg-core"][FfmpegCore] = libs'[FfmpegCore]
    BY DEF ReportNames
  <2>1. report'["ffmpeg-core"][FfmpegCore] \in NamedIn[libs'[FfmpegCore]]
    BY <1>1
  <2>2. libs'[FfmpegCore] \in Versions
    <3>1. libs'[FfmpegCore] \in 0..MaxVersion
      BY <1>1, SourceFacts DEF TypeOK, ClosuresOK, Stock
    <3>2. libs'[FfmpegCore] # 0
      BY <2>1, ReleaseAssumption
    <3> QED BY <3>1, <3>2, SourceAssumption DEF Versions
  <2> QED BY <2>1, <2>2
<1> QED BY Types, CoreReportIsOfTree, <1>1, PTL DEF CoreReportInRelease, CoreReportNamesSource

-----------------------------------------------------------------------------
(***************************************************************************)
(* `make bootstrap deps bridge`.  First, lists that are built with Do.     *)
(***************************************************************************)
IsList(t) == \E S : t \in Seq(S)

\* What is left after an operation that is not the last.
Left(t) == IsList(t) /\ t # <<>>

LEMMA DoFacts ==
    ASSUME NEW x, NEW t, IsList(t)
    PROVE  Left(Do(x, t)) /\ Head(Do(x, t)) = x /\ Tail(Do(x, t)) = t
<1>1. PICK S : t \in Seq(S)
  BY DEF IsList
<1> DEFINE T == S \cup {x}
<1>2. t \in Seq(T) /\ x \in T
  BY <1>1
<1> HIDE DEF T
<1>3. Do(x, t) \in Seq(T) /\ Head(Do(x, t)) = x /\ Do(x, t) # <<>>
  BY <1>2 DEF Do
<1>4. Tail(Do(x, t)) = t
  BY <1>2 DEF Do
<1> QED BY <1>3, <1>4 DEF IsList, Left

\* Putting two lists in front, one after the other.
LEMMA DoMore ==
    ASSUME NEW t, IsList(t), NEW S, NEW o \in Seq(S), NEW x
    PROVE  Do(x, o) \o t = Do(x, o \o t)
<1>1. PICK U : t \in Seq(U)
  BY DEF IsList
<1> DEFINE T == S \cup U \cup {x}
<1>2. t \in Seq(T) /\ x \in T /\ o \in Seq(T)
  BY <1>1
<1> HIDE DEF T
<1> QED BY <1>2 DEF Do

\* A pair, which the provers do not see as a list of two by themselves.
LEMMA Pair ==
    ASSUME NEW a, NEW b
    PROVE  <<a, b>> = Do(a, <<b>>)
<1> DEFINE T == {a, b}
           p == <<a, b>>
           q == <<a>> \o <<b>>
<1>1. p \in Seq(T) /\ Len(p) = 2 /\ p[1] = a /\ p[2] = b
  OBVIOUS
<1>2. q \in Seq(T) /\ Len(q) = 2 /\ q[1] = a /\ q[2] = b
  OBVIOUS
<1> HIDE DEF p, q
<1>3. p = q
  BY <1>1, <1>2
<1> QED BY <1>3 DEF p, q, Do

\* What Then puts in front, written with Do.
LEMMA InFront1 ==
    ASSUME NEW t, IsList(t)
    PROVE  <<>> \o t = t
BY DEF IsList

LEMMA InFront2 ==
    ASSUME NEW t, IsList(t), NEW a, NEW b
    PROVE  <<a, b>> \o t = Do(a, Do(b, t))
<1>1. <<b>> \in Seq({b})
  OBVIOUS
<1>2. Do(a, <<b>>) \o t = Do(a, <<b>> \o t)
  BY <1>1, DoMore
<1>3. <<b>> \o t = Do(b, t)
  BY DEF Do
<1> QED BY <1>2, <1>3, Pair

LEMMA InFront3 ==
    ASSUME NEW t, IsList(t), NEW a, NEW b, NEW c
    PROVE  <<a, b, c>> \o t = Do(a, Do(b, Do(c, t)))
<1> DEFINE o == <<b, c>>
<1>1. o \in Seq({a, b, c}) /\ <<a, b, c>> = Do(a, o)
  BY DEF Do
<1>2. o \o t = Do(b, Do(c, t))
  BY InFront2
<1> HIDE DEF o
<1>3. Do(a, o) \o t = Do(a, o \o t)
  BY <1>1, DoMore
<1> QED BY <1>1, <1>2, <1>3

LEMMA InFront4 ==
    ASSUME NEW t, IsList(t), NEW a, NEW b, NEW c, NEW d
    PROVE  <<a, b, c, d>> \o t = Do(a, Do(b, Do(c, Do(d, t))))
<1> DEFINE o == <<b, c, d>>
<1>1. o \in Seq({a, b, c, d}) /\ <<a, b, c, d>> = Do(a, o)
  BY DEF Do
<1>2. o \o t = Do(b, Do(c, Do(d, t)))
  BY InFront3
<1> HIDE DEF o
<1>3. Do(a, o) \o t = Do(a, o \o t)
  BY <1>1, DoMore
<1> QED BY <1>1, <1>2, <1>3

LEMMA InFront5 ==
    ASSUME NEW t, IsList(t), NEW a, NEW b, NEW c, NEW d, NEW e
    PROVE  <<a, b, c, d, e>> \o t = Do(a, Do(b, Do(c, Do(d, Do(e, t)))))
<1> DEFINE o == <<b, c, d, e>>
<1>1. o \in Seq({a, b, c, d, e}) /\ <<a, b, c, d, e>> = Do(a, o)
  BY DEF Do
<1>2. o \o t = Do(b, Do(c, Do(d, Do(e, t))))
  BY InFront4
<1> HIDE DEF o
<1>3. Do(a, o) \o t = Do(a, o \o t)
  BY <1>1, DoMore
<1> QED BY <1>1, <1>2, <1>3

LEMMA InFront6 ==
    ASSUME NEW t, IsList(t), NEW a, NEW b, NEW c, NEW d, NEW e, NEW f
    PROVE  <<a, b, c, d, e, f>> \o t = Do(a, Do(b, Do(c, Do(d, Do(e, Do(f, t))))))
<1> DEFINE o == <<b, c, d, e, f>>
<1>1. o \in Seq({a, b, c, d, e, f}) /\ <<a, b, c, d, e, f>> = Do(a, o)
  BY DEF Do
<1>2. o \o t = Do(b, Do(c, Do(d, Do(e, Do(f, t)))))
  BY InFront5
<1> HIDE DEF o
<1>3. Do(a, o) \o t = Do(a, o \o t)
  BY <1>1, DoMore
<1> QED BY <1>1, <1>2, <1>3

LEMMA InFront7 ==
    ASSUME NEW t, IsList(t), NEW a, NEW b, NEW c, NEW d, NEW e, NEW f, NEW g
    PROVE  <<a, b, c, d, e, f, g>> \o t = Do(a, Do(b, Do(c, Do(d, Do(e, Do(f, Do(g, t)))))))
<1> DEFINE o == <<b, c, d, e, f, g>>
<1>1. o \in Seq({a, b, c, d, e, f, g}) /\ <<a, b, c, d, e, f, g>> = Do(a, o)
  BY DEF Do
<1>2. o \o t = Do(b, Do(c, Do(d, Do(e, Do(f, Do(g, t))))))
  BY InFront6
<1> HIDE DEF o
<1>3. Do(a, o) \o t = Do(a, o \o t)
  BY <1>1, DoMore
<1> QED BY <1>1, <1>2, <1>3

\* The operation x is next and t is left after it.
LEMMA Turn ==
    ASSUME NEW x, NEW t, IsList(t), todo = Do(x, t)
    PROVE  /\ todo # <<>> /\ Tail(todo) = t /\ Arg = x[2]
           /\ \A name : At(name) <=> x[1] = name
BY DoFacts DEF Left, Arg, At

\* The command goes on: which action it was that went a step further.
LEMMA KeystoneActs ==
    ASSUME Next, command' # <<>>,
           NEW name \in {"keystone", "source", "download", "downloaded", "untar", "untarred",
                         "policy", "rewrite", "build", "copy", "copied"}, At(name)
    PROVE  /\ UNCHANGED <<closures, bridges>>
           /\ name = "keystone" => Bootstrap
           /\ name = "source" => FindSource
           /\ name = "download" => Download
           /\ name = "downloaded" => Downloaded
           /\ name = "untar" => Untar
           /\ name = "untarred" => Untarred
           /\ name = "policy" => EditPolicy
           /\ name = "rewrite" => RewritePolicy
           /\ name = "build" => BuildKeystone
           /\ name = "copy" => CopyLibrary
           /\ name = "copied" => LibraryCopied
<1>1. ~ Start /\ ~ Repin /\ ~ Interrupt /\ ~ BadDelivery /\ ~ BadLink
  BY DEF At, Start, Repin, Idle, Interrupt, BadDelivery, BadLink
<1>2. ~ ClosureStep
  BY DEF At, ClosureStep, BuildLibass, Libraries, BuildFfmpeg, BuildFfmpegCore, Reset, Removed,
     Extract, Fetch, Move, Hash, Unpack, Release, Clear, Compile, VerifyClosure, ReportClosure
<1>3. ~ BridgeStep
  BY DEF At, BridgeStep, NextBridge, NextCheck, LoadClosure, CompileDylib, LinkDylib, VerifyDylib
<1>4. KeystoneStep /\ UNCHANGED <<closures, bridges>>
  BY <1>1, <1>2, <1>3 DEF Next, Step
<1> QED
  BY <1>4 DEF At, KeystoneStep, Bootstrap, FindSource, Download, Downloaded, Untar, Untarred,
     EditPolicy, RewritePolicy, BuildKeystone, CopyLibrary, LibraryCopied

LEMMA ClosureActs ==
    ASSUME Next, command' # <<>>,
           NEW name \in {"deps", "libraries", "ffmpeg", "ffmpeg-core", "reset", "removed", "extract",
                         "fetch", "move", "hash", "unpack", "release", "clear", "compile", "verify",
                         "report"}, At(name)
    PROVE  /\ UNCHANGED <<keystone, bridges>>
           /\ name = "deps" => BuildLibass
           /\ name = "libraries" => Libraries
           /\ name = "ffmpeg" => BuildFfmpeg
           /\ name = "ffmpeg-core" => BuildFfmpegCore
           /\ name = "reset" => Reset
           /\ name = "removed" => Removed
           /\ name = "extract" => Extract
           /\ name = "fetch" => Fetch
           /\ name = "move" => Move \/ BadDelivery
           /\ name = "hash" => Hash
           /\ name = "unpack" => Unpack
           /\ name = "release" => Release
           /\ name = "clear" => Clear
           /\ name = "compile" => Compile
           /\ name = "verify" => VerifyClosure
           /\ name = "report" => ReportClosure
<1>1. ~ Start /\ ~ Repin /\ ~ Interrupt /\ ~ BadLink
  BY DEF At, Start, Repin, Idle, Interrupt, BadLink
<1>2. ~ KeystoneStep
  BY DEF At, KeystoneStep, Bootstrap, FindSource, Download, Downloaded, Untar, Untarred,
     EditPolicy, RewritePolicy, BuildKeystone, CopyLibrary, LibraryCopied
<1>3. ~ BridgeStep
  BY DEF At, BridgeStep, NextBridge, NextCheck, LoadClosure, CompileDylib, LinkDylib, VerifyDylib
<1>4. (ClosureStep \/ BadDelivery) /\ UNCHANGED <<keystone, bridges>>
  BY <1>1, <1>2, <1>3 DEF Next, Step
<1>5. BadDelivery => name = "move"
  BY DEF At, BadDelivery
<1> QED
  BY <1>4, <1>5 DEF At, ClosureStep, BuildLibass, Libraries, BuildFfmpeg, BuildFfmpegCore, Reset,
     Removed, Extract, Fetch, Move, Hash, Unpack, Release, Clear, Compile, VerifyClosure,
     ReportClosure

LEMMA BridgeActs ==
    ASSUME Next, command' # <<>>,
           NEW name \in {"bridges", "load", "unlink", "link", "check"}, At(name)
    PROVE  /\ UNCHANGED <<keystone, closures>>
           /\ name = "bridges" => NextBridge
           /\ name = "load" => LoadClosure
           /\ name = "unlink" => CompileDylib
           /\ name = "link" => LinkDylib \/ BadLink
           /\ name = "check" => VerifyDylib
<1>1. ~ Start /\ ~ Repin /\ ~ Interrupt /\ ~ BadDelivery
  BY DEF At, Start, Repin, Idle, Interrupt, BadDelivery
<1>2. ~ KeystoneStep
  BY DEF At, KeystoneStep, Bootstrap, FindSource, Download, Downloaded, Untar, Untarred,
     EditPolicy, RewritePolicy, BuildKeystone, CopyLibrary, LibraryCopied
<1>3. ~ ClosureStep
  BY DEF At, ClosureStep, BuildLibass, Libraries, BuildFfmpeg, BuildFfmpegCore, Reset, Removed,
     Extract, Fetch, Move, Hash, Unpack, Release, Clear, Compile, VerifyClosure, ReportClosure
<1>4. (BridgeStep \/ BadLink) /\ UNCHANGED <<keystone, closures>>
  BY <1>1, <1>2, <1>3 DEF Next, Step
<1>5. BadLink => name = "link"
  BY DEF At, BadLink
<1> QED
  BY <1>4, <1>5 DEF At, BridgeStep, NextBridge, NextCheck, LoadClosure, CompileDylib, LinkDylib,
     VerifyDylib

LEMMA GoesOn == ASSUME command' # <<>> PROVE ~ Stop
BY DEF Stop

\* Every place is a list.
LEMMA Places ==
    /\ IsList(AfterBridges)
    /\ Left(AfterCore) /\ Left(AfterFfmpeg) /\ Left(AfterLibass) /\ Left(AfterKeystone)
    /\ Left(CopyPlace) /\ Left(BuildPlace) /\ Left(Policy2) /\ Left(Policy1) /\ Left(UntarPlace)
    /\ Left(RemovedPlace) /\ Left(CompileFfmpeg) /\ Left(ClearFfmpeg) /\ Left(CompileCore)
    /\ Left(CompileDav1d) /\ Left(ClearCore) /\ Left(ReleasePlace)
    /\ \A n : /\ Left(BridgesFrom(n)) /\ Left(LibrariesFrom(n)) /\ Left(CompileNth(n))
              /\ Left(CheckPlace(n)) /\ Left(LinkPlace(n)) /\ Left(UnlinkPlace(n)) /\ Left(LoadPlace(n))
    /\ \A c, t : Left(t) => Left(ReportPlace(c, t)) /\ Left(VerifyPlace(c, t))
<1>1. \A x, t : IsList(t) => Left(Do(x, t))
  BY DoFacts
<1>2. \A t : Left(t) => IsList(t)
  BY DEF Left
<1>3. IsList(AfterBridges)
  BY DEF IsList, AfterBridges
<1>4. \A n : Left(BridgesFrom(n))
  BY <1>1, <1>3 DEF BridgesFrom
<1>5. Left(AfterCore) /\ Left(AfterFfmpeg) /\ Left(AfterLibass) /\ Left(AfterKeystone)
  BY <1>1, <1>2, <1>4 DEF AfterCore, AfterFfmpeg, AfterLibass, AfterKeystone
<1>6. /\ Left(CopyPlace) /\ Left(BuildPlace) /\ Left(Policy2) /\ Left(Policy1) /\ Left(UntarPlace)
  BY <1>1, <1>2, <1>5 DEF CopyPlace, BuildPlace, Policy2, Policy1, UntarPlace
<1>7. \A c, t : Left(t) => Left(ReportPlace(c, t)) /\ Left(VerifyPlace(c, t))
  BY <1>1, <1>2 DEF ReportPlace, VerifyPlace
<1>8. \A n : Left(LibrariesFrom(n)) /\ Left(CompileNth(n))
  BY <1>1, <1>2, <1>5 DEF LibrariesFrom, CompileNth
<1>9. Left(RemovedPlace)
  BY <1>1, <1>2, <1>8 DEF RemovedPlace
<1>10. Left(CompileFfmpeg) /\ Left(ClearFfmpeg)
  BY <1>1, <1>2, <1>5, <1>7 DEF CompileFfmpeg, ClearFfmpeg
<1>11. Left(CompileCore) /\ Left(CompileDav1d) /\ Left(ClearCore) /\ Left(ReleasePlace)
  BY <1>1, <1>2, <1>5, <1>7 DEF CompileCore, CompileDav1d, ClearCore, ReleasePlace
<1>12. \A n : Left(CheckPlace(n)) /\ Left(LinkPlace(n)) /\ Left(UnlinkPlace(n)) /\ Left(LoadPlace(n))
  BY <1>1, <1>2, <1>4 DEF CheckPlace, LinkPlace, UnlinkPlace, LoadPlace
<1> QED BY <1>3, <1>4, <1>5, <1>6, <1>7, <1>8, <1>9, <1>10, <1>11, <1>12

\* What the programs put in front, as places.
LEMMA KeystoneFront ==
    /\ MakeAll = Do(<<"keystone", "reuse">>, AfterKeystone)
    /\ <<<<"source", 0>>, <<"policy", 1>>, <<"policy", 2>>, <<"build", 0>>, <<"copy", 0>>>> \o AfterKeystone
           = Do(<<"source", 0>>, Policy1)
    /\ <<<<"download", 0>>, <<"untar", 0>>>> \o Policy1 = Do(<<"download", 0>>, UntarPlace)
<1>1. MakeAll = Do(<<"keystone", "reuse">>, AfterKeystone)
  <2> DEFINE k == <<"keystone", "reuse">>
             l == <<"deps", 0>>
             f == <<"ffmpeg", 0>>
             c == <<"ffmpeg-core", 0>>
             b == <<"bridges", 1>>
             n == <<>>
  <2>1. MakeAll = <<k, l, f, c, b>>
    BY DEF MakeAll
  <2>2. AfterKeystone = Do(l, Do(f, Do(c, Do(b, n))))
    BY DEF AfterKeystone, AfterLibass, AfterFfmpeg, AfterCore, BridgesFrom, AfterBridges
  <2>3. IsList(n)
    BY Places DEF AfterBridges
  <2> HIDE DEF k, l, f, c, b
  <2>4. <<k, l, f, c, b>> \o n = <<k, l, f, c, b>>
    OBVIOUS
  <2> HIDE DEF n
  <2>5. <<k, l, f, c, b>> \o n = Do(k, Do(l, Do(f, Do(c, Do(b, n)))))
    BY <2>3, InFront5
  <2> QED BY <2>1, <2>2, <2>4, <2>5 DEF k
<1>2. <<<<"source", 0>>, <<"policy", 1>>, <<"policy", 2>>, <<"build", 0>>, <<"copy", 0>>>> \o AfterKeystone
          = Do(<<"source", 0>>, Policy1)
  <2> DEFINE s == <<"source", 0>>
             p == <<"policy", 1>>
             q == <<"policy", 2>>
             b == <<"build", 0>>
             c == <<"copy", 0>>
  <2>1. Policy1 = Do(p, Do(q, Do(b, Do(c, AfterKeystone))))
    BY DEF Policy1, Policy2, BuildPlace, CopyPlace
  <2> HIDE DEF s, p, q, b, c
  <2>0. IsList(AfterKeystone)
    BY Places DEF Left
  <2>2. <<s, p, q, b, c>> \o AfterKeystone = Do(s, Policy1)
    BY <2>0, <2>1, InFront5
  <2> QED BY <2>2 DEF s, p, q, b, c
<1>3. <<<<"download", 0>>, <<"untar", 0>>>> \o Policy1 = Do(<<"download", 0>>, UntarPlace)
  <2> DEFINE d == <<"download", 0>>
             u == <<"untar", 0>>
  <2>1. UntarPlace = Do(u, Policy1)
    BY DEF UntarPlace
  <2> HIDE DEF d, u
  <2>0. IsList(Policy1)
    BY Places DEF Left
  <2>2. <<d, u>> \o Policy1 = Do(d, UntarPlace)
    BY <2>0, <2>1, InFront2
  <2> QED BY <2>2 DEF d, u
<1> QED BY <1>1, <1>2, <1>3

LEMMA ClosureFront ==
    /\ <<<<"reset", 0>>, <<"removed", 0>>, <<"libraries", 1>>>> \o AfterLibass = Do(<<"reset", 0>>, RemovedPlace)
    /\ \A n : <<<<"extract", BuildOrder[n]>>, <<"compile", BuildOrder[n]>>, <<"libraries", n + 1>>>> \o AfterLibass
                  = Do(<<"extract", BuildOrder[n]>>, CompileNth(n))
    /\ <<<<"extract", Ffmpeg>>, <<"clear", "ffmpeg">>, <<"compile", Ffmpeg>>, <<"verify", "ffmpeg">>>> \o AfterFfmpeg
           = Do(<<"extract", Ffmpeg>>, ClearFfmpeg)
    /\ <<<<"extract", FfmpegCore>>, <<"release", FfmpegCore>>, <<"clear", "ffmpeg-core">>,
         <<"extract", Dav1d>>, <<"compile", Dav1d>>, <<"compile", FfmpegCore>>,
         <<"verify", "ffmpeg-core">>>> \o AfterCore
           = Do(<<"extract", FfmpegCore>>, ReleasePlace)
    /\ \A s, t : IsList(t) => <<<<"fetch", s>>, <<"unpack", s>>>> \o t = Do(<<"fetch", s>>, Do(<<"unpack", s>>, t))
<1>1. <<<<"reset", 0>>, <<"removed", 0>>, <<"libraries", 1>>>> \o AfterLibass = Do(<<"reset", 0>>, RemovedPlace)
  <2> DEFINE r == <<"reset", 0>>
             d == <<"removed", 0>>
             l == <<"libraries", 1>>
  <2>1. RemovedPlace = Do(d, Do(l, AfterLibass))
    BY DEF RemovedPlace, LibrariesFrom
  <2> HIDE DEF r, d, l
  <2>0. IsList(AfterLibass)
    BY Places DEF Left
  <2>2. <<r, d, l>> \o AfterLibass = Do(r, RemovedPlace)
    BY <2>0, <2>1, InFront3
  <2> QED BY <2>2 DEF r, d, l
<1>2. ASSUME NEW n
      PROVE  <<<<"extract", BuildOrder[n]>>, <<"compile", BuildOrder[n]>>, <<"libraries", n + 1>>>> \o AfterLibass
                 = Do(<<"extract", BuildOrder[n]>>, CompileNth(n))
  <2> DEFINE e == <<"extract", BuildOrder[n]>>
             c == <<"compile", BuildOrder[n]>>
             l == <<"libraries", n + 1>>
  <2>1. CompileNth(n) = Do(c, Do(l, AfterLibass))
    BY DEF CompileNth, LibrariesFrom
  <2> HIDE DEF e, c, l
  <2>0. IsList(AfterLibass)
    BY Places DEF Left
  <2>2. <<e, c, l>> \o AfterLibass = Do(e, CompileNth(n))
    BY <2>0, <2>1, InFront3
  <2> QED BY <2>2 DEF e, c, l
<1>3. <<<<"extract", Ffmpeg>>, <<"clear", "ffmpeg">>, <<"compile", Ffmpeg>>, <<"verify", "ffmpeg">>>> \o AfterFfmpeg
          = Do(<<"extract", Ffmpeg>>, ClearFfmpeg)
  <2> DEFINE e == <<"extract", Ffmpeg>>
             l == <<"clear", "ffmpeg">>
             c == <<"compile", Ffmpeg>>
             v == <<"verify", "ffmpeg">>
  <2>1. ClearFfmpeg = Do(l, Do(c, Do(v, AfterFfmpeg)))
    BY DEF ClearFfmpeg, CompileFfmpeg, VerifyPlace
  <2> HIDE DEF e, l, c, v
  <2>0. IsList(AfterFfmpeg)
    BY Places DEF Left
  <2>2. <<e, l, c, v>> \o AfterFfmpeg = Do(e, ClearFfmpeg)
    BY <2>0, <2>1, InFront4
  <2> QED BY <2>2 DEF e, l, c, v
<1>4. <<<<"extract", FfmpegCore>>, <<"release", FfmpegCore>>, <<"clear", "ffmpeg-core">>,
        <<"extract", Dav1d>>, <<"compile", Dav1d>>, <<"compile", FfmpegCore>>,
        <<"verify", "ffmpeg-core">>>> \o AfterCore
          = Do(<<"extract", FfmpegCore>>, ReleasePlace)
  <2> DEFINE e == <<"extract", FfmpegCore>>
             r == <<"release", FfmpegCore>>
             l == <<"clear", "ffmpeg-core">>
             f == <<"extract", Dav1d>>
             d == <<"compile", Dav1d>>
             c == <<"compile", FfmpegCore>>
             v == <<"verify", "ffmpeg-core">>
  <2>1. ReleasePlace = Do(r, Do(l, Do(f, Do(d, Do(c, Do(v, AfterCore))))))
    BY DEF ReleasePlace, ClearCore, CompileDav1d, CompileCore, VerifyPlace
  <2> HIDE DEF e, r, l, f, d, c, v
  <2>0. IsList(AfterCore)
    BY Places DEF Left
  <2>2. <<e, r, l, f, d, c, v>> \o AfterCore = Do(e, ReleasePlace)
    BY <2>0, <2>1, InFront7
  <2> QED BY <2>2 DEF e, r, l, f, d, c, v
<1>5. ASSUME NEW s, NEW t, IsList(t)
      PROVE  <<<<"fetch", s>>, <<"unpack", s>>>> \o t = Do(<<"fetch", s>>, Do(<<"unpack", s>>, t))
  <2> DEFINE f == <<"fetch", s>>
             u == <<"unpack", s>>
  <2> HIDE DEF f, u
  <2>1. <<f, u>> \o t = Do(f, Do(u, t))
    BY <1>5, InFront2
  <2> QED BY <2>1 DEF f, u
<1> QED BY <1>1, <1>2, <1>3, <1>4, <1>5

LEMMA BridgeFront ==
    ASSUME NEW n
    PROVE  <<<<"load", BridgeOrder[n]>>, <<"unlink", BridgeOrder[n]>>, <<"link", BridgeOrder[n]>>,
             <<"check", BridgeOrder[n]>>, <<"bridges", n + 1>>>> \o AfterBridges = LoadPlace(n)
<1> DEFINE d == <<"load", BridgeOrder[n]>>
           u == <<"unlink", BridgeOrder[n]>>
           l == <<"link", BridgeOrder[n]>>
           c == <<"check", BridgeOrder[n]>>
           b == <<"bridges", n + 1>>
<1>1. LoadPlace(n) = Do(d, Do(u, Do(l, Do(c, Do(b, AfterBridges)))))
  BY DEF LoadPlace, UnlinkPlace, LinkPlace, CheckPlace, BridgesFrom
<1> HIDE DEF d, u, l, c, b
<1>3. IsList(AfterBridges)
  BY Places
<1>2. <<d, u, l, c, b>> \o AfterBridges = LoadPlace(n)
  BY <1>1, <1>3, InFront5
<1> QED BY <1>2 DEF d, u, l, c, b

\* From place to place: what is left after each, and what it has done.
LEMMA KeystoneMoves ==
    ASSUME Next, command' # <<>>
    PROVE  /\ todo = MakeAll =>
                 /\ todo' = IF library # "none" THEN AfterKeystone ELSE Do(<<"source", 0>>, Policy1)
                 /\ UNCHANGED keystone
           /\ todo = Do(<<"source", 0>>, Policy1) =>
                 /\ todo' = IF source # "none" THEN Policy1
                            ELSE IF archive # "none" THEN UntarPlace
                            ELSE Do(<<"download", 0>>, UntarPlace)
                 /\ UNCHANGED keystone
           /\ todo = Do(<<"download", 0>>, UntarPlace) =>
                 todo' = Do(<<"downloaded", 0>>, UntarPlace) /\ UNCHANGED <<source, policy, library>>
           /\ todo = Do(<<"downloaded", 0>>, UntarPlace) =>
                 todo' = UntarPlace /\ archive' = "whole" /\ UNCHANGED <<source, policy, library>>
           /\ todo = UntarPlace =>
                 todo' = Do(<<"untarred", 0>>, Policy1) /\ UNCHANGED <<archive, policy, library>>
           /\ todo = Do(<<"untarred", 0>>, Policy1) =>
                 todo' = Policy1 /\ source' = "whole" /\ UNCHANGED <<archive, policy, library>>
           /\ todo = BuildPlace => todo' = CopyPlace
           /\ todo = CopyPlace => todo' = Do(<<"copied", 0>>, AfterKeystone) /\ library' # "none"
           /\ todo = Do(<<"copied", 0>>, AfterKeystone) => todo' = AfterKeystone /\ library' # "none"
<1>1. ASSUME todo = MakeAll
      PROVE  /\ todo' = IF library # "none" THEN AfterKeystone ELSE Do(<<"source", 0>>, Policy1)
             /\ UNCHANGED keystone
  <2>1. At("keystone") /\ Tail(todo) = AfterKeystone /\ Arg = "reuse"
    BY <1>1, KeystoneFront, Turn, Places DEF Left
  <2>2. Bootstrap
    BY <2>1, KeystoneActs
  <2>3. CASE library # "none"
    BY <2>1, <2>2, <2>3, InFront1, Places DEF Bootstrap, Then, Left
  <2>4. CASE library = "none"
    BY <2>1, <2>2, <2>4, KeystoneFront DEF Bootstrap, Then
  <2> QED BY <2>3, <2>4
<1>2. ASSUME todo = Do(<<"source", 0>>, Policy1)
      PROVE  /\ todo' = IF source # "none" THEN Policy1
                        ELSE IF archive # "none" THEN UntarPlace
                        ELSE Do(<<"download", 0>>, UntarPlace)
             /\ UNCHANGED keystone
  <2>1. At("source") /\ Tail(todo) = Policy1
    BY <1>2, Turn, Places DEF Left
  <2>2. FindSource
    BY <2>1, KeystoneActs
  <2>3. CASE source # "none"
    BY <2>1, <2>2, <2>3, InFront1, Places DEF FindSource, Then, Left
  <2>4. CASE source = "none" /\ archive # "none"
    BY <2>1, <2>2, <2>4 DEF FindSource, Then, UntarPlace, Do
  <2>5. CASE source = "none" /\ archive = "none"
    BY <2>1, <2>2, <2>5, KeystoneFront DEF FindSource, Then
  <2> QED BY <2>3, <2>4, <2>5
<1>3. ASSUME todo = Do(<<"download", 0>>, UntarPlace)
      PROVE  todo' = Do(<<"downloaded", 0>>, UntarPlace) /\ UNCHANGED <<source, policy, library>>
  <2>1. At("download") /\ Tail(todo) = UntarPlace
    BY <1>3, Turn, Places DEF Left
  <2>2. Download
    BY <2>1, KeystoneActs
  <2> QED BY <2>1, <2>2 DEF Download, Then, Do
<1>4. ASSUME todo = Do(<<"downloaded", 0>>, UntarPlace)
      PROVE  todo' = UntarPlace /\ archive' = "whole" /\ UNCHANGED <<source, policy, library>>
  <2>1. At("downloaded") /\ Tail(todo) = UntarPlace
    BY <1>4, Turn, Places DEF Left
  <2>2. Downloaded
    BY <2>1, KeystoneActs
  <2> QED BY <2>1, <2>2, InFront1, Places DEF Downloaded, Then, Left
<1>5. ASSUME todo = UntarPlace
      PROVE  todo' = Do(<<"untarred", 0>>, Policy1) /\ UNCHANGED <<archive, policy, library>>
  <2>1. At("untar") /\ Tail(todo) = Policy1
    BY <1>5, Turn, Places DEF Left, UntarPlace
  <2>2. Untar
    BY <2>1, KeystoneActs
  <2> QED BY <2>1, <2>2, GoesOn DEF Untar, Then, Do
<1>6. ASSUME todo = Do(<<"untarred", 0>>, Policy1)
      PROVE  todo' = Policy1 /\ source' = "whole" /\ UNCHANGED <<archive, policy, library>>
  <2>1. At("untarred") /\ Tail(todo) = Policy1
    BY <1>6, Turn, Places DEF Left
  <2>2. Untarred
    BY <2>1, KeystoneActs
  <2> QED BY <2>1, <2>2, InFront1, Places DEF Untarred, Then, Left
<1>7. ASSUME todo = BuildPlace PROVE todo' = CopyPlace
  <2>1. At("build") /\ Tail(todo) = CopyPlace
    BY <1>7, Turn, Places DEF Left, BuildPlace
  <2>2. BuildKeystone
    BY <2>1, KeystoneActs
  <2> QED BY <2>1, <2>2, GoesOn, InFront1, Places DEF BuildKeystone, Then, Left
<1>8. ASSUME todo = CopyPlace PROVE todo' = Do(<<"copied", 0>>, AfterKeystone) /\ library' # "none"
  <2>1. At("copy") /\ Tail(todo) = AfterKeystone
    BY <1>8, Turn, Places DEF Left, CopyPlace
  <2>2. CopyLibrary
    BY <2>1, KeystoneActs
  <2> QED BY <2>1, <2>2 DEF CopyLibrary, Then, Do
<1>9. ASSUME todo = Do(<<"copied", 0>>, AfterKeystone) PROVE todo' = AfterKeystone /\ library' # "none"
  <2>1. At("copied") /\ Tail(todo) = AfterKeystone
    BY <1>9, Turn, Places DEF Left
  <2>2. LibraryCopied
    BY <2>1, KeystoneActs
  <2> QED BY <2>1, <2>2, InFront1, Places DEF LibraryCopied, Then, Left
<1> QED BY <1>1, <1>2, <1>3, <1>4, <1>5, <1>6, <1>7, <1>8, <1>9

\* The same for an edit of the file f, before t.
LEMMA PolicyMoves ==
    ASSUME Next, command' # <<>>, NEW f \in PolicyFiles, NEW t, IsList(t)
    PROVE  /\ todo = Do(<<"policy", f>>, t) =>
                 /\ \/ todo' = t /\ UNCHANGED policy
                    \/ todo' = Do(<<"rewrite", f>>, t) /\ policy' = [policy EXCEPT ![f] = "torn"]
                 /\ UNCHANGED <<archive, source, library>>
           /\ todo = Do(<<"rewrite", f>>, t) =>
                 /\ todo' = t /\ policy' = [policy EXCEPT ![f] = "new"]
                 /\ UNCHANGED <<archive, source, library>>
<1>1. ASSUME todo = Do(<<"policy", f>>, t)
      PROVE  /\ \/ todo' = t /\ UNCHANGED policy
                \/ todo' = Do(<<"rewrite", f>>, t) /\ policy' = [policy EXCEPT ![f] = "torn"]
             /\ UNCHANGED <<archive, source, library>>
  <2> DEFINE x == <<"policy", f>>
  <2>0. todo = Do(x, t) /\ x[1] = "policy" /\ x[2] = f
    BY <1>1
  <2> HIDE DEF x
  <2>1. At("policy") /\ Tail(todo) = t /\ Arg = f
    BY <2>0, Turn
  <2>2. EditPolicy
    BY <2>1, KeystoneActs
  <2> QED BY <1>1, <2>1, <2>2, GoesOn, InFront1 DEF EditPolicy, Then, Do
<1>2. ASSUME todo = Do(<<"rewrite", f>>, t)
      PROVE  /\ todo' = t /\ policy' = [policy EXCEPT ![f] = "new"]
             /\ UNCHANGED <<archive, source, library>>
  <2> DEFINE x == <<"rewrite", f>>
  <2>0. todo = Do(x, t) /\ x[1] = "rewrite" /\ x[2] = f
    BY <1>2
  <2> HIDE DEF x
  <2>1. At("rewrite") /\ Tail(todo) = t /\ Arg = f
    BY <2>0, Turn
  <2>2. RewritePolicy
    BY <2>1, KeystoneActs
  <2> QED BY <1>2, <2>1, <2>2, InFront1 DEF RewritePolicy, Then
<1> QED BY <1>1, <1>2

LEMMA KeystoneStageStep ==
    ASSUME Next, command' # <<>>, KeystoneStage
    PROVE  KeystoneStage' \/ (todo' = AfterKeystone /\ Bootstrapped')
<1>1. CASE todo \in {MakeAll, Do(<<"source", 0>>, Policy1), Do(<<"download", 0>>, UntarPlace),
                     Do(<<"downloaded", 0>>, UntarPlace), UntarPlace, Do(<<"untarred", 0>>, Policy1)}
  BY <1>1, KeystoneMoves DEF KeystoneStage, keystone, Bootstrapped
<1>2. 1 \in PolicyFiles /\ 2 \in PolicyFiles /\ IsList(Policy2) /\ IsList(BuildPlace)
  BY Places DEF PolicyFiles, Left
<1>3. CASE todo \in {Policy1, Do(<<"rewrite", 1>>, Policy2)}
  <2>1. todo' = Policy2 \/ todo' = Do(<<"rewrite", 1>>, Policy2)
    BY <1>2, <1>3, PolicyMoves DEF Policy1
  <2> QED BY <2>1 DEF KeystoneStage
<1>4. CASE todo \in {Policy2, Do(<<"rewrite", 2>>, BuildPlace)}
  <2>1. todo' = BuildPlace \/ todo' = Do(<<"rewrite", 2>>, BuildPlace)
    BY <1>2, <1>4, PolicyMoves DEF Policy2
  <2> QED BY <2>1 DEF KeystoneStage
<1>5. CASE todo \in {BuildPlace, CopyPlace, Do(<<"copied", 0>>, AfterKeystone)}
  BY <1>5, KeystoneMoves DEF KeystoneStage, Bootstrapped
<1> QED BY <1>1, <1>3, <1>4, <1>5 DEF KeystoneStage

\* Looking for a tree: it stays as it is until it is there, and then it is the
\* pinned one.
LEMMA ExtractingStep ==
    ASSUME BuildInv, TreesPinned, Next, command' # <<>>,
           NEW s \in Sources, NEW t, Left(t), Extracting(s, t)
    PROVE  /\ Extracting(s, t)' \/ (todo' = t /\ tree'[s] = pin'[s])
           /\ UNCHANGED <<pin, libs, closure, report>> /\ UNCHANGED <<keystone, bridges>>
           /\ TreesPinned'
           /\ \A r \in Sources : r # s => tree'[r] = tree[r]
<1> DEFINE u == Do(<<"unpack", s>>, t)
<1>1. IsList(t) /\ IsList(u) /\ tree \in [Sources -> Stock]
  BY DoFacts DEF Left, BuildInv, TypeOK, ClosuresOK
<1>2. ASSUME UNCHANGED closures, UNCHANGED <<keystone, bridges>>
      PROVE  /\ UNCHANGED <<pin, libs, closure, report, tree>> /\ UNCHANGED <<keystone, bridges>>
             /\ TreesPinned'
  BY <1>2 DEF closures, TreesPinned
<1>3. CASE todo = Do(<<"extract", s>>, t)
  <2>1. At("extract") /\ Tail(todo) = t /\ Arg = s
    BY <1>1, <1>3, Turn
  <2>2. Extract /\ UNCHANGED <<keystone, bridges>>
    BY <2>1, ClosureActs
  <2>3. CASE tree[s] # 0
    <3>1. todo' = t
      BY <1>1, <2>1, <2>2, <2>3, InFront1 DEF Extract, Then
    <3>2. tree[s] = pin[s]
      BY <2>3 DEF TreesPinned
    <3> QED BY <1>2, <2>2, <3>1, <3>2 DEF Extract
  <2>4. CASE tree[s] = 0
    <3>1. todo' = <<<<"fetch", s>>, <<"unpack", s>>>> \o t
      BY <2>1, <2>2, <2>4 DEF Extract, Then
    <3>2. todo' = Do(<<"fetch", s>>, u)
      BY <1>1, <3>1, ClosureFront
    <3> QED BY <1>2, <2>2, <3>2 DEF Extract, Extracting
  <2> QED BY <2>3, <2>4
<1>4. CASE todo = Do(<<"fetch", s>>, u)
  <2>1. At("fetch") /\ Tail(todo) = u /\ Arg = s
    BY <1>1, <1>4, Turn
  <2>2. Fetch /\ UNCHANGED <<keystone, bridges>>
    BY <2>1, ClosureActs
  <2>3. todo' = u \/ todo' = Do(<<"move", s>>, u)
    BY <1>1, <2>1, <2>2, GoesOn, InFront1 DEF Fetch, Then, Do
  <2> QED BY <1>2, <2>2, <2>3 DEF Fetch, Extracting
<1>5. CASE todo = Do(<<"move", s>>, u)
  <2>1. At("move") /\ Tail(todo) = u /\ Arg = s
    BY <1>1, <1>5, Turn
  <2>2. (Move \/ BadDelivery) /\ UNCHANGED <<keystone, bridges>>
    BY <2>1, ClosureActs
  <2>3. todo' = Do(<<"hash", s>>, u)
    BY <2>1, <2>2 DEF Move, BadDelivery, Then, Do
  <2> QED BY <2>2, <2>3 DEF Move, BadDelivery, Extracting, TreesPinned
<1>6. CASE todo = Do(<<"hash", s>>, u)
  <2>1. At("hash") /\ Tail(todo) = u
    BY <1>1, <1>6, Turn
  <2>2. Hash /\ UNCHANGED <<keystone, bridges>>
    BY <2>1, ClosureActs
  <2>3. todo' = u
    BY <1>1, <2>1, <2>2, GoesOn, InFront1 DEF Hash, Then
  <2> QED BY <2>2, <2>3 DEF Hash, Extracting, TreesPinned
<1>7. CASE todo = u
  <2>1. At("unpack") /\ Tail(todo) = t /\ Arg = s
    BY <1>1, <1>7, Turn
  <2>2. Unpack /\ UNCHANGED <<keystone, bridges>>
    BY <2>1, ClosureActs
  <2>3. cached[ArchiveName(s)] = pin[s]
    <3>1. todo # <<>> /\ Head(todo) = <<"unpack", s>>
      BY <1>1, <1>7, DoFacts DEF Left
    <3> QED BY <3>1 DEF BuildInv, AgendaInv, Ready
  <2>4. todo' = t
    BY <1>1, <2>1, <2>2, InFront1 DEF Unpack, Then
  <2>5. tree' = [tree EXCEPT ![s] = pin[s]] /\ UNCHANGED <<pin, torn, libs, closure, report>>
    BY <2>1, <2>2, <2>3 DEF Unpack
  <2> QED BY <1>1, <2>2, <2>4, <2>5 DEF TreesPinned
<1> QED BY <1>3, <1>4, <1>5, <1>6, <1>7 DEF Extracting

\* A closure that has been made stays as it is.
LEMMA MadeKept ==
    ASSUME NEW c, ClosureMade(c), UNCHANGED pin, report'[c] = report[c], closure \subseteq closure',
           \A s \in SourcesOf(c) : libs'[s] = libs[s]
    PROVE  ClosureMade(c)'
BY DEF ClosureMade, LibsPinned, Pins

LEMMA CompileStep ==
    ASSUME BuildInv, Next, command' # <<>>,
           NEW s \in Sources, NEW t, IsList(t), todo = Do(<<"compile", s>>, t)
    PROVE  /\ todo' = t /\ libs' = [libs EXCEPT ![s] = tree[s]]
           /\ UNCHANGED <<pin, tree, torn, report>> /\ UNCHANGED <<keystone, bridges>>
           /\ closure \subseteq closure'
<1>1. At("compile") /\ Tail(todo) = t /\ Arg = s
  BY Turn
<1>2. Compile /\ UNCHANGED <<keystone, bridges>>
  BY <1>1, ClosureActs
<1> QED BY <1>1, <1>2, GoesOn, InFront1 DEF Compile, Then

LEMMA VerifyStep ==
    ASSUME BuildInv, Next, command' # <<>>,
           NEW c \in Closures, NEW t, Left(t), todo = VerifyPlace(c, t)
    PROVE  /\ todo' = ReportPlace(c, t) /\ closure' = closure \cup {c}
           /\ UNCHANGED <<pin, tree, torn, libs, report>> /\ UNCHANGED <<keystone, bridges>>
<1>1. At("verify") /\ Tail(todo) = t /\ Arg = c
  BY Turn DEF VerifyPlace, Left
<1>2. VerifyClosure /\ UNCHANGED <<keystone, bridges>>
  BY <1>1, ClosureActs
<1> QED BY <1>1, <1>2, GoesOn DEF VerifyClosure, Then, ReportPlace, Do

LEMMA ReportStep ==
    ASSUME BuildInv, Next, command' # <<>>,
           NEW c \in Closures, NEW t, Left(t), todo = ReportPlace(c, t), c \in closure,
           LibsPinned(SourcesOf(c))
    PROVE  /\ todo' = t /\ ClosureMade(c)'
           /\ UNCHANGED <<pin, tree, torn, libs, closure>> /\ UNCHANGED <<keystone, bridges>>
           /\ \A d \in Closures \ {c} : report'[d] = report[d]
<1>1. At("report") /\ Tail(todo) = t /\ Arg = c
  BY Turn DEF ReportPlace, Left
<1>2. ReportClosure /\ UNCHANGED <<keystone, bridges>>
  BY <1>1, ClosureActs
<1>3. todo' = t /\ UNCHANGED <<pin, tree, torn, libs, closure>>
  BY <1>1, <1>2, InFront1 DEF ReportClosure, Then, Left
<1>4. report' = [report EXCEPT ![c] = [s \in SourcesOf(c) |-> IF c = "libass" THEN libs[s] ELSE pin[s]]]
  BY <1>1, <1>2 DEF ReportClosure
<1>5. report'[c] = [s \in SourcesOf(c) |-> pin[s]] /\ \A d \in Closures \ {c} : report'[d] = report[d]
  BY <1>4 DEF LibsPinned, BuildInv, TypeOK, ClosuresOK
<1>6. ClosureMade(c)'
  BY <1>3, <1>5 DEF ClosureMade, LibsPinned, Pins
<1> QED BY <1>2, <1>3, <1>5, <1>6

\* The libass closure, and all trees with it.
LEMMA LibassStageStep ==
    ASSUME BuildInv, Next, command' # <<>>, Bootstrapped, LibassStage
    PROVE  Bootstrapped' /\ (LibassStage' \/ (todo' = AfterLibass /\ LibassMade'))
<1>1. ASSUME UNCHANGED keystone PROVE Bootstrapped'
  BY <1>1 DEF Bootstrapped, keystone
<1>2. CASE todo = AfterKeystone
  <2>1. At("deps") /\ Tail(todo) = AfterLibass
    BY <1>2, Turn, Places DEF Left, AfterKeystone
  <2>2. BuildLibass /\ UNCHANGED <<keystone, bridges>>
    BY <2>1, ClosureActs
  <2>3. todo' = Do(<<"reset", 0>>, RemovedPlace)
    BY <2>1, <2>2, ClosureFront DEF BuildLibass, Then
  <2> QED BY <1>1, <2>2, <2>3 DEF LibassStage
<1>3. CASE todo = Do(<<"reset", 0>>, RemovedPlace)
  <2>1. At("reset") /\ Tail(todo) = RemovedPlace
    BY <1>3, Turn, Places DEF Left
  <2>2. Reset /\ UNCHANGED <<keystone, bridges>>
    BY <2>1, ClosureActs
  <2>3. todo' = RemovedPlace
    BY <2>1, <2>2, InFront1, Places DEF Reset, Then, Left
  <2> QED BY <1>1, <2>2, <2>3 DEF LibassStage
<1>4. CASE todo = RemovedPlace
  <2>1. At("removed") /\ Tail(todo) = LibrariesFrom(1)
    BY <1>4, Turn, Places DEF Left, RemovedPlace
  <2>2. Removed /\ UNCHANGED <<keystone, bridges>>
    BY <2>1, ClosureActs
  <2>3. todo' = LibrariesFrom(1)
    BY <2>1, <2>2, InFront1, Places DEF Removed, Then, Left
  <2>4. TreesPinned'
    BY <2>2 DEF Removed, TreesPinned
  <2>5. AtLibrary(1)'
    BY <2>3 DEF AtLibrary
  <2>6. 1 \in 1..(Len(BuildOrder) + 1)
    BY SourceFacts
  <2> QED BY <1>1, <2>2, <2>4, <2>5, <2>6 DEF LibassStage
<1>5. ASSUME TreesPinned, NEW n \in 1..(Len(BuildOrder) + 1), AtLibrary(n)
      PROVE  Bootstrapped' /\ LibassStage'
  <2> DEFINE s == BuildOrder[n]
             Before1 == \A i \in 1..(n - 1) : libs[BuildOrder[i]] = pin[BuildOrder[i]]
  <2>1. n \in Nat /\ Before1
    BY <1>5, SourceFacts DEF AtLibrary
  <2>2. n <= Len(BuildOrder) => s \in Sources
    BY SourceFacts
  <2>3. CASE todo = LibrariesFrom(n)
    <3>1. At("libraries") /\ Tail(todo) = AfterLibass /\ Arg = n
      BY <2>3, Turn, Places DEF Left, LibrariesFrom
    <3>2. Libraries /\ UNCHANGED <<keystone, bridges>>
      BY <3>1, ClosureActs
    <3>3. UNCHANGED <<pin, tree, libs>> /\ TreesPinned'
      BY <1>5, <3>2 DEF Libraries, closures, TreesPinned
    <3>4. CASE n > Len(BuildOrder)
      <4>1. todo' = VerifyPlace("libass", AfterLibass)
        BY <3>1, <3>2, <3>4 DEF Libraries, Then, VerifyPlace, Do
      <4>2. n - 1 = Len(BuildOrder)
        BY <3>4, SourceFacts
      <4>3. LibsPinned(SourcesOf("libass"))'
        <5> SUFFICES ASSUME NEW r \in Range(BuildOrder) PROVE libs[r] = pin[r]
          BY <3>3 DEF LibsPinned, SourcesOf
        <5>1. PICK i \in 1..Len(BuildOrder) : r = BuildOrder[i]
          BY SourceAssumption DEF Range
        <5> QED BY <2>1, <4>2, <5>1
      <4> QED BY <1>1, <3>2, <3>3, <4>1, <4>3 DEF LibassStage, Verifying
    <3>5. CASE n <= Len(BuildOrder)
      <4>1. todo' = Do(<<"extract", BuildOrder[n]>>, CompileNth(n))
        <5>1. ~ n > Len(BuildOrder)
          BY <2>1, <3>5, SourceFacts
        <5>2. todo' = <<<<"extract", BuildOrder[n]>>, <<"compile", BuildOrder[n]>>, <<"libraries", n + 1>>>>
                          \o AfterLibass
          BY <3>1, <3>2, <5>1 DEF Libraries, Then
        <5> QED BY <5>2, ClosureFront
      <4>2. Extracting(BuildOrder[n], CompileNth(n))'
        BY <4>1 DEF Extracting
      <4>3. AtLibrary(n)'
        BY <2>1, <3>3, <3>5, <4>2 DEF AtLibrary
      <4> QED BY <1>1, <3>2, <3>3, <4>3 DEF LibassStage
    <3> QED BY <2>1, <3>4, <3>5, SourceFacts
  <2>4. CASE n <= Len(BuildOrder) /\ Extracting(BuildOrder[n], CompileNth(n))
    <3>1. /\ \/ Extracting(BuildOrder[n], CompileNth(n))'
             \/ todo' = CompileNth(n) /\ tree'[BuildOrder[n]] = pin'[BuildOrder[n]]
          /\ UNCHANGED <<pin, libs, keystone>> /\ TreesPinned'
      <4>1. BuildOrder[n] \in Sources /\ Left(CompileNth(n))
        BY <2>2, <2>4, Places
      <4> QED BY <1>5, <2>4, <4>1, ExtractingStep
    <3>2. AtLibrary(n)'
      BY <2>1, <2>4, <3>1 DEF AtLibrary
    <3> QED BY <1>1, <3>1, <3>2 DEF LibassStage
  <2>5. CASE n <= Len(BuildOrder) /\ tree[BuildOrder[n]] = pin[BuildOrder[n]] /\ todo = CompileNth(n)
    <3>1. /\ todo' = LibrariesFrom(n + 1) /\ libs' = [libs EXCEPT ![BuildOrder[n]] = tree[BuildOrder[n]]]
          /\ UNCHANGED <<pin, tree, torn, keystone>>
      <4>1. BuildOrder[n] \in Sources /\ IsList(LibrariesFrom(n + 1))
        BY <2>2, <2>5, Places DEF Left
      <4> QED BY <2>5, <4>1, CompileStep DEF CompileNth
    <3>2. TreesPinned'
      BY <1>5, <3>1 DEF TreesPinned
    <3>3. n + 1 \in 1..(Len(BuildOrder) + 1) /\ (n + 1) - 1 = n
      BY <2>1, <2>5, SourceFacts
    <3>4. \A i \in 1..n : libs'[BuildOrder[i]] = pin'[BuildOrder[i]]
      <4> SUFFICES ASSUME NEW i \in 1..n PROVE libs'[BuildOrder[i]] = pin'[BuildOrder[i]]
        OBVIOUS
      <4>1. BuildOrder[i] \in Sources /\ libs \in [Sources -> Stock]
        BY <2>1, <2>5, SourceFacts DEF BuildInv, TypeOK, ClosuresOK
      <4>2. i = n \/ i \in 1..(n - 1)
        BY <2>1
      <4> QED BY <2>1, <2>5, <3>1, <4>1, <4>2
    <3>5. AtLibrary(n + 1)'
      BY <3>1, <3>3, <3>4 DEF AtLibrary
    <3> QED BY <1>1, <3>1, <3>2, <3>3, <3>5 DEF LibassStage
  <2> QED BY <1>5, <2>3, <2>4, <2>5 DEF AtLibrary
<1>6. CASE TreesPinned /\ Verifying("libass", AfterLibass)
  <2>1. "libass" \in Closures /\ Left(AfterLibass) /\ LibsPinned(SourcesOf("libass"))
    BY <1>6, Places DEF Closures, Verifying
  <2>2. CASE todo = VerifyPlace("libass", AfterLibass)
    <3>1. /\ todo' = ReportPlace("libass", AfterLibass) /\ "libass" \in closure'
          /\ UNCHANGED <<pin, tree, torn, libs, keystone>>
      BY <2>1, <2>2, VerifyStep
    <3> QED BY <1>1, <1>6, <2>1, <3>1 DEF LibassStage, Verifying, TreesPinned, LibsPinned
  <2>3. CASE todo = ReportPlace("libass", AfterLibass) /\ "libass" \in closure
    <3>1. /\ todo' = AfterLibass /\ ClosureMade("libass")'
          /\ UNCHANGED <<pin, tree, torn, libs, keystone>>
      BY <1>6, <2>1, <2>3, ReportStep
    <3> QED BY <1>1, <1>6, <3>1 DEF LibassMade, TreesPinned
  <2> QED BY <1>6, <2>2, <2>3 DEF Verifying
<1> QED BY <1>2, <1>3, <1>4, <1>5, <1>6 DEF LibassStage

\* The closures have sources of their own.
LEMMA Apart ==
    /\ SourcesOf("libass") \subseteq Sources \ {Ffmpeg, FfmpegCore, Dav1d}
    /\ SourcesOf("ffmpeg") = {Ffmpeg} /\ SourcesOf("ffmpeg-core") = {FfmpegCore, Dav1d}
    /\ Ffmpeg \in Sources /\ FfmpegCore \in Sources /\ Dav1d \in Sources
    /\ Ffmpeg # FfmpegCore /\ Ffmpeg # Dav1d /\ FfmpegCore # Dav1d
    /\ "libass" \in Closures /\ "ffmpeg" \in Closures /\ "ffmpeg-core" \in Closures
<1>1. "libass" \in Closures /\ "ffmpeg" \in Closures /\ "ffmpeg-core" \in Closures
  BY DEF Closures
<1>2. SourcesOf("libass") \subseteq Sources
  BY <1>1, SourceFacts
<1> QED BY <1>1, <1>2, SourceFacts, SourceAssumption DEF SourcesOf

LEMMA ClearStep ==
    ASSUME BuildInv, Next, command' # <<>>,
           NEW c \in Closures, NEW t, IsList(t), todo = Do(<<"clear", c>>, t)
    PROVE  /\ todo' = t /\ \A s \in Sources \ SourcesOf(c) : libs'[s] = libs[s]
           /\ UNCHANGED <<pin, tree, torn, closure, report>> /\ UNCHANGED <<keystone, bridges>>
<1>1. At("clear") /\ Tail(todo) = t /\ Arg = c
  BY Turn
<1>2. Clear /\ UNCHANGED <<keystone, bridges>>
  BY <1>1, ClosureActs
<1> QED BY <1>1, <1>2, InFront1 DEF Clear, Then

LEMMA LibassKept ==
    ASSUME LibassMade, UNCHANGED keystone, UNCHANGED pin, TreesPinned',
           report'["libass"] = report["libass"], closure \subseteq closure',
           \A s \in Sources \ {Ffmpeg, FfmpegCore, Dav1d} : libs'[s] = libs[s]
    PROVE  LibassMade'
<1>1. ClosureMade("libass")'
  BY Apart, MadeKept DEF LibassMade
<1> QED BY <1>1 DEF LibassMade, Bootstrapped, keystone

\* The scaler's closure.
LEMMA FfmpegStageStep ==
    ASSUME BuildInv, Next, command' # <<>>, LibassMade, FfmpegStage
    PROVE  LibassMade' /\ (FfmpegStage' \/ (todo' = AfterFfmpeg /\ FfmpegMade'))
<1>1. /\ "ffmpeg" \in Closures /\ Ffmpeg \in Sources /\ SourcesOf("ffmpeg") = {Ffmpeg}
      /\ Left(ClearFfmpeg) /\ Left(CompileFfmpeg) /\ Left(AfterFfmpeg)
      /\ Left(VerifyPlace("ffmpeg", AfterFfmpeg))
      /\ IsList(CompileFfmpeg) /\ IsList(AfterFfmpeg) /\ IsList(VerifyPlace("ffmpeg", AfterFfmpeg))
  BY Apart, Places DEF Left
<1>2. libs \in [Sources -> Stock]
  BY DEF BuildInv, TypeOK, ClosuresOK
<1>3. ASSUME UNCHANGED <<pin, tree, torn, keystone>>, UNCHANGED report, closure \subseteq closure',
             \A s \in Sources \ {Ffmpeg} : libs'[s] = libs[s]
      PROVE  LibassMade'
  BY <1>3, LibassKept DEF LibassMade, TreesPinned
<1>4. CASE todo = AfterLibass
  <2>1. At("ffmpeg") /\ Tail(todo) = AfterFfmpeg
    BY <1>1, <1>4, Turn DEF AfterLibass
  <2>2. BuildFfmpeg /\ UNCHANGED <<keystone, bridges>>
    BY <2>1, ClosureActs
  <2>3. todo' = Do(<<"extract", Ffmpeg>>, ClearFfmpeg)
    BY <2>1, <2>2, ClosureFront DEF BuildFfmpeg, Then
  <2>4. FfmpegStage'
    BY <2>3 DEF FfmpegStage, Extracting
  <2> QED BY <1>3, <2>2, <2>4 DEF BuildFfmpeg, closures
<1>5. CASE Extracting(Ffmpeg, ClearFfmpeg)
  <2>1. /\ \/ Extracting(Ffmpeg, ClearFfmpeg)'
           \/ todo' = ClearFfmpeg /\ tree'[Ffmpeg] = pin'[Ffmpeg]
        /\ UNCHANGED <<pin, libs, closure, report, keystone>> /\ TreesPinned'
    BY <1>1, <1>5, ExtractingStep DEF LibassMade
  <2> QED BY <2>1, LibassKept DEF FfmpegStage
<1>6. CASE tree[Ffmpeg] = pin[Ffmpeg] /\ todo = ClearFfmpeg
  <2>1. /\ todo' = CompileFfmpeg /\ \A s \in Sources \ {Ffmpeg} : libs'[s] = libs[s]
        /\ UNCHANGED <<pin, tree, torn, closure, report, keystone>>
    BY <1>1, <1>6, ClearStep DEF ClearFfmpeg
  <2> QED BY <1>3, <1>6, <2>1 DEF FfmpegStage
<1>7. CASE tree[Ffmpeg] = pin[Ffmpeg] /\ todo = CompileFfmpeg
  <2>1. /\ todo' = VerifyPlace("ffmpeg", AfterFfmpeg) /\ libs' = [libs EXCEPT ![Ffmpeg] = tree[Ffmpeg]]
        /\ UNCHANGED <<pin, tree, torn, report, keystone>> /\ closure \subseteq closure'
    BY <1>1, <1>7, CompileStep DEF CompileFfmpeg
  <2>2. LibsPinned({Ffmpeg})' /\ \A s \in Sources \ {Ffmpeg} : libs'[s] = libs[s]
    BY <1>1, <1>2, <1>7, <2>1 DEF LibsPinned
  <2>3. Verifying("ffmpeg", AfterFfmpeg)'
    BY <1>1, <2>1, <2>2 DEF Verifying
  <2> QED BY <1>3, <2>1, <2>2, <2>3 DEF FfmpegStage
<1>8. CASE LibsPinned({Ffmpeg}) /\ todo = VerifyPlace("ffmpeg", AfterFfmpeg)
  <2>1. /\ todo' = ReportPlace("ffmpeg", AfterFfmpeg) /\ closure' = closure \cup {"ffmpeg"}
        /\ UNCHANGED <<pin, tree, torn, libs, report, keystone>>
    BY <1>1, <1>8, VerifyStep
  <2>2. Verifying("ffmpeg", AfterFfmpeg)'
    BY <1>1, <1>8, <2>1 DEF Verifying, LibsPinned
  <2>3. LibassMade'
    BY <1>3, <2>1
  <2> QED BY <2>2, <2>3 DEF FfmpegStage
<1>9. CASE LibsPinned({Ffmpeg}) /\ todo = ReportPlace("ffmpeg", AfterFfmpeg) /\ "ffmpeg" \in closure
  <2>1. /\ todo' = AfterFfmpeg /\ ClosureMade("ffmpeg")' /\ UNCHANGED <<pin, tree, torn, libs, closure, keystone>>
        /\ report'["libass"] = report["libass"]
    BY <1>1, <1>9, Apart, ReportStep
  <2>2. LibassMade'
    BY <2>1, LibassKept DEF LibassMade, TreesPinned
  <2> QED BY <2>1, <2>2 DEF FfmpegMade
<1>10. CASE Verifying("ffmpeg", AfterFfmpeg)
  BY <1>1, <1>8, <1>9, <1>10 DEF Verifying
<1> QED BY <1>4, <1>5, <1>6, <1>7, <1>10 DEF FfmpegStage

LEMMA FfmpegKept ==
    ASSUME FfmpegMade, UNCHANGED keystone, UNCHANGED pin, TreesPinned',
           report'["libass"] = report["libass"], report'["ffmpeg"] = report["ffmpeg"],
           closure \subseteq closure',
           \A s \in Sources \ {FfmpegCore, Dav1d} : libs'[s] = libs[s]
    PROVE  FfmpegMade'
<1>1. ClosureMade("ffmpeg")'
  BY Apart, MadeKept DEF FfmpegMade
<1> QED BY <1>1, LibassKept DEF FfmpegMade

\* The core closure.
LEMMA CoreStageStep ==
    ASSUME BuildInv, Next, command' # <<>>, FfmpegMade, CoreStage
    PROVE  FfmpegMade' /\ (CoreStage' \/ (todo' = AfterCore /\ CoreMade'))
<1>1. /\ "ffmpeg-core" \in Closures /\ FfmpegCore \in Sources /\ Dav1d \in Sources /\ FfmpegCore # Dav1d
      /\ SourcesOf("ffmpeg-core") = {FfmpegCore, Dav1d}
  BY Apart
<1>2. libs \in [Sources -> Stock]
  BY DEF BuildInv, TypeOK, ClosuresOK
<1>3. ASSUME UNCHANGED <<pin, tree, torn, keystone>>, UNCHANGED report, closure \subseteq closure',
             \A s \in Sources \ {FfmpegCore, Dav1d} : libs'[s] = libs[s]
      PROVE  FfmpegMade'
  BY <1>3, FfmpegKept DEF FfmpegMade, LibassMade, TreesPinned
<1>4. CASE todo = AfterFfmpeg
  <2>1. At("ffmpeg-core") /\ Tail(todo) = AfterCore
    BY <1>4, Turn, Places DEF Left, AfterFfmpeg
  <2>2. BuildFfmpegCore /\ UNCHANGED <<keystone, bridges>>
    BY <2>1, ClosureActs
  <2>3. todo' = Do(<<"extract", FfmpegCore>>, ReleasePlace)
    BY <2>1, <2>2, ClosureFront DEF BuildFfmpegCore, Then
  <2>4. CoreStage'
    BY <2>3 DEF CoreStage, Extracting
  <2> QED BY <1>3, <2>2, <2>4 DEF BuildFfmpegCore, closures
<1>5. CASE Extracting(FfmpegCore, ReleasePlace)
  <2>1. /\ \/ Extracting(FfmpegCore, ReleasePlace)'
           \/ todo' = ReleasePlace /\ tree'[FfmpegCore] = pin'[FfmpegCore]
        /\ UNCHANGED <<pin, libs, closure, report, keystone>> /\ TreesPinned'
    BY <1>1, <1>5, Places, ExtractingStep DEF FfmpegMade, LibassMade
  <2> QED BY <2>1, FfmpegKept DEF CoreStage
<1>6. CASE tree[FfmpegCore] = pin[FfmpegCore] /\ todo = ReleasePlace
  <2>1. At("release") /\ Tail(todo) = ClearCore
    <3>1. IsList(ClearCore)
      BY Places DEF Left
    <3> QED BY <1>6, <3>1, Turn DEF ReleasePlace
  <2>2. Release /\ UNCHANGED <<keystone, bridges>>
    BY <2>1, ClosureActs
  <2>3. todo' = ClearCore
    BY <2>1, <2>2, GoesOn, InFront1, Places DEF Release, Then, Left
  <2> QED BY <1>3, <1>6, <2>2, <2>3 DEF CoreStage, Release, closures
<1>7. CASE tree[FfmpegCore] = pin[FfmpegCore] /\ todo = ClearCore
  <2> DEFINE e == Do(<<"extract", Dav1d>>, CompileDav1d)
  <2>1. IsList(e)
    BY DoFacts, Places DEF Left
  <2>2. /\ todo' = e /\ \A s \in Sources \ {FfmpegCore, Dav1d} : libs'[s] = libs[s]
        /\ UNCHANGED <<pin, tree, torn, closure, report, keystone>>
    BY <1>1, <1>7, <2>1, ClearStep DEF ClearCore
  <2>3. Extracting(Dav1d, CompileDav1d)'
    BY <2>2 DEF Extracting
  <2> QED BY <1>3, <1>7, <2>2, <2>3 DEF CoreStage
<1>8. CASE tree[FfmpegCore] = pin[FfmpegCore] /\ Extracting(Dav1d, CompileDav1d)
  <2>1. /\ \/ Extracting(Dav1d, CompileDav1d)'
           \/ todo' = CompileDav1d /\ tree'[Dav1d] = pin'[Dav1d]
        /\ UNCHANGED <<pin, libs, closure, report, keystone>> /\ TreesPinned'
        /\ tree'[FfmpegCore] = tree[FfmpegCore]
    BY <1>1, <1>8, Places, ExtractingStep DEF FfmpegMade, LibassMade
  <2> QED BY <1>8, <2>1, FfmpegKept DEF CoreStage
<1>9. CASE /\ tree[FfmpegCore] = pin[FfmpegCore] /\ tree[Dav1d] = pin[Dav1d]
           /\ todo = CompileDav1d
  <2>1. /\ todo' = CompileCore /\ libs' = [libs EXCEPT ![Dav1d] = tree[Dav1d]]
        /\ UNCHANGED <<pin, tree, torn, report, keystone>> /\ closure \subseteq closure'
    BY <1>1, <1>9, Places, CompileStep DEF CompileDav1d, Left
  <2>2. LibsPinned({Dav1d})' /\ \A s \in Sources \ {FfmpegCore, Dav1d} : libs'[s] = libs[s]
    BY <1>1, <1>2, <1>9, <2>1 DEF LibsPinned
  <2> QED BY <1>3, <1>9, <2>1, <2>2 DEF CoreStage
<1>10. CASE tree[FfmpegCore] = pin[FfmpegCore] /\ LibsPinned({Dav1d}) /\ todo = CompileCore
  <2>1. /\ todo' = VerifyPlace("ffmpeg-core", AfterCore)
        /\ libs' = [libs EXCEPT ![FfmpegCore] = tree[FfmpegCore]]
        /\ UNCHANGED <<pin, tree, torn, report, keystone>> /\ closure \subseteq closure'
    BY <1>1, <1>10, Places, CompileStep DEF CompileCore, Left
  <2>2. /\ LibsPinned({FfmpegCore, Dav1d})'
        /\ \A s \in Sources \ {FfmpegCore, Dav1d} : libs'[s] = libs[s]
    BY <1>1, <1>2, <1>10, <2>1 DEF LibsPinned
  <2>3. Verifying("ffmpeg-core", AfterCore)'
    BY <1>1, <2>1, <2>2 DEF Verifying
  <2> QED BY <1>3, <2>1, <2>2, <2>3 DEF CoreStage
<1>11. CASE LibsPinned({FfmpegCore, Dav1d}) /\ todo = VerifyPlace("ffmpeg-core", AfterCore)
  <2>1. /\ todo' = ReportPlace("ffmpeg-core", AfterCore) /\ closure' = closure \cup {"ffmpeg-core"}
        /\ UNCHANGED <<pin, tree, torn, libs, report, keystone>>
    BY <1>1, <1>11, Places, VerifyStep
  <2>2. Verifying("ffmpeg-core", AfterCore)'
    BY <1>1, <1>11, <2>1 DEF Verifying, LibsPinned
  <2>3. FfmpegMade'
    BY <1>3, <2>1
  <2> QED BY <2>2, <2>3 DEF CoreStage
<1>12. CASE LibsPinned({FfmpegCore, Dav1d}) /\ todo = ReportPlace("ffmpeg-core", AfterCore) /\ "ffmpeg-core" \in closure
  <2>1. /\ todo' = AfterCore /\ ClosureMade("ffmpeg-core")' /\ UNCHANGED <<pin, tree, torn, libs, closure, keystone>>
        /\ report'["libass"] = report["libass"] /\ report'["ffmpeg"] = report["ffmpeg"]
    <3>1. \A d \in Closures \ {"ffmpeg-core"} : report'[d] = report[d]
      BY <1>1, <1>12, Places, ReportStep
    <3> QED BY <1>1, <1>12, <3>1, Apart, Places, ReportStep
  <2>2. FfmpegMade'
    BY <2>1, FfmpegKept DEF FfmpegMade, LibassMade, TreesPinned
  <2> QED BY <2>1, <2>2 DEF CoreMade
<1>13. CASE Verifying("ffmpeg-core", AfterCore)
  BY <1>1, <1>11, <1>12, <1>13 DEF Verifying
<1> QED BY <1>4, <1>5, <1>6, <1>7, <1>8, <1>9, <1>10, <1>13 DEF CoreStage

LEMMA LinkedIsPinned ==
    ASSUME CoreMade, NEW b \in Bridges
    PROVE  Linked(b) = Pins(ClosureOf[b])
<1>1. ClosureOf[b] \in {"libass", "ffmpeg", "ffmpeg-core"}
  BY BridgeAssumption DEF Closures
<1>2. LibsPinned(SourcesOf(ClosureOf[b]))
  BY <1>1 DEF CoreMade, FfmpegMade, LibassMade, ClosureMade
<1> QED BY <1>2 DEF Linked, Pins, LibsPinned

\* A dylib that has been made stays as it is.
LEMMA BridgeKept ==
    ASSUME NEW b, BridgeMade(b), UNCHANGED pin, dylib'[b] = dylib[b], bridgeReport'[b] = bridgeReport[b]
    PROVE  BridgeMade(b)'
BY DEF BridgeMade, Pins

LEMMA CoreKept ==
    ASSUME CoreMade, UNCHANGED <<keystone, closures>>
    PROVE  CoreMade'
BY DEF CoreMade, FfmpegMade, LibassMade, ClosureMade, LibsPinned, Pins, TreesPinned, Bootstrapped,
   keystone, closures

\* The dylibs, one after the other.
LEMMA BridgeStageStep ==
    ASSUME BuildInv, Next, command' # <<>>, CoreMade, BridgeStage
    PROVE  CoreMade' /\ (BridgeStage' \/ (outcome' = "ok" /\ \A b \in Bridges : BridgeMade(b)'))
<1> DEFINE Earlier(n) == \A i \in 1..(n - 1) : BridgeOrder[i] # BridgeOrder[n] => BridgeMade(BridgeOrder[i])
<1>1. /\ Len(BridgeOrder) \in Nat
      /\ \A i \in 1..Len(BridgeOrder) : BridgeOrder[i] \in Bridges
      /\ \A b \in Bridges : \E i \in 1..Len(BridgeOrder) : b = BridgeOrder[i]
      /\ DOMAIN dylib = Bridges /\ DOMAIN bridgeReport = Bridges
  <2>1. \A i \in 1..Len(BridgeOrder) : BridgeOrder[i] \in Bridges
    BY BridgeAssumption
  <2>2. \A b \in Bridges : \E i \in 1..Len(BridgeOrder) : b = BridgeOrder[i]
    BY BridgeAssumption DEF Bridges, Range
  <2>3. DOMAIN dylib = Bridges /\ DOMAIN bridgeReport = Bridges
    BY DEF BuildInv, TypeOK, BridgesOK
  <2> QED BY <2>1, <2>2, <2>3, BridgeAssumption
<1>2. ASSUME UNCHANGED <<keystone, closures>> PROVE CoreMade' /\ UNCHANGED pin
  BY <1>2, CoreKept DEF closures
<1>3. ASSUME NEW n \in 1..(Len(BridgeOrder) + 1), todo = BridgesFrom(n),
             \A i \in 1..(n - 1) : BridgeMade(BridgeOrder[i])
      PROVE  CoreMade' /\ (BridgeStage' \/ (outcome' = "ok" /\ \A b \in Bridges : BridgeMade(b)'))
  <2>1. At("bridges") /\ Tail(todo) = AfterBridges /\ Arg = n /\ n \in Nat
    <3>1. IsList(AfterBridges)
      BY Places
    <3>2. todo = Do(<<"bridges", n>>, AfterBridges)
      BY <1>3 DEF BridgesFrom
    <3>3. At("bridges") /\ Tail(todo) = AfterBridges /\ Arg = n
      BY <3>1, <3>2, Turn
    <3> QED BY <1>1, <3>3
  <2>2. NextBridge /\ UNCHANGED <<keystone, closures>>
    BY <2>1, BridgeActs
  <2>3. CoreMade' /\ UNCHANGED pin /\ UNCHANGED bridges
    BY <1>2, <2>2 DEF NextBridge
  <2>4. ASSUME NEW i \in 1..(n - 1) PROVE BridgeMade(BridgeOrder[i])'
    <3>1. BridgeMade(BridgeOrder[i])
      BY <1>3
    <3> QED BY <2>3, <3>1, BridgeKept DEF bridges
  <2>5. CASE n > Len(BridgeOrder)
    <3>1. outcome' = "ok"
      BY <2>1, <2>2, <2>5, InFront1, Places DEF NextBridge, Then, AfterBridges
    <3>2. ASSUME NEW b \in Bridges PROVE BridgeMade(b)'
      <4>1. PICK i \in 1..(n - 1) : b = BridgeOrder[i]
        BY <1>1, <1>3, <2>5
      <4> QED BY <2>4, <4>1
    <3> QED BY <2>3, <3>1, <3>2
  <2>6. CASE n <= Len(BridgeOrder)
    <3>1. ~ n > Len(BridgeOrder)
      BY <1>1, <2>1, <2>6
    <3>2. todo' = <<<<"load", BridgeOrder[n]>>, <<"unlink", BridgeOrder[n]>>, <<"link", BridgeOrder[n]>>,
                    <<"check", BridgeOrder[n]>>, <<"bridges", n + 1>>>> \o AfterBridges
      BY <2>1, <2>2, <3>1 DEF NextBridge, Then
    <3>3. todo' = LoadPlace(n)
      BY <3>2, BridgeFront
    <3>4. AtBridge(n)'
      BY <2>4, <2>6, <3>3 DEF AtBridge
    <3> QED BY <2>3, <3>4 DEF BridgeStage
  <2> QED BY <1>1, <2>1, <2>5, <2>6
<1>4. ASSUME NEW n \in 1..(Len(BridgeOrder) + 1), AtBridge(n)
      PROVE  CoreMade' /\ BridgeStage'
  <2> DEFINE b == BridgeOrder[n]
  <2>1. n \in Nat /\ n <= Len(BridgeOrder) /\ b \in Bridges /\ n + 1 \in 1..(Len(BridgeOrder) + 1)
    BY <1>1, <1>4 DEF AtBridge
  <2>2. Earlier(n)
    BY <1>4 DEF AtBridge
  <2>3. ASSUME UNCHANGED pin,
               \A d \in Bridges \ {b} : dylib'[d] = dylib[d] /\ bridgeReport'[d] = bridgeReport[d]
        PROVE  Earlier(n)'
    <3> SUFFICES ASSUME NEW i \in 1..(n - 1), BridgeOrder[i] # BridgeOrder[n]
                 PROVE  BridgeMade(BridgeOrder[i])'
      OBVIOUS
    <3>1. BridgeMade(BridgeOrder[i]) /\ BridgeOrder[i] \in Bridges \ {b}
      BY <1>1, <2>1, <2>2
    <3> QED BY <2>3, <3>1, BridgeKept
  <2> HIDE DEF Earlier
  <2>4. ASSUME Earlier(n)', todo' \in {UnlinkPlace(n), LinkPlace(n)} PROVE BridgeStage'
    <3>1. AtBridge(n)'
      BY <2>1, <2>4 DEF AtBridge, Earlier
    <3> QED BY <3>1 DEF BridgeStage
  <2>5. CASE todo = LoadPlace(n)
    <3>1. At("load") /\ Tail(todo) = UnlinkPlace(n)
      BY <2>5, Turn, Places DEF LoadPlace, Left
    <3>2. LoadClosure /\ UNCHANGED <<keystone, closures>>
      BY <3>1, BridgeActs
    <3>3. todo' = UnlinkPlace(n) /\ UNCHANGED bridges
      BY <3>1, <3>2, GoesOn, InFront1, Places DEF LoadClosure, Then, Left
    <3> QED BY <1>2, <2>3, <2>4, <3>2, <3>3 DEF bridges
  <2>6. CASE todo = UnlinkPlace(n)
    <3>1. At("unlink") /\ Tail(todo) = LinkPlace(n) /\ Arg = b
      BY <2>6, Turn, Places DEF UnlinkPlace, Left
    <3>2. CompileDylib /\ UNCHANGED <<keystone, closures>>
      BY <3>1, BridgeActs
    <3>3. todo' = LinkPlace(n)
      BY <3>1, <3>2, InFront1, Places DEF CompileDylib, Then, Left
    <3>4. \A d \in Bridges \ {b} : dylib'[d] = dylib[d] /\ bridgeReport'[d] = bridgeReport[d]
      BY <1>1, <3>1, <3>2 DEF CompileDylib
    <3> QED BY <1>2, <2>3, <2>4, <3>2, <3>3, <3>4
  <2>7. CASE todo = LinkPlace(n)
    <3>1. At("link") /\ Tail(todo) = CheckPlace(n) /\ Arg = b
      BY <2>7, Turn, Places DEF LinkPlace, Left
    <3>2. (LinkDylib \/ BadLink) /\ UNCHANGED <<keystone, closures>>
      BY <3>1, BridgeActs
    <3>3. todo' = CheckPlace(n)
      BY <3>1, <3>2, InFront1, Places DEF LinkDylib, BadLink, Then, Left
    <3>4. \A d \in Bridges \ {b} : dylib'[d] = dylib[d] /\ bridgeReport'[d] = bridgeReport[d]
      BY <1>1, <3>1, <3>2 DEF LinkDylib, BadLink
    <3>5. dylib'[b] \in {Linked(b), Defective(b)}
      BY <1>1, <2>1, <3>1, <3>2 DEF LinkDylib, BadLink
    <3>6. dylib'[b] \in {Pins(ClosureOf[b])', Defective(b)}
      BY <1>2, <2>1, <3>2, <3>5, LinkedIsPinned DEF Pins
    <3>7. Earlier(n)'
      BY <1>2, <2>3, <3>2, <3>4
    <3>8. AtBridge(n)'
      BY <2>1, <3>3, <3>6, <3>7 DEF AtBridge, Earlier
    <3> QED BY <1>2, <3>2, <3>8 DEF BridgeStage
  <2>8. CASE todo = CheckPlace(n) /\ dylib[b] \in {Pins(ClosureOf[b]), Defective(b)}
    <3>1. At("check") /\ Tail(todo) = BridgesFrom(n + 1) /\ Arg = b
      <4>1. IsList(BridgesFrom(n + 1))
        BY Places DEF Left
      <4> QED BY <2>8, <4>1, Turn DEF CheckPlace
    <3>2. VerifyDylib /\ UNCHANGED <<keystone, closures>>
      BY <3>1, BridgeActs
    <3>3. /\ ~ Fails(b) /\ todo' = BridgesFrom(n + 1) /\ UNCHANGED dylib
          /\ bridgeReport' = [bridgeReport EXCEPT ![b] = dylib[b]]
      BY <3>1, <3>2, GoesOn, InFront1, Places DEF VerifyDylib, Then, Left
    <3>4. BridgeMade(b)'
      <4>1. dylib[b] = Pins(ClosureOf[b])
        BY <2>8, <3>3 DEF Fails
      <4>2. UNCHANGED pin
        BY <3>2 DEF closures
      <4> QED BY <1>1, <2>1, <3>3, <4>1, <4>2 DEF BridgeMade, Pins
    <3>5. Earlier(n)'
      BY <1>1, <1>2, <2>3, <3>2, <3>3
    <3>6. (n + 1) - 1 = n
      BY <2>1
    <3>7. \A i \in 1..n : BridgeMade(BridgeOrder[i])'
      <4> SUFFICES ASSUME NEW i \in 1..n PROVE BridgeMade(BridgeOrder[i])'
        OBVIOUS
      <4>1. CASE BridgeOrder[i] = b
        BY <3>4, <4>1
      <4>2. CASE BridgeOrder[i] # b
        <5>1. i \in 1..(n - 1)
          BY <2>1, <4>2
        <5> QED BY <3>5, <4>2, <5>1 DEF Earlier
      <4> QED BY <4>1, <4>2
    <3> QED BY <1>2, <2>1, <3>2, <3>3, <3>6, <3>7 DEF BridgeStage
  <2> QED BY <1>4, <2>5, <2>6, <2>7, <2>8 DEF AtBridge
<1> QED BY <1>3, <1>4 DEF BridgeStage

-----------------------------------------------------------------------------
(* From stage to stage. *)

LEMMA ProgressStep ==
    ASSUME BuildInv, Next, command' # <<>>, Progress
    PROVE  Progress' \/ (outcome' = "ok" /\ CoreMade' /\ \A b \in Bridges : BridgeMade(b)')
<1>1. CASE KeystoneStage
  BY <1>1, KeystoneStageStep DEF Progress, LibassStage
<1>2. CASE Bootstrapped /\ LibassStage
  BY <1>2, LibassStageStep DEF Progress, FfmpegStage
<1>3. CASE LibassMade /\ FfmpegStage
  BY <1>3, FfmpegStageStep DEF Progress, CoreStage
<1>4. CASE FfmpegMade /\ CoreStage
  <2>1. ASSUME todo' = AfterCore PROVE BridgeStage'
    <3>1. 1 \in 1..(Len(BridgeOrder) + 1)
      BY BridgeAssumption
    <3>2. todo' = BridgesFrom(1)
      BY <2>1 DEF AfterCore
    <3> QED BY <3>1, <3>2 DEF BridgeStage
  <2> QED BY <1>4, <2>1, CoreStageStep DEF Progress
<1>5. CASE CoreMade /\ BridgeStage
  BY <1>5, BridgeStageStep DEF Progress
<1> QED BY <1>1, <1>2, <1>3, <1>4, <1>5 DEF Progress

\* At every place something is left to do.
LEMMA Going == Progress => todo # <<>>
<1>1. \A x, t : Left(t) => Left(Do(x, t)) /\ Do(x, t) # <<>>
  BY DoFacts DEF Left
<1>2. \A x : Do(x, AfterBridges) # <<>>
  BY DoFacts, Places DEF Left
<1>3. KeystoneStage => todo # <<>>
  <2>1. MakeAll # <<>>
    BY DEF MakeAll
  <2> QED BY <1>1, <2>1, Places DEF KeystoneStage, Left
<1>4. ASSUME NEW s, NEW t, Left(t), Extracting(s, t) PROVE todo # <<>>
  <2>1. Left(Do(<<"unpack", s>>, t))
    BY <1>1, <1>4
  <2> QED BY <1>1, <1>4, <2>1 DEF Extracting
<1>5. LibassStage => todo # <<>>
  BY <1>1, <1>4, Places DEF LibassStage, AtLibrary, Verifying, Left
<1>6. FfmpegStage => todo # <<>>
  BY <1>1, <1>4, Places DEF FfmpegStage, Verifying, Left
<1>7. CoreStage => todo # <<>>
  BY <1>1, <1>4, Places DEF CoreStage, Verifying, Left
<1>8. BridgeStage => todo # <<>>
  BY Places DEF BridgeStage, AtBridge, Left
<1> QED BY <1>3, <1>5, <1>6, <1>7, <1>8 DEF Progress

LEMMA GoingNext == Progress' => todo' # <<>>
<1>1. Progress => ~ Idle
  BY Going DEF Idle
<1>2. Progress' => ~ Idle'
  BY <1>1, PTL
<1> QED BY <1>2 DEF Idle

\* A step ends the command with an error, or is a step further.
LEMMA Outcomes ==
    ASSUME Next, todo # <<>>
    PROVE  \/ todo' = <<>> /\ command' = <<>> /\ outcome' = "failed"
           \/ /\ UNCHANGED command
              /\ outcome' = outcome \/ (outcome' = "ok" /\ todo' = <<>>)
<1> DEFINE Outcome ==
        \/ todo' = <<>> /\ command' = <<>> /\ outcome' = "failed"
        \/ /\ UNCHANGED command
           /\ outcome' = outcome \/ (outcome' = "ok" /\ todo' = <<>>)
<1>1. ASSUME NEW o, Then(o) PROVE Outcome
  BY <1>1 DEF Then
<1>2. Stop => Outcome
  BY DEF Stop
<1>3. KeystoneStep => Outcome
  BY <1>2 DEF KeystoneStep, Bootstrap, FindSource, Download, Downloaded, Untar, Untarred,
     EditPolicy, RewritePolicy, BuildKeystone, CopyLibrary, LibraryCopied, Then
<1>4. ClosureStep => Outcome
  BY <1>2 DEF ClosureStep, BuildLibass, Libraries, BuildFfmpeg, BuildFfmpegCore, Reset, Removed,
     Extract, Fetch, Move, Hash, Unpack, Release, Clear, Compile, VerifyClosure, ReportClosure, Then
<1>5. BridgeStep => Outcome
  BY <1>2 DEF BridgeStep, NextBridge, NextCheck, LoadClosure, CompileDylib, LinkDylib, VerifyDylib, Then
<1>6. Interrupt \/ BadDelivery \/ BadLink => Outcome
  BY DEF Interrupt, BadDelivery, BadLink
<1>7. ~ Start /\ ~ Repin
  BY DEF Start, Repin, Idle
<1> QED BY <1>3, <1>4, <1>5, <1>6, <1>7 DEF Next, Step

LEMMA ProgressNext ==
    ASSUME BuildInv, ProgressInv, Next
    PROVE  ProgressInv'
<1>1. MakeAll # <<>>
  BY DEF MakeAll
<1>2. CASE todo = <<>>
  <2>1. Start \/ Repin
    BY <1>2 DEF Next, Step, KeystoneStep, Bootstrap, FindSource, Download, Downloaded, Untar, Untarred,
       EditPolicy, RewritePolicy, BuildKeystone, CopyLibrary, LibraryCopied,
       ClosureStep, BuildLibass, Libraries, BuildFfmpeg, BuildFfmpegCore, Reset, Removed,
       Extract, Fetch, Move, Hash, Unpack, Release, Clear, Compile, VerifyClosure, ReportClosure,
       BridgeStep, NextBridge, NextCheck, LoadClosure, CompileDylib, LinkDylib, VerifyDylib,
       Interrupt, Idle, BadDelivery, BadLink, At
  <2>2. CASE Start
    <3>1. outcome' = "running" /\ todo' = command'
      BY <2>2 DEF Start
    <3>2. todo' = MakeAll => Progress'
      BY DEF Progress, KeystoneStage
    <3> QED BY <3>1, <3>2 DEF ProgressInv
  <2>3. CASE Repin
    BY <1>1, <2>3 DEF Repin, Idle, ProgressInv
  <2> QED BY <2>1, <2>2, <2>3
<1>3. CASE todo # <<>>
  <2>1. outcome = "running"
    BY <1>3 DEF ProgressInv
  <2>2. CASE todo' = <<>> /\ command' = <<>> /\ outcome' = "failed"
    BY <1>1, <2>2 DEF ProgressInv
  <2>3. CASE /\ UNCHANGED command
             /\ outcome' = outcome \/ (outcome' = "ok" /\ todo' = <<>>)
    <3>1. CASE command = MakeAll
      <4>1. Progress' \/ (outcome' = "ok" /\ CoreMade' /\ \A b \in Bridges : BridgeMade(b)')
        BY <1>1, <2>1, <2>3, <3>1, ProgressStep DEF ProgressInv
      <4> QED BY <2>1, <2>3, <4>1, GoingNext DEF ProgressInv
    <3>2. CASE command # MakeAll
      BY <2>1, <2>3, <3>2 DEF ProgressInv
    <3> QED BY <3>1, <3>2
  <2> QED BY <1>3, <2>2, <2>3, Outcomes
<1> QED BY <1>2, <1>3

\* Nothing happens: every part of the invariant is about the variables alone.
LEMMA ProgressStays ==
    ASSUME ProgressInv, UNCHANGED vars
    PROVE  ProgressInv'
<1>1. UNCHANGED <<todo, command, outcome, library, pin, tree, torn, libs, closure, report, dylib, bridgeReport>>
  BY DEF vars, agenda, keystone, closures, bridges
<1>2. \A b : BridgeMade(b) => BridgeMade(b)'
  BY <1>1 DEF BridgeMade, Pins
<1>3. \A c : ClosureMade(c) => ClosureMade(c)'
  BY <1>1 DEF ClosureMade, LibsPinned, Pins
<1>4. TreesPinned => TreesPinned'
  BY <1>1 DEF TreesPinned
<1>5. /\ Bootstrapped => Bootstrapped'
      /\ LibassMade => LibassMade'
      /\ FfmpegMade => FfmpegMade'
      /\ CoreMade => CoreMade'
  BY <1>1, <1>3, <1>4 DEF Bootstrapped, LibassMade, FfmpegMade, CoreMade
<1>6. KeystoneStage => KeystoneStage'
  BY <1>1 DEF KeystoneStage
<1>7. LibassStage => LibassStage'
  BY <1>1, <1>4 DEF LibassStage, AtLibrary, Extracting, Verifying, LibsPinned
<1>8. FfmpegStage => FfmpegStage'
  BY <1>1 DEF FfmpegStage, Extracting, Verifying, LibsPinned
<1>9. CoreStage => CoreStage'
  BY <1>1 DEF CoreStage, Extracting, Verifying, LibsPinned
<1>10. BridgeStage => BridgeStage'
  BY <1>1, <1>2 DEF BridgeStage, AtBridge, Pins
<1>11. Progress => Progress'
  BY <1>5, <1>6, <1>7, <1>8, <1>9, <1>10 DEF Progress
<1> QED BY <1>1, <1>2, <1>5, <1>11 DEF ProgressInv

\* The inductive invariant of the builds, for any sources, bridges and commands:
\* what is left to do fits together, every operation that relies on the one before
\* it finds what it relies on, and `make bootstrap deps bridge` has made all that
\* comes before the place it has reached, whatever was on the disk when it started.
THEOREM MakeInvariance == Spec => []MakeInv
<1>1. Init => MakeInv
  BY InitInv DEF Init, AgendaInit, MakeInv, ProgressInv, MakeAll
<1>2. MakeInv /\ [Next]_vars => MakeInv'
  BY NextInv, ProgressNext, ProgressStays DEF MakeInv
<1> QED BY <1>1, <1>2, PTL DEF Spec

\* What the README promises of the full build: when it succeeds, every dylib was
\* linked from the versions the lock files pin, has passed its checks and is what
\* its report is about, every closure's report names the pinned versions, and the
\* assembler is there (build_deps.py, build_ffmpeg.py, build_ffmpeg_core.py,
\* build_bridge.py: main).
THEOREM MadeFromPins == Spec => []MadeIsPinned
<1>1. MakeInv => MadeIsPinned
  <2> SUFFICES ASSUME ProgressInv, command = MakeAll, outcome = "ok"
               PROVE  /\ \A b \in Bridges : dylib[b] = Pins(ClosureOf[b]) /\ bridgeReport[b] = dylib[b]
                      /\ \A c \in Closures : report[c] = Pins(c)
                      /\ library # "none"
    BY DEF MakeInv, MadeIsPinned
  <2>1. CoreMade /\ \A b \in Bridges : BridgeMade(b)
    BY DEF ProgressInv
  <2> QED BY <2>1 DEF CoreMade, FfmpegMade, LibassMade, Bootstrapped, ClosureMade, BridgeMade, Closures
<1> QED BY MakeInvariance, <1>1, PTL

-----------------------------------------------------------------------------
(***************************************************************************)
(* A full build that nothing disturbs.                                     *)
(***************************************************************************)
LEMMA KeystoneWayStep ==
    ASSUME BuildInv, Next, command' # <<>>, KeystoneWay
    PROVE  KeystoneWay' \/ (todo' = AfterKeystone /\ Bootstrapped')
<1>0. /\ 1 \in PolicyFiles /\ 2 \in PolicyFiles /\ PolicyFiles = {1, 2} /\ DOMAIN policy = {1, 2}
      /\ IsList(Policy2) /\ IsList(BuildPlace)
  BY Places DEF PolicyFiles, Left, BuildInv, TypeOK, KeystoneOK
<1>1. CASE todo = MakeAll /\ (library # "none" \/ Workable)
  <2>1. CASE library # "none"
    BY <1>1, <2>1, KeystoneMoves DEF keystone, Bootstrapped
  <2>2. CASE library = "none"
    <3>1. todo' = Do(<<"source", 0>>, Policy1) /\ Workable'
      BY <1>1, <2>2, KeystoneMoves DEF keystone, Workable, Untorn, PolicyFiles
    <3> QED BY <3>1 DEF KeystoneWay
  <2> QED BY <2>1, <2>2
<1>2. CASE todo = Do(<<"source", 0>>, Policy1) /\ Workable
  <2>1. /\ source # "partial" /\ source' = source /\ archive' = archive
        /\ archive \in {"none", "partial", "whole"} /\ (source = "none" => archive # "partial")
        /\ Untorn(PolicyFiles)'
        /\ todo' = IF source # "none" THEN Policy1
                   ELSE IF archive # "none" THEN UntarPlace ELSE Do(<<"download", 0>>, UntarPlace)
    BY <1>2, KeystoneMoves DEF keystone, Workable, Untorn, PolicyFiles, BuildInv, TypeOK, KeystoneOK
  <2> QED BY <2>1 DEF KeystoneWay
<1>3. CASE todo = Do(<<"download", 0>>, UntarPlace) /\ Untorn(PolicyFiles)
  <2>1. todo' = Do(<<"downloaded", 0>>, UntarPlace) /\ Untorn(PolicyFiles)'
    BY <1>3, KeystoneMoves DEF Untorn, PolicyFiles
  <2> QED BY <2>1 DEF KeystoneWay
<1>4. CASE todo = Do(<<"downloaded", 0>>, UntarPlace) /\ Untorn(PolicyFiles)
  <2>1. todo' = UntarPlace /\ archive' = "whole" /\ Untorn(PolicyFiles)'
    BY <1>4, KeystoneMoves DEF Untorn, PolicyFiles
  <2> QED BY <2>1 DEF KeystoneWay
<1>5. CASE todo = UntarPlace /\ Untorn(PolicyFiles)
  <2>1. todo' = Do(<<"untarred", 0>>, Policy1) /\ Untorn(PolicyFiles)'
    BY <1>5, KeystoneMoves DEF Untorn, PolicyFiles
  <2> QED BY <2>1 DEF KeystoneWay
<1>6. CASE todo = Do(<<"untarred", 0>>, Policy1) /\ Untorn(PolicyFiles)
  <2>1. todo' = Policy1 /\ source' = "whole" /\ Untorn(PolicyFiles)'
    BY <1>6, KeystoneMoves DEF Untorn, PolicyFiles
  <2> QED BY <2>1 DEF KeystoneWay
<1>7. CASE todo = Policy1 /\ source # "partial" /\ Untorn(PolicyFiles)
  <2>1. /\ \/ todo' = Policy2 /\ UNCHANGED policy
           \/ todo' = Do(<<"rewrite", 1>>, Policy2) /\ policy' = [policy EXCEPT ![1] = "torn"]
        /\ UNCHANGED source
    BY <1>0, <1>7, PolicyMoves DEF Policy1
  <2>2. Untorn({2})' /\ source' # "partial"
    BY <1>0, <1>7, <2>1 DEF Untorn
  <2> QED BY <2>1, <2>2 DEF KeystoneWay
<1>8. CASE todo = Do(<<"rewrite", 1>>, Policy2) /\ source # "partial" /\ Untorn({2})
  <2>1. todo' = Policy2 /\ policy' = [policy EXCEPT ![1] = "new"] /\ UNCHANGED source
    BY <1>0, <1>8, PolicyMoves
  <2>2. Untorn({2})' /\ source' # "partial"
    BY <1>0, <1>8, <2>1 DEF Untorn
  <2> QED BY <2>1, <2>2 DEF KeystoneWay
<1>9. CASE todo = Policy2 /\ source # "partial"
  <2>1. /\ todo' = BuildPlace \/ todo' = Do(<<"rewrite", 2>>, BuildPlace)
        /\ UNCHANGED source
    BY <1>0, <1>9, PolicyMoves DEF Policy2
  <2> QED BY <1>9, <2>1 DEF KeystoneWay
<1>10. CASE todo = Do(<<"rewrite", 2>>, BuildPlace) /\ source # "partial"
  <2>1. todo' = BuildPlace /\ UNCHANGED source
    BY <1>0, <1>10, PolicyMoves
  <2> QED BY <1>10, <2>1 DEF KeystoneWay
<1>11. CASE todo \in {BuildPlace, CopyPlace, Do(<<"copied", 0>>, AfterKeystone)}
  BY <1>11, KeystoneMoves DEF KeystoneWay, Bootstrapped
<1> QED
  BY <1>1, <1>2, <1>3, <1>4, <1>5, <1>6, <1>7, <1>8, <1>9, <1>10, <1>11 DEF KeystoneWay

\* At an operation that never fails.
LEMMA Calm ==
    ASSUME NEW x, NEW t, IsList(t), todo = Do(x, t),
           x[1] \notin {"untar", "policy", "build", "fetch", "hash", "release", "compile", "verify",
                        "load", "check"}
    PROVE  Smooth
BY Turn DEF Smooth

LEMMA SmoothKeystone ==
    ASSUME KeystoneWay
    PROVE  Smooth
<1>0. /\ IsList(AfterKeystone) /\ IsList(UntarPlace) /\ IsList(Policy1) /\ IsList(Policy2)
      /\ IsList(BuildPlace) /\ IsList(CopyPlace) /\ 1 \in PolicyFiles /\ 2 \in PolicyFiles
  BY Places DEF Left, PolicyFiles
<1>1. CASE todo \in {MakeAll, Do(<<"source", 0>>, Policy1), Do(<<"download", 0>>, UntarPlace),
                     Do(<<"downloaded", 0>>, UntarPlace), Do(<<"untarred", 0>>, Policy1),
                     Do(<<"rewrite", 1>>, Policy2), Do(<<"rewrite", 2>>, BuildPlace), CopyPlace,
                     Do(<<"copied", 0>>, AfterKeystone)}
  <2>1. PICK name \in {"keystone", "source", "download", "downloaded", "untarred", "rewrite", "copy", "copied"} :
          \E a, t : todo = Do(<<name, a>>, t) /\ IsList(t)
    BY <1>0, <1>1, KeystoneFront DEF CopyPlace
  <2>2. PICK a, t : todo = Do(<<name, a>>, t) /\ IsList(t)
    BY <2>1
  <2> DEFINE x == <<name, a>>
  <2>3. todo = Do(x, t) /\ x[1] = name /\ IsList(t)
    BY <2>2
  <2> HIDE DEF x
  <2> QED BY <2>1, <2>3, Calm
<1>2. CASE todo = UntarPlace /\ archive = "whole"
  <2>1. \A name : At(name) <=> name = "untar"
    BY <1>0, <1>2, Turn DEF UntarPlace
  <2> QED BY <1>2, <2>1 DEF Smooth
<1>3. ASSUME NEW f \in PolicyFiles, NEW t, IsList(t), todo = Do(<<"policy", f>>, t),
             source # "partial", policy[f] # "torn"
      PROVE  Smooth
  <2> DEFINE x == <<"policy", f>>
  <2>0. todo = Do(x, t) /\ x[1] = "policy" /\ x[2] = f
    BY <1>3
  <2> HIDE DEF x
  <2>1. Arg = f /\ \A name : At(name) <=> name = "policy"
    BY <1>3, <2>0, Turn
  <2> QED BY <1>3, <2>1 DEF Smooth
<1>4. CASE todo = Policy1 /\ source # "partial" /\ Untorn(PolicyFiles)
  BY <1>0, <1>3, <1>4 DEF Policy1, Untorn
<1>5. CASE todo = Policy2 /\ source # "partial" /\ Untorn({2})
  BY <1>0, <1>3, <1>5 DEF Policy2, Untorn
<1>6. CASE todo = BuildPlace /\ source # "partial"
  <2>1. \A name : At(name) <=> name = "build"
    BY <1>0, <1>6, Turn DEF BuildPlace
  <2> QED BY <1>6, <2>1 DEF Smooth
<1> QED BY <1>1, <1>2, <1>4, <1>5, <1>6 DEF KeystoneWay

LEMMA SmoothExtracting ==
    ASSUME BuildInv, CacheGood, NEW s \in Sources, NEW t, Left(t), Extracting(s, t)
    PROVE  Smooth
<1> DEFINE u == Do(<<"unpack", s>>, t)
<1>0. IsList(t) /\ IsList(u)
  BY DoFacts DEF Left
<1> HIDE DEF u
<1>1. ASSUME NEW name \in {"extract", "move", "unpack"}, NEW r, IsList(r), todo = Do(<<name, s>>, r)
      PROVE  Smooth
  <2> DEFINE x == <<name, s>>
  <2>1. todo = Do(x, r) /\ x[1] = name
    BY <1>1
  <2> HIDE DEF x
  <2> QED BY <1>1, <2>1, Calm
<1>2. ASSUME NEW name \in {"fetch", "hash"}, todo = Do(<<name, s>>, u)
      PROVE  Smooth
  <2> DEFINE x == <<name, s>>
  <2>1. todo = Do(x, u) /\ x[1] = name /\ x[2] = s
    BY <1>2
  <2> HIDE DEF x
  <2>2. Arg = s /\ (\A n : At(n) <=> n = name) /\ todo # <<>> /\ Head(todo) = x
    BY <1>0, <2>1, Turn, DoFacts
  <2>3. cached[ArchiveName(s)] \in {0, pin[s]}
    BY DEF CacheGood
  <2>4. name = "hash" => cached[ArchiveName(s)] # 0
    BY <2>1, <2>2 DEF BuildInv, AgendaInv, Ready
  <2> QED BY <2>2, <2>3, <2>4 DEF Smooth
<1> QED BY <1>0, <1>1, <1>2 DEF Extracting, u

LEMMA SmoothCompile ==
    ASSUME NEW s, NEW t, IsList(t), todo = Do(<<"compile", s>>, t), torn = {}
    PROVE  Smooth
<1>1. \A name : At(name) <=> name = "compile"
  BY Turn
<1> QED BY <1>1 DEF Smooth

LEMMA PinsBuild ==
    ASSUME TypeOK, NEW c \in Closures, LibsPinned(SourcesOf(c))
    PROVE  Built(c)
<1>1. ASSUME NEW s \in SourcesOf(c) PROVE libs[s] # 0
  <2>1. s \in Sources /\ libs[s] = pin[s]
    BY SourceFacts DEF LibsPinned
  <2> QED BY <2>1, SourceAssumption DEF TypeOK, ClosuresOK, Versions
<1> QED BY <1>1 DEF Built

LEMMA SmoothVerify ==
    ASSUME TypeOK, NEW c \in Closures, NEW t, Left(t), Verifying(c, t)
    PROVE  Smooth
<1>0. IsList(t)
  BY DEF Left
<1>1. CASE todo = ReportPlace(c, t)
  <2> DEFINE x == <<"report", c>>
  <2>1. todo = Do(x, t) /\ x[1] = "report"
    BY <1>1 DEF ReportPlace
  <2> HIDE DEF x
  <2> QED BY <1>0, <2>1, Calm
<1>2. CASE todo = VerifyPlace(c, t)
  <2> DEFINE x == <<"verify", c>>
  <2>1. todo = Do(x, t) /\ x[1] = "verify" /\ x[2] = c
    BY <1>2 DEF VerifyPlace
  <2> HIDE DEF x
  <2>2. Arg = c /\ \A name : At(name) <=> name = "verify"
    BY <1>0, <2>1, Turn
  <2>3. Built(c)
    BY PinsBuild DEF Verifying
  <2> QED BY <2>2, <2>3 DEF Smooth
<1> QED BY <1>1, <1>2 DEF Verifying

LEMMA SmoothLibass ==
    ASSUME BuildInv, CacheGood, LibassStage
    PROVE  Smooth
<1>0. TypeOK /\ "libass" \in Closures
  BY DEF BuildInv, Closures
<1>1. CASE todo \in {AfterKeystone, Do(<<"reset", 0>>, RemovedPlace), RemovedPlace}
  <2>1. PICK name \in {"deps", "reset", "removed"} : \E t : todo = Do(<<name, 0>>, t) /\ IsList(t)
    BY <1>1, Places DEF AfterKeystone, RemovedPlace, Left
  <2>2. PICK t : todo = Do(<<name, 0>>, t) /\ IsList(t)
    BY <2>1
  <2> DEFINE x == <<name, 0>>
  <2>3. todo = Do(x, t) /\ x[1] = name /\ IsList(t)
    BY <2>2
  <2> HIDE DEF x
  <2> QED BY <2>1, <2>3, Calm
<1>2. ASSUME TreesPinned, NEW n \in 1..(Len(BuildOrder) + 1), AtLibrary(n) PROVE Smooth
  <2>1. CASE todo = LibrariesFrom(n)
    <3> DEFINE x == <<"libraries", n>>
    <3>1. todo = Do(x, AfterLibass) /\ x[1] = "libraries" /\ IsList(AfterLibass)
      BY <2>1, Places DEF LibrariesFrom, Left
    <3> HIDE DEF x
    <3> QED BY <3>1, Calm
  <2>2. CASE n <= Len(BuildOrder) /\ Extracting(BuildOrder[n], CompileNth(n))
    <3>1. BuildOrder[n] \in Sources /\ Left(CompileNth(n))
      BY <2>2, SourceFacts, Places
    <3> QED BY <2>2, <3>1, SmoothExtracting
  <2>3. CASE todo = CompileNth(n)
    <3>1. torn = {} /\ IsList(LibrariesFrom(n + 1))
      BY <1>2, Places DEF TreesPinned, Left
    <3> QED BY <2>3, <3>1, SmoothCompile DEF CompileNth
  <2> QED BY <1>2, <2>1, <2>2, <2>3 DEF AtLibrary
<1>3. CASE Verifying("libass", AfterLibass)
  BY <1>0, <1>3, SmoothVerify, Places
<1> QED BY <1>1, <1>2, <1>3 DEF LibassStage

LEMMA SmoothFfmpeg ==
    ASSUME BuildInv, CacheGood, LibassMade, FfmpegStage
    PROVE  Smooth
<1>0. TypeOK /\ torn = {} /\ "ffmpeg" \in Closures /\ Ffmpeg \in Sources
  BY Apart DEF BuildInv, LibassMade, TreesPinned
<1>1. CASE todo \in {AfterLibass, ClearFfmpeg}
  <2>1. PICK x, t : todo = Do(x, t) /\ IsList(t) /\ x[1] \in {"ffmpeg", "clear"}
    <3>1. IsList(AfterFfmpeg) /\ IsList(CompileFfmpeg)
      BY Places DEF Left
    <3> QED BY <1>1, <3>1 DEF AfterLibass, ClearFfmpeg
  <2> QED BY <2>1, Calm
<1>2. CASE Extracting(Ffmpeg, ClearFfmpeg)
  BY <1>0, <1>2, SmoothExtracting, Places
<1>3. CASE todo = CompileFfmpeg
  <2>1. IsList(VerifyPlace("ffmpeg", AfterFfmpeg))
    BY Places DEF Left
  <2> QED BY <1>0, <1>3, <2>1, SmoothCompile DEF CompileFfmpeg
<1>4. CASE Verifying("ffmpeg", AfterFfmpeg)
  BY <1>0, <1>4, SmoothVerify, Places
<1> QED BY <1>1, <1>2, <1>3, <1>4 DEF FfmpegStage

LEMMA SmoothCore ==
    ASSUME BuildInv, CacheGood, FfmpegMade, CoreStage
    PROVE  Smooth
<1>0. /\ TypeOK /\ torn = {} /\ "ffmpeg-core" \in Closures /\ FfmpegCore \in Sources /\ Dav1d \in Sources
  BY Apart DEF BuildInv, FfmpegMade, LibassMade, TreesPinned
<1>1. CASE todo = AfterFfmpeg
  <2>1. IsList(AfterCore)
    BY Places DEF Left
  <2> QED BY <1>1, <2>1, Calm DEF AfterFfmpeg
<1>2. CASE todo = ClearCore
  <2>1. IsList(Do(<<"extract", Dav1d>>, CompileDav1d))
    BY Places, DoFacts DEF Left
  <2> QED BY <1>2, <2>1, Calm DEF ClearCore
<1>3. CASE tree[FfmpegCore] = pin[FfmpegCore] /\ todo = ReleasePlace
  <2>1. IsList(ClearCore)
    BY Places DEF Left
  <2>2. Arg = FfmpegCore /\ \A name : At(name) <=> name = "release"
    BY <1>3, <2>1, Turn DEF ReleasePlace
  <2>3. pin[FfmpegCore] \in NamedIn[tree[FfmpegCore]]
    BY <1>3, ReleaseAssumption, SourceFacts DEF BuildInv, TypeOK, ClosuresOK
  <2> QED BY <1>0, <2>2, <2>3 DEF Smooth
<1>4. CASE Extracting(FfmpegCore, ReleasePlace)
  BY <1>0, <1>4, SmoothExtracting, Places
<1>5. CASE Extracting(Dav1d, CompileDav1d)
  BY <1>0, <1>5, SmoothExtracting, Places
<1>6. CASE todo = CompileDav1d
  <2>1. IsList(CompileCore)
    BY Places DEF Left
  <2> QED BY <1>0, <1>6, <2>1, SmoothCompile DEF CompileDav1d
<1>7. CASE todo = CompileCore
  <2>1. IsList(VerifyPlace("ffmpeg-core", AfterCore))
    BY Places DEF Left
  <2> QED BY <1>0, <1>7, <2>1, SmoothCompile DEF CompileCore
<1>8. CASE Verifying("ffmpeg-core", AfterCore)
  BY <1>0, <1>8, SmoothVerify, Places
<1> QED BY <1>1, <1>2, <1>3, <1>4, <1>5, <1>6, <1>7, <1>8 DEF CoreStage

\* What a closure that is pinned is linked into passes its checks.
LEMMA PinsPass ==
    ASSUME TypeOK, NEW b \in Bridges, dylib[b] = Pins(ClosureOf[b])
    PROVE  ~ Fails(b)
<1>1. PICK s : s \in SourcesOf(ClosureOf[b]) /\ s \in Sources
  <2>1. ClosureOf[b] \in {"libass", "ffmpeg", "ffmpeg-core"}
    BY BridgeAssumption DEF Closures
  <2>2. BuildOrder[1] \in SourcesOf("libass") /\ BuildOrder[1] \in Sources
    <3>1. 1 \in 1..Len(BuildOrder)
      BY SourceAssumption
    <3> QED BY <3>1, SourceFacts, SourceAssumption DEF SourcesOf, Range
  <2> QED BY <2>1, <2>2, Apart
<1>2. pin[s] \in Nat /\ pin[s] # 0 /\ pin[s] # Bad
  BY <1>1, SourceAssumption DEF TypeOK, ClosuresOK, Versions, Bad
<1>3. Pins(ClosureOf[b])[s] = pin[s] /\ NoDylib(b)[s] = 0 /\ Defective(b)[s] = Bad
  BY <1>1 DEF Pins, NoDylib, Defective
<1> QED BY <1>2, <1>3 DEF Fails

LEMMA SmoothBridge ==
    ASSUME BuildInv, CoreMade, BridgeStage, SoundlyLinked
    PROVE  Smooth
<1>0. TypeOK /\ IsList(AfterBridges)
  BY Places DEF BuildInv
<1>1. ASSUME NEW n, todo = BridgesFrom(n) PROVE Smooth
  <2> DEFINE x == <<"bridges", n>>
  <2>1. todo = Do(x, AfterBridges) /\ x[1] = "bridges"
    BY <1>1 DEF BridgesFrom
  <2> HIDE DEF x
  <2> QED BY <1>0, <2>1, Calm
<1>2. ASSUME NEW n \in 1..(Len(BridgeOrder) + 1), AtBridge(n) PROVE Smooth
  <2> DEFINE b == BridgeOrder[n]
  <2>1. b \in Bridges
    BY <1>2, BridgeAssumption DEF AtBridge
  <2> HIDE DEF b
  <2>2. CASE todo \in {UnlinkPlace(n), LinkPlace(n)}
    <3>1. PICK name \in {"unlink", "link"} : \E t : todo = Do(<<name, b>>, t) /\ IsList(t)
      BY <2>2, Places DEF UnlinkPlace, LinkPlace, Left, b
    <3>2. PICK t : todo = Do(<<name, b>>, t) /\ IsList(t)
      BY <3>1
    <3> DEFINE x == <<name, b>>
    <3>3. todo = Do(x, t) /\ x[1] = name /\ IsList(t)
      BY <3>2
    <3> HIDE DEF x
    <3> QED BY <3>1, <3>3, Calm
  <2>3. CASE todo = LoadPlace(n)
    <3> DEFINE x == <<"load", b>>
    <3>1. todo = Do(x, UnlinkPlace(n)) /\ x[1] = "load" /\ x[2] = b /\ IsList(UnlinkPlace(n))
      BY <2>3, Places DEF LoadPlace, Left, b
    <3> HIDE DEF x
    <3>2. Arg = b /\ \A name : At(name) <=> name = "load"
      BY <3>1, Turn
    <3>3. ClosureOf[b] \in {"libass", "ffmpeg", "ffmpeg-core"} /\ ClosureOf[b] \in Closures
      BY <2>1, BridgeAssumption DEF Closures
    <3>4. ClosureMade(ClosureOf[b])
      BY <3>3 DEF CoreMade, FfmpegMade, LibassMade
    <3>5. Loadable(ClosureOf[b])
      BY <1>0, <3>3, <3>4, PinsBuild DEF ClosureMade, Loadable
    <3> QED BY <3>2, <3>5 DEF Smooth
  <2>4. CASE todo = CheckPlace(n)
    <3> DEFINE x == <<"check", b>>
    <3>1. todo = Do(x, BridgesFrom(n + 1)) /\ x[1] = "check" /\ x[2] = b /\ IsList(BridgesFrom(n + 1))
      BY <2>4, Places DEF CheckPlace, Left, b
    <3> HIDE DEF x
    <3>2. Arg = b /\ \A name : At(name) <=> name = "check"
      BY <3>1, Turn
    <3>3. ~ Fails(b)
      BY <1>0, <2>1, <3>2, PinsPass DEF SoundlyLinked
    <3> QED BY <3>2, <3>3 DEF Smooth
  <2> QED BY <1>2, <2>2, <2>3, <2>4 DEF AtBridge
<1> QED BY <1>1, <1>2 DEF BridgeStage

LEMMA SmoothWay ==
    ASSUME BuildInv, OnWay
    PROVE  Smooth
BY SmoothKeystone, SmoothLibass, SmoothFfmpeg, SmoothCore, SmoothBridge DEF OnWay

\* An operation that cannot fail by itself, and no fault left: it does not fail.
LEMMA NoStop ==
    ASSUME Next, Smooth, faults = 0, todo # <<>>
    PROVE  UNCHANGED <<command, faults>>
<1> DEFINE Kept == UNCHANGED <<command, faults>>
<1>1. ~ Start /\ ~ Repin /\ ~ Interrupt /\ ~ BadDelivery /\ ~ BadLink
  BY DEF Start, Repin, Idle, Interrupt, BadDelivery, BadLink
<1>2. KeystoneStep => Kept
  <2>1. Bootstrap \/ FindSource \/ Download \/ Downloaded \/ Untarred \/ RewritePolicy \/ CopyLibrary
            \/ LibraryCopied => Kept
    BY DEF Bootstrap, FindSource, Download, Downloaded, Untarred, RewritePolicy, CopyLibrary,
       LibraryCopied, Then
  <2>2. Untar => Kept
    BY DEF Untar, Smooth, Then
  <2>3. EditPolicy => Kept
    BY DEF EditPolicy, Smooth, Then
  <2>4. BuildKeystone => Kept
    BY DEF BuildKeystone, Smooth, Then
  <2> QED BY <2>1, <2>2, <2>3, <2>4 DEF KeystoneStep
<1>3. ClosureStep => Kept
  <2>1. BuildLibass \/ Libraries \/ BuildFfmpeg \/ BuildFfmpegCore \/ Reset \/ Removed \/ Extract
            \/ Move \/ Unpack \/ Clear \/ ReportClosure => Kept
    BY DEF BuildLibass, Libraries, BuildFfmpeg, BuildFfmpegCore, Reset, Removed, Extract, Move,
       Unpack, Clear, ReportClosure, Then
  <2>2. Fetch => Kept
    BY DEF Fetch, Smooth, Then
  <2>3. Hash => Kept
    BY DEF Hash, Smooth, Then
  <2>4. Release => Kept
    BY DEF Release, Smooth, Then
  <2>5. Compile => Kept
    BY DEF Compile, Smooth, Then
  <2>6. VerifyClosure => Kept
    BY DEF VerifyClosure, Smooth, Then
  <2> QED BY <2>1, <2>2, <2>3, <2>4, <2>5, <2>6 DEF ClosureStep
<1>4. BridgeStep => Kept
  <2>1. NextBridge \/ NextCheck \/ CompileDylib \/ LinkDylib => Kept
    BY DEF NextBridge, NextCheck, CompileDylib, LinkDylib, Then
  <2>2. LoadClosure => Kept
    BY DEF LoadClosure, Smooth, Then
  <2>3. VerifyDylib => Kept
    BY DEF VerifyDylib, Smooth, Then
  <2> QED BY <2>1, <2>2, <2>3 DEF BridgeStep
<1> QED BY <1>1, <1>2, <1>3, <1>4 DEF Next, Step

\* Without a fault and without a failure the cache stays good.
LEMMA CacheStays ==
    ASSUME BuildInv, Next, CacheGood, todo # <<>>, faults = 0, command' # <<>>
    PROVE  CacheGood'
<1>0. ASSUME UNCHANGED <<pin, cached>> PROVE CacheGood'
  BY <1>0 DEF CacheGood, ArchiveName
<1>1. ~ Start /\ ~ Repin /\ ~ Interrupt /\ ~ BadDelivery /\ ~ BadLink /\ ~ Stop
  BY GoesOn DEF Start, Repin, Idle, Interrupt, BadDelivery, BadLink
<1>2. CASE UNCHANGED closures
  BY <1>0, <1>2 DEF closures
<1>3. CASE Move
  <2>1. Arg \in Sources /\ TypeOK /\ pin[Arg] \in Stock \cup {Bad}
    BY <1>3, ArgFacts, SourceFacts DEF Move, At, BuildInv, TypeOK, ClosuresOK
  <2>2. cached' = [cached EXCEPT ![ArchiveName(Arg)] = pin[Arg]] /\ UNCHANGED pin
    BY <1>3 DEF Move
  <2>3. cached'[ArchiveName(Arg)] = pin[Arg]
    BY <2>1, <2>2, CacheOK
  <2>4. ASSUME NEW s \in Sources, s # Arg PROVE cached'[ArchiveName(s)] = cached[ArchiveName(s)]
    <3>1. ArchiveName(s) # ArchiveName(Arg) /\ ArchiveName(s) \in ArchiveNames
      BY <2>1, <2>4, CacheOK DEF ArchiveName
    <3> QED BY <2>1, <2>2, <3>1 DEF TypeOK, ClosuresOK
  <2>5. \A s \in Sources : cached'[ArchiveName(s)] \in {0, pin[s]}
    BY <2>3, <2>4 DEF CacheGood
  <2> QED BY <2>2, <2>5 DEF CacheGood, ArchiveName
<1>4. CASE ClosureStep /\ ~ Move
  <2>1. UNCHANGED <<pin, cached>>
    BY <1>1, <1>4 DEF ClosureStep, BuildLibass, Libraries, BuildFfmpeg, BuildFfmpegCore, Reset,
       Removed, Extract, Fetch, Hash, Unpack, Release, Clear, Compile, VerifyClosure, ReportClosure,
       closures
  <2> QED BY <1>0, <2>1
<1> QED BY <1>1, <1>2, <1>3, <1>4 DEF Next, Step

\* Without a fault a dylib is looked at as it was linked.
LEMMA SoundLink ==
    ASSUME BuildInv, Next, command' # <<>>, faults = 0, CoreMade, BridgeStage, At("check")'
    PROVE  SoundlyLinked'
<1>0. /\ IsList(AfterBridges)
      /\ \A n : Left(BridgesFrom(n)) /\ Left(CheckPlace(n)) /\ Left(LinkPlace(n)) /\ Left(UnlinkPlace(n))
  BY Places
<1>1. ASSUME NEW x, NEW t, IsList(t), todo' = Do(x, t) PROVE x[1] = "check"
  BY <1>1, DoFacts DEF At
<1>2. ASSUME NEW n, todo = BridgesFrom(n) PROVE FALSE
  <2> DEFINE x == <<"bridges", n>>
  <2>1. todo = Do(x, AfterBridges) /\ x[1] = "bridges" /\ x[2] = n
    BY <1>2 DEF BridgesFrom
  <2> HIDE DEF x
  <2>2. At("bridges") /\ Tail(todo) = AfterBridges /\ Arg = n
    BY <1>0, <2>1, Turn
  <2>3. NextBridge
    BY <2>2, BridgeActs
  <2>4. CASE n > Len(BridgeOrder)
    <3>1. todo' = <<>>
      BY <2>2, <2>3, <2>4, <1>0, InFront1 DEF NextBridge, Then, AfterBridges
    <3> QED BY <3>1 DEF At
  <2>5. CASE ~ n > Len(BridgeOrder)
    <3>1. todo' = LoadPlace(n)
      BY <2>2, <2>3, <2>5, BridgeFront DEF NextBridge, Then
    <3> QED BY <1>0, <1>1, <3>1 DEF LoadPlace, Left
  <2> QED BY <2>4, <2>5
<1>3. ASSUME NEW n \in 1..(Len(BridgeOrder) + 1), AtBridge(n) PROVE SoundlyLinked'
  <2> DEFINE b == BridgeOrder[n]
  <2>1. b \in Bridges
    BY <1>3, BridgeAssumption DEF AtBridge
  <2>2. CASE todo = LoadPlace(n)
    <3>1. At("load") /\ Tail(todo) = UnlinkPlace(n)
      BY <2>2, Turn, Places DEF LoadPlace, Left
    <3>2. LoadClosure
      BY <3>1, BridgeActs
    <3>3. todo' = UnlinkPlace(n)
      BY <1>0, <3>1, <3>2, GoesOn, InFront1 DEF LoadClosure, Then, Left
    <3> QED BY <1>0, <1>1, <3>3 DEF UnlinkPlace, Left
  <2>3. CASE todo = UnlinkPlace(n)
    <3>1. At("unlink") /\ Tail(todo) = LinkPlace(n)
      BY <2>3, Turn, Places DEF UnlinkPlace, Left
    <3>2. CompileDylib
      BY <3>1, BridgeActs
    <3>3. todo' = LinkPlace(n)
      BY <1>0, <3>1, <3>2, InFront1 DEF CompileDylib, Then, Left
    <3> QED BY <1>0, <1>1, <3>3 DEF LinkPlace, Left
  <2>4. CASE todo = LinkPlace(n)
    <3>1. At("link") /\ Tail(todo) = CheckPlace(n) /\ Arg = b
      BY <2>4, Turn, Places DEF LinkPlace, Left
    <3>2. LinkDylib /\ UNCHANGED closures
      BY <3>1, BridgeActs DEF BadLink
    <3>3. todo' = CheckPlace(n)
      BY <1>0, <3>1, <3>2, InFront1 DEF LinkDylib, Then, Left
    <3>4. dylib'[b] = Pins(ClosureOf[b])
      BY <2>1, <3>1, <3>2, LinkedIsPinned DEF LinkDylib, BuildInv, TypeOK, BridgesOK
    <3>5. dylib'[b] = Pins(ClosureOf[b])'
      BY <3>2, <3>4 DEF Pins, closures
    <3>6. Head(todo') = <<"check", b>>
      BY <1>0, <3>3, DoFacts DEF CheckPlace, Left
    <3> QED BY <3>5, <3>6 DEF SoundlyLinked, Arg
  <2>5. CASE todo = CheckPlace(n)
    <3>1. At("check") /\ Tail(todo) = BridgesFrom(n + 1)
      <4>1. IsList(BridgesFrom(n + 1))
        BY Places DEF Left
      <4> QED BY <2>5, <4>1, Turn DEF CheckPlace
    <3>2. VerifyDylib
      BY <3>1, BridgeActs
    <3>3. todo' = BridgesFrom(n + 1)
      BY <1>0, <3>1, <3>2, GoesOn, InFront1 DEF VerifyDylib, Then, Left
    <3> QED BY <1>0, <1>1, <3>3 DEF BridgesFrom
  <2> QED BY <1>3, <2>2, <2>3, <2>4, <2>5 DEF AtBridge
<1> QED BY <1>2, <1>3 DEF BridgeStage

LEMMA WayStep ==
    ASSUME MakeInv, Next, OnWay
    PROVE  OnWay' \/ (outcome' = "ok" /\ command' = MakeAll)
<1>1. BuildInv /\ Smooth /\ todo # <<>>
  <2>1. BuildInv
    BY DEF MakeInv
  <2>2. Progress
    BY DEF OnWay, MakeInv, ProgressInv
  <2> QED BY <2>1, <2>2, SmoothWay, Going
<1>2. command' = MakeAll /\ faults' = 0 /\ MakeAll # <<>>
  BY <1>1, NoStop DEF OnWay, MakeAll
<1>3. outcome' = "ok" \/ outcome' = "running"
  BY <1>1, <1>2, Outcomes DEF OnWay
<1>4. CacheGood'
  BY <1>1, <1>2, CacheStays DEF OnWay
<1>5. CASE KeystoneWay
  <2>1. KeystoneWay' \/ (Bootstrapped /\ LibassStage)'
    BY <1>1, <1>2, <1>5, KeystoneWayStep DEF LibassStage
  <2> QED BY <1>2, <1>3, <1>4, <2>1 DEF OnWay
<1>6. CASE Bootstrapped /\ LibassStage
  <2>1. (Bootstrapped /\ LibassStage)' \/ (LibassMade /\ FfmpegStage)'
    BY <1>1, <1>2, <1>6, LibassStageStep DEF FfmpegStage
  <2> QED BY <1>2, <1>3, <1>4, <2>1 DEF OnWay
<1>7. CASE LibassMade /\ FfmpegStage
  <2>1. (LibassMade /\ FfmpegStage)' \/ (FfmpegMade /\ CoreStage)'
    BY <1>1, <1>2, <1>7, FfmpegStageStep DEF CoreStage
  <2> QED BY <1>2, <1>3, <1>4, <2>1 DEF OnWay
<1>8. CASE FfmpegMade /\ CoreStage
  <2>1. ASSUME todo' = AfterCore PROVE (BridgeStage /\ SoundlyLinked)'
    <3>1. 1 \in 1..(Len(BridgeOrder) + 1) /\ IsList(AfterBridges)
      BY BridgeAssumption, Places
    <3>2. todo' = BridgesFrom(1)
      BY <2>1 DEF AfterCore
    <3>3. ~ At("check")'
      BY <3>1, <3>2, DoFacts DEF BridgesFrom, At
    <3> QED BY <3>1, <3>2, <3>3 DEF BridgeStage, SoundlyLinked
  <2>2. (FfmpegMade /\ CoreStage)' \/ (CoreMade /\ BridgeStage /\ SoundlyLinked)'
    BY <1>1, <1>2, <1>8, <2>1, CoreStageStep
  <2> QED BY <1>2, <1>3, <1>4, <2>2 DEF OnWay
<1>9. CASE CoreMade /\ BridgeStage /\ SoundlyLinked
  <2>1. CoreMade' /\ (BridgeStage' \/ outcome' = "ok")
    BY <1>1, <1>2, <1>9, BridgeStageStep
  <2>2. SoundlyLinked'
    <3>1. CASE At("check")'
      BY <1>1, <1>2, <1>9, <3>1, SoundLink DEF OnWay
    <3>2. CASE ~ At("check")'
      BY <3>2 DEF SoundlyLinked
    <3> QED BY <3>1, <3>2
  <2> QED BY <1>2, <1>3, <1>4, <2>1, <2>2 DEF OnWay
<1> QED BY <1>5, <1>6, <1>7, <1>8, <1>9 DEF OnWay

\* The safety half of MakeRecovers: a full build that starts on a disk that is not
\* damaged, with no fault to come, never fails on the way: whatever earlier
\* commands have left, every operation it comes to finds what it needs, until the
\* build has succeeded (keystone.py, build_deps.py, build_ffmpeg.py,
\* build_ffmpeg_core.py, build_bridge.py: main).
THEOREM UndisturbedBuildSucceeds ==
    Spec => /\ [](command = MakeAll /\ todo = MakeAll /\ faults = 0 /\ ~ Damaged => OnWay)
            /\ [][OnWay => OnWay' \/ (outcome' = "ok" /\ command' = MakeAll)]_vars
<1>1. MakeInv => (command = MakeAll /\ todo = MakeAll /\ faults = 0 /\ ~ Damaged => OnWay)
  <2> SUFFICES ASSUME MakeInv, command = MakeAll, todo = MakeAll, faults = 0, ~ Damaged PROVE OnWay
    OBVIOUS
  <2>1. outcome = "running"
    BY DEF MakeInv, ProgressInv, MakeAll
  <2>2. CacheGood /\ KeystoneWay
    BY DEF Damaged, CacheGood, KeystoneWay, Workable, Untorn
  <2> QED BY <2>1, <2>2 DEF OnWay
<1>2. MakeInv /\ [Next]_vars => [OnWay => OnWay' \/ (outcome' = "ok" /\ command' = MakeAll)]_vars
  BY WayStep
<1> QED BY MakeInvariance, <1>1, <1>2, PTL DEF Spec
=============================================================================
