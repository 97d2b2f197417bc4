------------------------------- MODULE Rewrite ------------------------------
(***************************************************************************)
(* The rewriting of the main executable: preflight, phase A, which freezes *)
(* the layout, phase B, which fills in the payload and redirects the call  *)
(* sites, and verify_main, which judges the file that was shipped.         *)
(*                                                                         *)
(* An image is the words of __TEXT,__text, the weak dylibs added to it and *)
(* the payload; of the payload only the veneers matter here: where each    *)
(* is, and the branch with which it goes back while its unit is OLD.       *)
(***************************************************************************)
EXTENDS BranchCode, Sequences, Functions

CONSTANTS
    Addresses,      \* the words of __TEXT,__text
    Baselines,      \* what the frozen main may hold there
    Jobs,           \* manifests, with the selected dylibs
    Strays,         \* the words that may stand in a damaged image
    None

\* A job: the dylibs it adds, the APIs of their units, their call sites, the
\* words it replaces besides, and the size of the payload.  Veneers are in the
\* segment that is added, where no old target is.
ASSUME RewriteAssumption ==
    /\ Addresses \subseteq Nat
    /\ Strays \subseteq Word
    /\ Baselines \subseteq [Addresses -> Word]
    /\ \A j \in Jobs :
        /\ DOMAIN j = {"dylibs", "apis", "sites", "extras", "size"}
        /\ j.apis \in Seq([old : Nat, veneer : Nat])
        /\ \A i, k \in DOMAIN j.apis : j.apis[i].veneer # j.apis[k].old
        /\ j.sites \in Seq([at : Addresses, api : DOMAIN j.apis])
        /\ j.extras \in Seq([at : Addresses, expected : Word, replacement : Word])
        /\ j.size \in Nat

VARIABLES
    baseline,       \* the words of the clean main
    job,            \* what is asked for
    phase,          \* the loop, or the verdict, npa-patch is at
    next,           \* the site or extra the loop looks at
    layout,         \* the file phase A left: [dylibs, size]
    origin,         \* "own" or "earlier": the run that left it (history)
    buffer,         \* phase B's copy of the words
    writes,         \* the addresses it has noted as written
    output,         \* the file phase B left
    shipped         \* the file that is verified

vars == <<baseline, job, phase, next, layout, origin, buffer, writes, output, shipped>>
files == <<layout, origin, output, shipped>>
memory == <<buffer, writes>>

Site == job.sites[next]
Extra == job.extras[next]
Old(s) == job.apis[s.api].old
Veneer(s) == job.apis[s.api].veneer
SiteAddresses(j) == {j.sites[i].at : i \in DOMAIN j.sites}
ExtraAddresses(j) == {j.extras[i].at : i \in DOMAIN j.extras}

\* The word is a branch to the API's old target, as far as one can be encoded.
IsFrozenBranch(word, s) ==
    /\ word.op \in BRANCH_OPCODES
    /\ Encodable(s.at, Old(s))
    /\ word = EncodeBranch(word.op, s.at, Old(s))

\* The payload can be assembled: no call site has two owners, every veneer
\* reaches its old target and every site its veneer.
Assembles(j) ==
    /\ IsInjective([i \in DOMAIN j.sites |-> j.sites[i].at])
    /\ \A i \in DOMAIN j.apis : Encodable(j.apis[i].veneer, j.apis[i].old)
    /\ \A i \in DOMAIN j.sites : Encodable(j.sites[i].at, j.apis[j.sites[i].api].veneer)

Payload(j) ==
    [i \in DOMAIN j.apis |->
        [veneer |-> j.apis[i].veneer,
         back   |-> EncodeBranch("b", j.apis[i].veneer, j.apis[i].old)]]

\* The layouts, dylibs and payloads there may be.
Layouts == {[dylibs |-> j.dylibs, size |-> j.size] : j \in Jobs}
Dylibs == {j.dylibs : j \in Jobs}
Payloads == {Payload(j) : j \in Jobs}

Images == [words : [Addresses -> Word], dylibs : Dylibs, payload : Payloads]
ASSUME NoFile == None \notin Layouts /\ None \notin Images

Init ==
    /\ baseline \in Baselines
    /\ job \in Jobs
    /\ phase = "checkExtras" /\ next = 1
    /\ layout = None /\ origin = "own" /\ output = None /\ shipped = None
    /\ buffer = baseline /\ writes = {}

Goto(p) == phase' = p /\ next' = 1
Continue == next' = next + 1 /\ UNCHANGED phase

-----------------------------------------------------------------------------
\* preflight

CheckExtra ==
    /\ phase = "checkExtras" /\ next \in DOMAIN job.extras
    /\ IF baseline[Extra.at] = Extra.expected THEN Continue ELSE Goto("refused")
    /\ UNCHANGED <<baseline, job, files, memory>>

CheckSites ==
    /\ phase = "checkExtras" /\ next \notin DOMAIN job.extras
    /\ Goto("checkSites")
    /\ UNCHANGED <<baseline, job, files, memory>>

\* Mutant: any branch will do.
CheckSiteIsBranch ==
    /\ phase = "checkSites" /\ next \in DOMAIN job.sites
    /\ IF baseline[Site.at].op \in BRANCH_OPCODES THEN Continue ELSE Goto("refused")
    /\ UNCHANGED <<baseline, job, files, memory>>

CheckSite ==
    /\ phase = "checkSites" /\ next \in DOMAIN job.sites
    /\ IF IsFrozenBranch(baseline[Site.at], Site) THEN Continue ELSE Goto("refused")
    /\ UNCHANGED <<baseline, job, files, memory>>

-----------------------------------------------------------------------------
\* phase A: the segments are reserved for this payload, the dylibs added.
PhaseA ==
    /\ phase = "checkSites" /\ next \notin DOMAIN job.sites
    /\ IF Assembles(job)
       THEN Goto("frozen") /\ layout' = [dylibs |-> job.dylibs, size |-> job.size]
       ELSE Goto("refused") /\ UNCHANGED layout
    /\ UNCHANGED <<baseline, job, origin, output, shipped, memory>>

\* Phase B as a command of its own takes the layout an earlier phase A left,
\* which may have been for another selection.
StaleLayout ==
    /\ phase = "checkExtras" /\ next = 1
    /\ layout' \in Layouts
    /\ origin' = "earlier"
    /\ Goto("frozen")
    /\ UNCHANGED <<baseline, job, output, shipped, memory>>

\* phase B

\* Mutant: nobody looks whether two units claim a site.
OpenLayoutUnchecked ==
    /\ phase = "frozen"
    /\ Goto(IF job.size <= layout.size THEN "redirect" ELSE "failed")
    /\ buffer' = baseline /\ writes' = {}
    /\ UNCHANGED <<baseline, job, files>>

OpenLayout ==
    /\ phase = "frozen"
    /\ Goto(IF Assembles(job) /\ job.size <= layout.size THEN "redirect" ELSE "failed")
    /\ buffer' = baseline /\ writes' = {}
    /\ UNCHANGED <<baseline, job, files>>

\* Mutant: every site becomes a call.
RedirectSiteAsCall ==
    /\ phase = "redirect" /\ next \in DOMAIN job.sites
    /\ IF IsFrozenBranch(buffer[Site.at], Site)
       THEN /\ buffer' = [buffer EXCEPT ![Site.at] = EncodeBranch("bl", Site.at, Veneer(Site))]
            /\ writes' = writes \cup {Site.at}
            /\ Continue
       ELSE Goto("failed") /\ UNCHANGED memory
    /\ UNCHANGED <<baseline, job, files>>

\* A site keeps its opcode: a tail call stays one.
RedirectSite ==
    /\ phase = "redirect" /\ next \in DOMAIN job.sites
    /\ IF IsFrozenBranch(buffer[Site.at], Site)
       THEN /\ buffer' = [buffer EXCEPT ![Site.at] =
                             EncodeBranch(buffer[Site.at].op, Site.at, Veneer(Site))]
            /\ writes' = writes \cup {Site.at}
            /\ Continue
       ELSE Goto("failed") /\ UNCHANGED memory
    /\ UNCHANGED <<baseline, job, files>>

ReplaceExtras ==
    /\ phase = "redirect" /\ next \notin DOMAIN job.sites
    /\ Goto("replace")
    /\ UNCHANGED <<baseline, job, files, memory>>

ReplaceExtra ==
    /\ phase = "replace" /\ next \in DOMAIN job.extras
    /\ IF buffer[Extra.at] = Extra.expected
       THEN /\ buffer' = [buffer EXCEPT ![Extra.at] = Extra.replacement]
            /\ writes' = writes \cup {Extra.at}
            /\ Continue
       ELSE Goto("failed") /\ UNCHANGED memory
    /\ UNCHANGED <<baseline, job, files>>

\* _assert_intended_writes, then the file appears as a whole.
WriteOutput ==
    /\ phase = "replace" /\ next \notin DOMAIN job.extras
    /\ IF \A a \in Addresses \ writes : buffer[a] = baseline[a]
       THEN /\ output' = [words |-> buffer, dylibs |-> layout.dylibs, payload |-> Payload(job)]
            /\ Goto("written")
       ELSE Goto("failed") /\ UNCHANGED output
    /\ UNCHANGED <<baseline, job, layout, origin, shipped, memory>>

-----------------------------------------------------------------------------
\* What packaging, signing and unpacking make of it: the same image, or one
\* that has a word, the dylibs or the payload of something else.
Ship ==
    /\ phase = "written"
    /\ \/ shipped' = output
       \/ \E a \in Addresses, w \in Strays : shipped' = [output EXCEPT !.words[a] = w]
       \/ \E d \in Dylibs : shipped' = [output EXCEPT !.dylibs = d]
       \/ \E p \in Payloads : shipped' = [output EXCEPT !.payload = p]
    /\ Goto("verify")
    /\ UNCHANGED <<baseline, job, layout, origin, output, memory>>

\* Mutant: the set of changed instructions is not compared.
MainChecksSites(image) ==
    /\ image.dylibs = job.dylibs
    /\ Assembles(job) /\ image.payload = Payload(job)
    /\ \A i \in DOMAIN job.sites :
           LET s == job.sites[i]
           IN  image.words[s.at] \in {EncodeBranch(op, s.at, Veneer(s)) : op \in BRANCH_OPCODES}
    /\ \A i \in DOMAIN job.extras : image.words[job.extras[i].at] = job.extras[i].replacement

\* Mutant: a site has to be a call.
MainChecksCalls(image) ==
    /\ image.dylibs = job.dylibs
    /\ Assembles(job) /\ image.payload = Payload(job)
    /\ {a \in Addresses : image.words[a] # baseline[a]} = SiteAddresses(job) \cup ExtraAddresses(job)
    /\ \A i \in DOMAIN job.sites :
           LET s == job.sites[i] IN image.words[s.at] = EncodeBranch("bl", s.at, Veneer(s))
    /\ \A i \in DOMAIN job.extras : image.words[job.extras[i].at] = job.extras[i].replacement

\* The checks of verify_main that look at more than the image alone.
MainChecks(image) ==
    /\ image.dylibs = job.dylibs
    /\ Assembles(job) /\ image.payload = Payload(job)
    /\ {a \in Addresses : image.words[a] # baseline[a]} = SiteAddresses(job) \cup ExtraAddresses(job)
    /\ \A i \in DOMAIN job.sites :
           LET s == job.sites[i]
           IN  image.words[s.at] \in {EncodeBranch(op, s.at, Veneer(s)) : op \in BRANCH_OPCODES}
    /\ \A i \in DOMAIN job.extras : image.words[job.extras[i].at] = job.extras[i].replacement

VerifyMain ==
    /\ phase = "verify"
    /\ Goto(IF MainChecks(shipped) THEN "accepted" ELSE "rejected")
    /\ UNCHANGED <<baseline, job, files, memory>>

Next ==
    \/ CheckExtra \/ CheckSites \/ CheckSite \/ PhaseA \/ StaleLayout
    \/ OpenLayout \/ RedirectSite \/ ReplaceExtras \/ ReplaceExtra \/ WriteOutput
    \/ Ship \/ VerifyMain

Spec == Init /\ [][Next]_vars

-----------------------------------------------------------------------------
\* The type invariant.
RewriteTypeOK ==
    /\ baseline \in Baselines /\ job \in Jobs
    /\ next \in Nat \ {0}
    /\ layout = None \/ layout \in Layouts
    /\ origin \in {"own", "earlier"}
    /\ buffer \in [Addresses -> Word] /\ writes \subseteq Addresses
    /\ output = None \/ output \in Images
    /\ shipped = None \/ shipped \in Images

\* Two rewrites of one word, which neither the manifest nor preflight refuses.
Overlap ==
    \/ SiteAddresses(job) \cap ExtraAddresses(job) # {}
    \/ ~IsInjective([i \in DOMAIN job.extras |-> job.extras[i].at])

\* What phase B leaves is exact: a call stays a call and a tail call a tail
\* call, each goes to its API's veneer, the extra words are the replacements,
\* and no other instruction differs from the clean main.
OutputExact ==
    output # None /\ ~Overlap =>
        /\ \A i \in DOMAIN job.sites :
               LET s == job.sites[i]
               IN  /\ output.words[s.at].op = baseline[s.at].op
                   /\ Target(output.words[s.at], s.at) = Veneer(s)
        /\ \A i \in DOMAIN job.extras : output.words[job.extras[i].at] = job.extras[i].replacement
        /\ \A a \in Addresses \ (SiteAddresses(job) \cup ExtraAddresses(job)) :
               output.words[a] = baseline[a]

\* What verify_main accepts, whatever packaging made of it, takes every call
\* that is dispatched OLD to where it went before the rewriting, through the
\* veneer of its API, and loads the dylibs of exactly these units.
AcceptedExact ==
    phase = "accepted" =>
        /\ \A i \in DOMAIN job.sites :
               LET s == job.sites[i]
                   v == shipped.payload[s.api]
               IN  /\ Target(shipped.words[s.at], s.at) = v.veneer
                   /\ Target(v.back, v.veneer) = Target(baseline[s.at], s.at)
        /\ shipped.dylibs = job.dylibs
        /\ \A a \in Addresses : shipped.words[a] # baseline[a] =>
               a \in SiteAddresses(job) \cup ExtraAddresses(job)

\* A manifest that passes preflight and phase A fails in phase B only when it
\* rewrites a word twice.
PreflightSuffices == phase = "failed" /\ origin = "own" => Overlap

\* A file that was shipped as phase B left it, over a layout of the same run,
\* is rejected only when a replacement is none: verify_main wants every site
\* to have changed.
RejectionsJustified ==
    phase = "rejected" /\ shipped = output /\ origin = "own" =>
        \E i \in DOMAIN job.extras : job.extras[i].replacement = job.extras[i].expected

-----------------------------------------------------------------------------
(***************************************************************************)
(* The inductive invariant: what preflight has seen, what phase B has done *)
(* so far, and what the output is made of.                                 *)
(***************************************************************************)
ExtrasSeen(X) == \A i \in X : baseline[job.extras[i].at] = job.extras[i].expected
SitesSeen(S) == \A i \in S : IsFrozenBranch(baseline[job.sites[i].at], job.sites[i])
Before(D) == {i \in D : i < next}
Redirect(s) == EncodeBranch(baseline[s.at].op, s.at, Veneer(s))

\* The words, with the sites S redirected and the extras X replaced.
Rewritten(words, S, X) ==
    /\ \A a \in Addresses :
           words[a] # baseline[a] =>
               \/ \E i \in S : a = job.sites[i].at
               \/ \E i \in X : a = job.extras[i].at
    /\ ~Overlap => /\ \A i \in S : words[job.sites[i].at] = Redirect(job.sites[i])
                   /\ \A i \in X : words[job.extras[i].at] = job.extras[i].replacement

SeenInv ==
    /\ phase \in {"checkExtras", "checkSites"} => origin = "own"
    /\ phase = "checkExtras" => ExtrasSeen(Before(DOMAIN job.extras))
    /\ phase = "checkSites" =>
           ExtrasSeen(DOMAIN job.extras) /\ SitesSeen(Before(DOMAIN job.sites))
    /\ phase \in {"frozen", "redirect", "replace"} => layout # None
    /\ phase \in {"frozen", "redirect", "replace"} /\ origin = "own" =>
           /\ ExtrasSeen(DOMAIN job.extras) /\ SitesSeen(DOMAIN job.sites)
           /\ Assembles(job) /\ layout.size = job.size
PhaseBInv ==
    /\ phase = "redirect" => SitesSeen(Before(DOMAIN job.sites))
    /\ phase = "replace" => SitesSeen(DOMAIN job.sites)
    /\ phase = "redirect" => Rewritten(buffer, Before(DOMAIN job.sites), {})
    /\ phase = "replace" => Rewritten(buffer, DOMAIN job.sites, Before(DOMAIN job.extras))
    /\ phase \in {"redirect", "replace"} =>
           Assembles(job) /\ \A a \in Addresses \ writes : buffer[a] = baseline[a]
OutputInv ==
    /\ output # None =>
           /\ Assembles(job) /\ SitesSeen(DOMAIN job.sites)
           /\ Rewritten(output.words, DOMAIN job.sites, DOMAIN job.extras)
    /\ phase = "written" => output # None
    /\ phase \in {"verify", "accepted", "rejected"} => output # None /\ shipped # None
    /\ phase = "accepted" => MainChecks(shipped)

RewriteInv == RewriteTypeOK /\ SeenInv /\ PhaseBInv /\ OutputInv /\ PreflightSuffices
=============================================================================
