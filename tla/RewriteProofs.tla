---------------------------- MODULE RewriteProofs ---------------------------
(***************************************************************************)
(* For every text, manifest and branch range: encoding and decoding agree, *)
(* RewriteInv is inductive, and what phase B writes and verify_main        *)
(* accepts is exact.                                                       *)
(***************************************************************************)
EXTENDS Rewrite, TLAPS

-----------------------------------------------------------------------------
\* The code of branches.

\* A displacement in range survives the immediate.
LEMMA Immediate ==
    ASSUME NEW x \in Int, -HalfRange <= x, x < HalfRange
    PROVE  /\ x % Modulus \in 0..(Modulus - 1)
           /\ x = IF x % Modulus < HalfRange THEN x % Modulus ELSE (x % Modulus) - Modulus
<1>1. HalfRange \in Nat \ {0} /\ Modulus = 2 * HalfRange
    BY BranchAssumption DEF Modulus
<1>2. CASE 0 <= x
  <2>1. x % Modulus = x
      BY <1>1, <1>2
  <2> QED
      BY <1>1, <1>2, <2>1
<1>3. CASE x < 0
  <2>1. x % Modulus = x + Modulus
      BY <1>1, <1>3
  <2> QED
      BY <1>1, <1>3, <2>1
<1> QED
    BY <1>2, <1>3

\* A branch that can be encoded is a word, and goes where it was meant to.
THEOREM RoundTrip ==
    ASSUME NEW op \in BRANCH_OPCODES, NEW site \in Int, NEW target \in Int,
           Encodable(site, target)
    PROVE  /\ EncodeBranch(op, site, target) \in Word
           /\ EncodeBranch(op, site, target).op = op
           /\ Target(EncodeBranch(op, site, target), site) = target
<1> DEFINE x == (target - site) \div 4
<1>1. HalfRange \in Nat
    BY BranchAssumption
<1>2. /\ target - site \in Int /\ (target - site) % 4 = 0
      /\ -(4 * HalfRange) <= target - site /\ target - site < 4 * HalfRange
    BY <1>1 DEF Encodable
<1>3. x \in Int /\ 4 * x = target - site /\ -HalfRange <= x /\ x < HalfRange
    BY <1>1, <1>2
<1>4. /\ x % Modulus \in 0..(Modulus - 1)
      /\ x = IF x % Modulus < HalfRange THEN x % Modulus ELSE (x % Modulus) - Modulus
    BY <1>3, Immediate
<1>5. EncodeBranch(op, site, target) = [op |-> op, imm |-> x % Modulus]
    BY DEF EncodeBranch
<1>6. EncodeBranch(op, site, target) \in Word
    BY <1>4, <1>5 DEF Word
<1>7. Target(EncodeBranch(op, site, target), site) = site + 4 * x
    BY <1>4, <1>5 DEF Target
<1>8. site + 4 * x = target
    BY <1>3
<1> QED
    BY <1>5, <1>6, <1>7, <1>8

-----------------------------------------------------------------------------
LEMMA Elements ==
    ASSUME NEW S, NEW q \in Seq(S)
    PROVE  /\ \A i \in DOMAIN q : q[i] \in S
           /\ DOMAIN q = 1..Len(q) /\ Len(q) \in Nat
OBVIOUS

\* What the assumption says of a job.
LEMMA JobFacts ==
    ASSUME job \in Jobs
    PROVE  /\ \A i \in DOMAIN job.sites :
                  /\ job.sites[i].at \in Addresses /\ job.sites[i].at \in Nat
                  /\ job.sites[i].api \in DOMAIN job.apis
                  /\ Old(job.sites[i]) \in Nat /\ Veneer(job.sites[i]) \in Nat
           /\ \A i \in DOMAIN job.extras :
                  /\ job.extras[i].at \in Addresses
                  /\ job.extras[i].expected \in Word /\ job.extras[i].replacement \in Word
           /\ \A i \in DOMAIN job.apis : job.apis[i].old \in Nat /\ job.apis[i].veneer \in Nat
           /\ DOMAIN job.sites = 1..Len(job.sites) /\ Len(job.sites) \in Nat
           /\ DOMAIN job.extras = 1..Len(job.extras) /\ Len(job.extras) \in Nat
           /\ job.size \in Nat
<1>1. /\ job.apis \in Seq([old : Nat, veneer : Nat])
      /\ job.sites \in Seq([at : Addresses, api : DOMAIN job.apis])
      /\ job.extras \in Seq([at : Addresses, expected : Word, replacement : Word])
      /\ Addresses \subseteq Nat /\ job.size \in Nat
    BY RewriteAssumption
<1>2. \A i \in DOMAIN job.sites : job.sites[i] \in [at : Addresses, api : DOMAIN job.apis]
    BY <1>1, Elements, Zenon
<1>3. \A i \in DOMAIN job.extras :
          job.extras[i] \in [at : Addresses, expected : Word, replacement : Word]
    BY <1>1, Elements, Zenon
<1>4. \A i \in DOMAIN job.apis : job.apis[i] \in [old : Nat, veneer : Nat]
    BY <1>1, Elements, Zenon
<1>5. DOMAIN job.sites = 1..Len(job.sites) /\ Len(job.sites) \in Nat
    BY <1>1, Elements, Zenon
<1>6. DOMAIN job.extras = 1..Len(job.extras) /\ Len(job.extras) \in Nat
    BY <1>1, Elements, Zenon
<1> QED
    BY <1>1, <1>2, <1>3, <1>4, <1>5, <1>6 DEF Old, Veneer

\* A redirected site is a word with the opcode of the site and goes to its
\* veneer.
LEMMA RedirectFacts ==
    ASSUME RewriteTypeOK, Assembles(job), NEW i \in DOMAIN job.sites,
           IsFrozenBranch(baseline[job.sites[i].at], job.sites[i])
    PROVE  /\ Redirect(job.sites[i]) \in Word
           /\ Redirect(job.sites[i]).op = baseline[job.sites[i].at].op
           /\ Target(Redirect(job.sites[i]), job.sites[i].at) = Veneer(job.sites[i])
           /\ Target(baseline[job.sites[i].at], job.sites[i].at) = Old(job.sites[i])
<1> DEFINE s == job.sites[i]
<1>1. s.at \in Int /\ Old(s) \in Int /\ Veneer(s) \in Int
    BY JobFacts DEF RewriteTypeOK
<1>2. Encodable(s.at, Veneer(s))
    BY DEF Assembles, Veneer
<1>3. /\ baseline[s.at].op \in BRANCH_OPCODES /\ Encodable(s.at, Old(s))
      /\ baseline[s.at] = EncodeBranch(baseline[s.at].op, s.at, Old(s))
    BY DEF IsFrozenBranch
<1>4. Target(EncodeBranch(baseline[s.at].op, s.at, Old(s)), s.at) = Old(s)
    BY <1>1, <1>3, RoundTrip
<1>5. /\ EncodeBranch(baseline[s.at].op, s.at, Veneer(s)) \in Word
      /\ EncodeBranch(baseline[s.at].op, s.at, Veneer(s)).op = baseline[s.at].op
      /\ Target(EncodeBranch(baseline[s.at].op, s.at, Veneer(s)), s.at) = Veneer(s)
    BY <1>1, <1>2, <1>3, RoundTrip
<1> QED
    BY <1>3, <1>4, <1>5 DEF Redirect

\* The indices before the next one.
LEMMA Prefix ==
    ASSUME NEW n \in Nat, NEW k \in Nat \ {0}
    PROVE  /\ k \in 1..n => {i \in 1..n : i < k + 1} = {i \in 1..n : i < k} \cup {k}
           /\ k \notin 1..n => {i \in 1..n : i < k} = 1..n
           /\ {i \in 1..n : i < 1} = {}
           /\ k \notin {i \in 1..n : i < k}
OBVIOUS

-----------------------------------------------------------------------------
\* The initial states, and what the steps have in common.

LEMMA SitesBefore ==
    ASSUME job \in Jobs, job' = job, next \in Nat \ {0}
    PROVE  /\ next \in DOMAIN job.sites /\ next' = next + 1 =>
                  Before(DOMAIN job.sites)' = Before(DOMAIN job.sites) \cup {next}
           /\ next \notin DOMAIN job.sites => Before(DOMAIN job.sites) = DOMAIN job.sites
           /\ next' = 1 => Before(DOMAIN job.sites)' = {}
<1>1. DOMAIN job.sites = 1..Len(job.sites) /\ Len(job.sites) \in Nat
    BY JobFacts
<1>2. /\ Before(DOMAIN job.sites) = {i \in 1..Len(job.sites) : i < next}
      /\ Before(DOMAIN job.sites)' = {i \in 1..Len(job.sites) : i < next'}
    BY <1>1 DEF Before
<1>3. ASSUME next \in DOMAIN job.sites, next' = next + 1
      PROVE  Before(DOMAIN job.sites)' = Before(DOMAIN job.sites) \cup {next}
  <2>1. Before(DOMAIN job.sites)' = {i \in 1..Len(job.sites) : i < next + 1}
      BY <1>2, <1>3
  <2> QED
      BY <1>1, <1>2, <1>3, <2>1, Prefix
<1>4. next \notin DOMAIN job.sites => Before(DOMAIN job.sites) = DOMAIN job.sites
    BY <1>1, <1>2, Prefix
<1>5. ASSUME next' = 1 PROVE Before(DOMAIN job.sites)' = {}
  <2>1. Before(DOMAIN job.sites)' = {i \in 1..Len(job.sites) : i < 1}
      BY <1>2, <1>5
  <2> QED
      BY <1>1, <2>1, Prefix
<1> QED
    BY <1>3, <1>4, <1>5

LEMMA ExtrasBefore ==
    ASSUME job \in Jobs, job' = job, next \in Nat \ {0}
    PROVE  /\ next \in DOMAIN job.extras /\ next' = next + 1 =>
                  Before(DOMAIN job.extras)' = Before(DOMAIN job.extras) \cup {next}
           /\ next \notin DOMAIN job.extras => Before(DOMAIN job.extras) = DOMAIN job.extras
           /\ next' = 1 => Before(DOMAIN job.extras)' = {}
           /\ next = 1 => Before(DOMAIN job.extras) = {}
<1>1. DOMAIN job.extras = 1..Len(job.extras) /\ Len(job.extras) \in Nat
    BY JobFacts
<1>2. /\ Before(DOMAIN job.extras) = {i \in 1..Len(job.extras) : i < next}
      /\ Before(DOMAIN job.extras)' = {i \in 1..Len(job.extras) : i < next'}
    BY <1>1 DEF Before
<1>3. ASSUME next \in DOMAIN job.extras, next' = next + 1
      PROVE  Before(DOMAIN job.extras)' = Before(DOMAIN job.extras) \cup {next}
  <2>1. Before(DOMAIN job.extras)' = {i \in 1..Len(job.extras) : i < next + 1}
      BY <1>2, <1>3
  <2> QED
      BY <1>1, <1>2, <1>3, <2>1, Prefix
<1>4. next \notin DOMAIN job.extras => Before(DOMAIN job.extras) = DOMAIN job.extras
    BY <1>1, <1>2, Prefix
<1>5. ASSUME next' = 1 PROVE Before(DOMAIN job.extras)' = {}
  <2>1. Before(DOMAIN job.extras)' = {i \in 1..Len(job.extras) : i < 1}
      BY <1>2, <1>5
  <2> QED
      BY <1>1, <2>1, Prefix
<1>6. next = 1 => Before(DOMAIN job.extras) = {}
    BY <1>1, <1>2, Prefix
<1> QED
    BY <1>3, <1>4, <1>5, <1>6

LEMMA InitRewrite == Init => RewriteInv
<1> SUFFICES ASSUME Init PROVE RewriteInv
    OBVIOUS
<1>1. baseline \in [Addresses -> Word]
    BY RewriteAssumption DEF Init
<1>2. RewriteTypeOK
  <2>1. buffer \in [Addresses -> Word]
      BY <1>1 DEF Init
  <2>2. next \in Nat \ {0}
      BY DEF Init
  <2> QED
      BY <2>1, <2>2 DEF Init, RewriteTypeOK
<1>3. Before(DOMAIN job.extras) = {}
  <2>1. DOMAIN job.extras = 1..Len(job.extras) /\ Len(job.extras) \in Nat
      BY <1>2, JobFacts DEF RewriteTypeOK
  <2> QED
      BY <2>1 DEF Init, Before
<1>4. ExtrasSeen(Before(DOMAIN job.extras))
    BY <1>3 DEF ExtrasSeen
<1> QED
    BY <1>2, <1>4 DEF Init, RewriteInv, SeenInv, PhaseBInv, OutputInv, PreflightSuffices

LEMMA TypeKept ==
    ASSUME RewriteTypeOK, baseline' = baseline, job' = job, layout' = layout, origin' = origin,
           output' = output, shipped' = shipped, next' \in Nat \ {0},
           buffer' \in [Addresses -> Word], writes' \subseteq Addresses
    PROVE  RewriteTypeOK'
BY DEF RewriteTypeOK

LEMMA OutputKept ==
    ASSUME OutputInv, baseline' = baseline, job' = job, output' = output,
           phase' \notin {"written", "verify", "accepted", "rejected"}
    PROVE  OutputInv'
<1>1. Overlap' <=> Overlap
    BY DEF Overlap, SiteAddresses, ExtraAddresses
<1>2. SitesSeen(DOMAIN job.sites) => SitesSeen(DOMAIN job.sites)'
    BY DEF SitesSeen, IsFrozenBranch, Old
<1>3. Rewritten(output.words, DOMAIN job.sites, DOMAIN job.extras) =>
          Rewritten(output.words, DOMAIN job.sites, DOMAIN job.extras)'
    BY <1>1 DEF Rewritten, Redirect, Veneer
<1>4. Assembles(job) => Assembles(job)'
    OBVIOUS
<1> QED
    BY <1>2, <1>3, <1>4 DEF OutputInv

-----------------------------------------------------------------------------
\* Preflight.

LEMMA CheckExtraKeeps == RewriteInv /\ CheckExtra => RewriteInv'
<1> SUFFICES ASSUME RewriteInv, CheckExtra PROVE RewriteInv'
    OBVIOUS
<1>1. /\ phase = "checkExtras" /\ next \in DOMAIN job.extras /\ next \in Nat \ {0}
      /\ baseline' = baseline /\ job' = job /\ origin' = origin /\ layout' = layout
      /\ output' = output /\ shipped' = shipped /\ buffer' = buffer /\ writes' = writes
    BY DEF CheckExtra, files, memory, RewriteInv, RewriteTypeOK
<1>2. RewriteTypeOK'
  <2>1. next' \in Nat \ {0}
      BY <1>1 DEF CheckExtra, Goto, Continue
  <2>2. buffer \in [Addresses -> Word] /\ writes \subseteq Addresses /\ RewriteTypeOK
      BY DEF RewriteInv, RewriteTypeOK
  <2> QED
      BY <1>1, <2>1, <2>2, TypeKept
<1>3. CASE baseline[Extra.at] = Extra.expected
  <2>1. phase' = phase /\ next' = next + 1
      BY <1>3 DEF CheckExtra, Continue
  <2>2. Before(DOMAIN job.extras)' = Before(DOMAIN job.extras) \cup {next}
      BY <1>1, <2>1, ExtrasBefore DEF RewriteInv, RewriteTypeOK
  <2>3. ExtrasSeen(Before(DOMAIN job.extras))
      BY <1>1 DEF RewriteInv, SeenInv
  <2>4. ExtrasSeen(Before(DOMAIN job.extras))'
      BY <1>1, <1>3, <2>2, <2>3 DEF ExtrasSeen, Extra
  <2>5. OutputInv'
      BY <1>1, <2>1, OutputKept DEF RewriteInv
  <2> QED
      BY <1>1, <1>2, <2>1, <2>4, <2>5 DEF RewriteInv, SeenInv, PhaseBInv, PreflightSuffices
<1>4. CASE baseline[Extra.at] # Extra.expected
  <2>1. phase' = "refused"
      BY <1>4 DEF CheckExtra, Goto
  <2>2. OutputInv'
      BY <1>1, <2>1, OutputKept DEF RewriteInv
  <2> QED
      BY <1>1, <1>2, <2>1, <2>2 DEF RewriteInv, SeenInv, PhaseBInv, PreflightSuffices
<1> QED
    BY <1>3, <1>4

LEMMA CheckSitesKeeps == RewriteInv /\ CheckSites => RewriteInv'
<1> SUFFICES ASSUME RewriteInv, CheckSites PROVE RewriteInv'
    OBVIOUS
<1>1. /\ phase = "checkExtras" /\ next \notin DOMAIN job.extras /\ next \in Nat \ {0}
      /\ phase' = "checkSites" /\ next' = 1
      /\ baseline' = baseline /\ job' = job /\ origin' = origin /\ layout' = layout
      /\ output' = output /\ shipped' = shipped /\ buffer' = buffer /\ writes' = writes
    BY DEF CheckSites, files, memory, Goto, RewriteInv, RewriteTypeOK
<1>2. RewriteTypeOK'
  <2>1. buffer \in [Addresses -> Word] /\ writes \subseteq Addresses /\ RewriteTypeOK
      BY DEF RewriteInv, RewriteTypeOK
  <2> QED
      BY <1>1, <2>1, TypeKept
<1>3. Before(DOMAIN job.extras) = DOMAIN job.extras
    BY <1>1, ExtrasBefore DEF RewriteInv, RewriteTypeOK
<1>4. ExtrasSeen(DOMAIN job.extras)
    BY <1>1, <1>3 DEF RewriteInv, SeenInv
<1>5. ExtrasSeen(DOMAIN job.extras)'
    BY <1>1, <1>4 DEF ExtrasSeen
<1>6. Before(DOMAIN job.sites)' = {}
    BY <1>1, SitesBefore DEF RewriteInv, RewriteTypeOK
<1>7. SitesSeen(Before(DOMAIN job.sites))'
    BY <1>6 DEF SitesSeen
<1>8. OutputInv'
    BY <1>1, OutputKept DEF RewriteInv
<1> QED
    BY <1>1, <1>2, <1>5, <1>7, <1>8 DEF RewriteInv, SeenInv, PhaseBInv, PreflightSuffices

LEMMA CheckSiteKeeps == RewriteInv /\ CheckSite => RewriteInv'
<1> SUFFICES ASSUME RewriteInv, CheckSite PROVE RewriteInv'
    OBVIOUS
<1>1. /\ phase = "checkSites" /\ next \in DOMAIN job.sites /\ next \in Nat \ {0}
      /\ baseline' = baseline /\ job' = job /\ origin' = origin /\ layout' = layout
      /\ output' = output /\ shipped' = shipped /\ buffer' = buffer /\ writes' = writes
    BY DEF CheckSite, files, memory, RewriteInv, RewriteTypeOK
<1>2. RewriteTypeOK'
  <2>1. next' \in Nat \ {0}
      BY <1>1 DEF CheckSite, Goto, Continue
  <2>2. buffer \in [Addresses -> Word] /\ writes \subseteq Addresses /\ RewriteTypeOK
      BY DEF RewriteInv, RewriteTypeOK
  <2> QED
      BY <1>1, <2>1, <2>2, TypeKept
<1>3. CASE IsFrozenBranch(baseline[Site.at], Site)
  <2>1. phase' = phase /\ next' = next + 1
      BY <1>3 DEF CheckSite, Continue
  <2>2. Before(DOMAIN job.sites)' = Before(DOMAIN job.sites) \cup {next}
      BY <1>1, <2>1, SitesBefore DEF RewriteInv, RewriteTypeOK
  <2>3. SitesSeen(Before(DOMAIN job.sites)) /\ ExtrasSeen(DOMAIN job.extras)
      BY <1>1 DEF RewriteInv, SeenInv
  <2>4. SitesSeen(Before(DOMAIN job.sites))'
      BY <1>1, <1>3, <2>2, <2>3 DEF SitesSeen, Site, IsFrozenBranch, Old
  <2>5. ExtrasSeen(DOMAIN job.extras)'
      BY <1>1, <2>3 DEF ExtrasSeen
  <2>6. OutputInv'
      BY <1>1, <2>1, OutputKept DEF RewriteInv
  <2> QED
      BY <1>1, <1>2, <2>1, <2>4, <2>5, <2>6 DEF RewriteInv, SeenInv, PhaseBInv, PreflightSuffices
<1>4. CASE ~IsFrozenBranch(baseline[Site.at], Site)
  <2>1. phase' = "refused"
      BY <1>4 DEF CheckSite, Goto
  <2>2. OutputInv'
      BY <1>1, <2>1, OutputKept DEF RewriteInv
  <2> QED
      BY <1>1, <1>2, <2>1, <2>2 DEF RewriteInv, SeenInv, PhaseBInv, PreflightSuffices
<1> QED
    BY <1>3, <1>4

-----------------------------------------------------------------------------
\* Phase A, and phase B.

LEMMA PhaseAKeeps == RewriteInv /\ PhaseA => RewriteInv'
<1> SUFFICES ASSUME RewriteInv, PhaseA PROVE RewriteInv'
    OBVIOUS
<1>1. /\ phase = "checkSites" /\ next \notin DOMAIN job.sites /\ next \in Nat \ {0} /\ next' = 1
      /\ baseline' = baseline /\ job' = job /\ origin' = origin
      /\ output' = output /\ shipped' = shipped /\ buffer' = buffer /\ writes' = writes
    BY DEF PhaseA, memory, Goto, RewriteInv, RewriteTypeOK
<1>2. phase' \in {"frozen", "refused"}
    BY DEF PhaseA, Goto
<1>3. layout' = None \/ layout' \in Layouts
    BY DEF PhaseA, Layouts, RewriteInv, RewriteTypeOK
<1>4. RewriteTypeOK'
    BY <1>1, <1>3 DEF RewriteInv, RewriteTypeOK
<1>5. OutputInv'
    BY <1>1, <1>2, OutputKept DEF RewriteInv
<1>6. SeenInv'
  <2>1. CASE Assembles(job)
    <3>1. phase' = "frozen" /\ layout' = [dylibs |-> job.dylibs, size |-> job.size]
        BY <2>1 DEF PhaseA, Goto
    <3>2. layout' # None /\ layout'.size = job.size
        BY <1>1, <3>1, NoFile DEF Layouts, RewriteInv, RewriteTypeOK
    <3>3. ExtrasSeen(DOMAIN job.extras) /\ SitesSeen(DOMAIN job.sites)
        BY <1>1, SitesBefore DEF RewriteInv, SeenInv, RewriteTypeOK
    <3>4. ExtrasSeen(DOMAIN job.extras)' /\ SitesSeen(DOMAIN job.sites)'
        BY <1>1, <3>3 DEF ExtrasSeen, SitesSeen, IsFrozenBranch, Old
    <3> QED
        BY <1>1, <2>1, <3>1, <3>2, <3>4 DEF SeenInv
  <2>2. CASE ~Assembles(job)
    <3>1. phase' = "refused"
        BY <2>2 DEF PhaseA, Goto
    <3> QED
        BY <3>1 DEF SeenInv
  <2> QED
      BY <2>1, <2>2
<1> QED
    BY <1>2, <1>4, <1>5, <1>6 DEF RewriteInv, PhaseBInv, PreflightSuffices

LEMMA StaleLayoutKeeps == RewriteInv /\ StaleLayout => RewriteInv'
<1> SUFFICES ASSUME RewriteInv, StaleLayout PROVE RewriteInv'
    OBVIOUS
<1>1. /\ phase' = "frozen" /\ next' = 1 /\ origin' = "earlier" /\ layout' \in Layouts
      /\ baseline' = baseline /\ job' = job
      /\ output' = output /\ shipped' = shipped /\ buffer' = buffer /\ writes' = writes
    BY DEF StaleLayout, memory, Goto
<1>2. RewriteTypeOK'
    BY <1>1 DEF RewriteInv, RewriteTypeOK
<1>3. OutputInv'
    BY <1>1, OutputKept DEF RewriteInv
<1>4. layout' # None
    BY <1>1, NoFile
<1> QED
    BY <1>1, <1>2, <1>3, <1>4 DEF RewriteInv, SeenInv, PhaseBInv, PreflightSuffices

LEMMA OpenLayoutKeeps == RewriteInv /\ OpenLayout => RewriteInv'
<1> SUFFICES ASSUME RewriteInv, OpenLayout PROVE RewriteInv'
    OBVIOUS
<1>1. /\ phase = "frozen" /\ next' = 1 /\ buffer' = baseline /\ writes' = {}
      /\ baseline' = baseline /\ job' = job /\ origin' = origin /\ layout' = layout
      /\ output' = output /\ shipped' = shipped
    BY DEF OpenLayout, files, Goto
<1>2. phase' = IF Assembles(job) /\ job.size <= layout.size THEN "redirect" ELSE "failed"
    BY DEF OpenLayout, Goto
<1>3. baseline \in [Addresses -> Word] /\ next' \in Nat \ {0}
    BY <1>1, RewriteAssumption DEF RewriteInv, RewriteTypeOK
<1>4. RewriteTypeOK'
    BY <1>1, <1>3, TypeKept DEF RewriteInv
<1>5. OutputInv'
    BY <1>1, <1>2, OutputKept DEF RewriteInv
<1>6. origin = "own" => /\ ExtrasSeen(DOMAIN job.extras) /\ SitesSeen(DOMAIN job.sites)
                        /\ Assembles(job) /\ layout.size = job.size
    BY <1>1 DEF RewriteInv, SeenInv
<1>7. SeenInv'
  <2>1. origin = "own" => /\ ExtrasSeen(DOMAIN job.extras)' /\ SitesSeen(DOMAIN job.sites)'
      BY <1>1, <1>6 DEF ExtrasSeen, SitesSeen, IsFrozenBranch, Old
  <2>2. layout' # None
      BY <1>1 DEF RewriteInv, SeenInv
  <2> QED
      BY <1>1, <1>2, <1>6, <2>1, <2>2 DEF SeenInv
<1>8. PhaseBInv'
  <2>1. Before(DOMAIN job.sites)' = {}
      BY <1>1, <1>3, SitesBefore DEF RewriteInv, RewriteTypeOK
  <2>2. SitesSeen(Before(DOMAIN job.sites))' /\ Rewritten(buffer, Before(DOMAIN job.sites), {})'
      BY <1>1, <2>1 DEF SitesSeen, Rewritten
  <2> QED
      BY <1>1, <1>2, <2>2 DEF PhaseBInv
<1>9. PreflightSuffices'
  <2>1. origin = "own" => job.size <= layout.size
      BY <1>6, JobFacts DEF RewriteInv, RewriteTypeOK
  <2> QED
      BY <1>1, <1>2, <1>6, <2>1 DEF PreflightSuffices
<1> QED
    BY <1>4, <1>5, <1>7, <1>8, <1>9 DEF RewriteInv

LEMMA RedirectSiteKeeps == RewriteInv /\ RedirectSite => RewriteInv'
<1> SUFFICES ASSUME RewriteInv, RedirectSite PROVE RewriteInv'
    OBVIOUS
<1> DEFINE s == job.sites[next]
           done == Before(DOMAIN job.sites)
<1>1. /\ phase = "redirect" /\ next \in DOMAIN job.sites /\ next \in Nat \ {0} /\ Site = s
      /\ baseline' = baseline /\ job' = job /\ origin' = origin /\ layout' = layout
      /\ output' = output /\ shipped' = shipped /\ RewriteTypeOK /\ job \in Jobs
      /\ buffer \in [Addresses -> Word] /\ writes \subseteq Addresses
    BY DEF RedirectSite, files, Site, RewriteInv, RewriteTypeOK
<1>2. /\ SitesSeen(done) /\ Rewritten(buffer, done, {}) /\ Assembles(job)
      /\ \A a \in Addresses \ writes : buffer[a] = baseline[a]
      /\ done \subseteq DOMAIN job.sites
    BY <1>1 DEF RewriteInv, PhaseBInv, Before
<1>3. /\ s.at \in Addresses /\ \A i \in DOMAIN job.sites : job.sites[i].at \in Addresses
      /\ s.at \in Int /\ Veneer(s) \in Int
    BY <1>1, JobFacts
<1>4. \A i \in done : job.sites[i].at # s.at
  <2>1. \A i, k \in DOMAIN job.sites : job.sites[i].at = job.sites[k].at => i = k
      BY <1>2 DEF Assembles, IsInjective
  <2>2. next \notin done
      BY <1>1 DEF Before
  <2> QED
      BY <1>1, <1>2, <2>1, <2>2
<1>5. buffer[s.at] = baseline[s.at]
    BY <1>2, <1>3, <1>4 DEF Rewritten
<1>6. phase' # "failed" \/ origin # "own" \/ IsFrozenBranch(buffer[s.at], s)
  <2>1. origin = "own" => SitesSeen(DOMAIN job.sites)
      BY <1>1 DEF RewriteInv, SeenInv
  <2> QED
      BY <1>1, <1>5, <2>1 DEF SitesSeen
<1>7. origin = "own" => /\ ExtrasSeen(DOMAIN job.extras)' /\ SitesSeen(DOMAIN job.sites)'
                        /\ Assembles(job)' /\ layout'.size = job'.size
  <2>1. origin = "own" => /\ ExtrasSeen(DOMAIN job.extras) /\ SitesSeen(DOMAIN job.sites)
                          /\ layout.size = job.size
      BY <1>1 DEF RewriteInv, SeenInv
  <2> QED
      BY <1>1, <1>2, <2>1 DEF ExtrasSeen, SitesSeen, IsFrozenBranch, Old
<1>8. layout' # None
    BY <1>1 DEF RewriteInv, SeenInv
<1>9. CASE IsFrozenBranch(buffer[s.at], s)
  <2>1. /\ buffer' = [buffer EXCEPT ![s.at] = Redirect(s)] /\ writes' = writes \cup {s.at}
        /\ phase' = phase /\ next' = next + 1
      BY <1>1, <1>5, <1>9 DEF RedirectSite, Continue, Redirect
  <2>2. Redirect(s) \in Word
      BY <1>1, <1>2, <1>5, <1>9, RedirectFacts
  <2>3. RewriteTypeOK'
    <3>1. buffer' \in [Addresses -> Word] /\ writes' \subseteq Addresses /\ next' \in Nat \ {0}
        BY <1>1, <1>3, <2>1, <2>2
    <3> QED
        BY <1>1, <3>1, TypeKept
  <2>4. Before(DOMAIN job.sites)' = done \cup {next}
      BY <1>1, <2>1, SitesBefore
  <2>5. SitesSeen(Before(DOMAIN job.sites))'
      BY <1>1, <1>2, <1>5, <1>9, <2>4 DEF SitesSeen, IsFrozenBranch, Old
  <2>6. \A a \in Addresses : buffer'[a] = IF a = s.at THEN Redirect(s) ELSE buffer[a]
      BY <1>1, <2>1
  <2>7. Rewritten(buffer, Before(DOMAIN job.sites), {})'
    <3>1. \A a \in Addresses : buffer'[a] # baseline[a] =>
              \E i \in done \cup {next} : a = job.sites[i].at
        BY <1>2, <2>6 DEF Rewritten
    <3>2. ~Overlap => \A i \in done \cup {next} :
              buffer'[job.sites[i].at] = Redirect(job.sites[i])
        BY <1>1, <1>2, <1>3, <1>4, <2>6 DEF Rewritten
    <3>3. Overlap' <=> Overlap
        BY <1>1 DEF Overlap, SiteAddresses, ExtraAddresses
    <3>4. \A i : Redirect(job.sites[i])' = Redirect(job.sites[i])
        BY <1>1 DEF Redirect, Veneer
    <3> QED
        BY <1>1, <2>4, <3>1, <3>2, <3>3, <3>4 DEF Rewritten
  <2>8. \A a \in Addresses \ writes' : buffer'[a] = baseline'[a]
      BY <1>1, <1>2, <2>1, <2>6
  <2>9. SeenInv' /\ PhaseBInv' /\ PreflightSuffices'
      BY <1>1, <1>2, <1>7, <1>8, <2>1, <2>5, <2>7, <2>8
      DEF SeenInv, PhaseBInv, PreflightSuffices
  <2>10. OutputInv'
      BY <1>1, <2>1, OutputKept DEF RewriteInv
  <2> QED
      BY <2>3, <2>9, <2>10 DEF RewriteInv
<1>10. CASE ~IsFrozenBranch(buffer[s.at], s)
  <2>1. phase' = "failed" /\ next' = 1 /\ buffer' = buffer /\ writes' = writes
      BY <1>1, <1>10 DEF RedirectSite, Goto, memory
  <2>2. RewriteTypeOK'
      BY <1>1, <2>1, TypeKept
  <2>3. OutputInv'
      BY <1>1, <2>1, OutputKept DEF RewriteInv
  <2> QED
      BY <1>1, <1>6, <1>10, <2>1, <2>2, <2>3
      DEF RewriteInv, SeenInv, PhaseBInv, PreflightSuffices
<1> QED
    BY <1>9, <1>10

LEMMA ReplaceExtrasKeeps == RewriteInv /\ ReplaceExtras => RewriteInv'
<1> SUFFICES ASSUME RewriteInv, ReplaceExtras PROVE RewriteInv'
    OBVIOUS
<1>1. /\ phase = "redirect" /\ next \notin DOMAIN job.sites /\ next \in Nat \ {0}
      /\ phase' = "replace" /\ next' = 1
      /\ baseline' = baseline /\ job' = job /\ origin' = origin /\ layout' = layout
      /\ output' = output /\ shipped' = shipped /\ RewriteTypeOK /\ job \in Jobs
      /\ buffer' = buffer /\ writes' = writes
      /\ buffer \in [Addresses -> Word] /\ writes \subseteq Addresses
    BY DEF ReplaceExtras, files, memory, Goto, RewriteInv, RewriteTypeOK
<1>2. RewriteTypeOK'
    BY <1>1, TypeKept
<1>3. Before(DOMAIN job.sites) = DOMAIN job.sites /\ Before(DOMAIN job.extras)' = {}
    BY <1>1, SitesBefore, ExtrasBefore
<1>4. /\ SitesSeen(DOMAIN job.sites) /\ Rewritten(buffer, DOMAIN job.sites, {})
      /\ Assembles(job) /\ \A a \in Addresses \ writes : buffer[a] = baseline[a]
    BY <1>1, <1>3 DEF RewriteInv, PhaseBInv
<1>5. PhaseBInv'
  <2>1. SitesSeen(DOMAIN job.sites)'
      BY <1>1, <1>4 DEF SitesSeen, IsFrozenBranch, Old
  <2>2. Overlap' <=> Overlap
      BY <1>1 DEF Overlap, SiteAddresses, ExtraAddresses
  <2>3. Rewritten(buffer, DOMAIN job.sites, Before(DOMAIN job.extras))'
      BY <1>1, <1>3, <1>4, <2>2 DEF Rewritten, Redirect, Veneer
  <2> QED
      BY <1>1, <1>4, <2>1, <2>3 DEF PhaseBInv
<1>6. SeenInv'
    BY <1>1 DEF RewriteInv, SeenInv, ExtrasSeen, SitesSeen, IsFrozenBranch, Old
<1>7. OutputInv'
    BY <1>1, OutputKept DEF RewriteInv
<1> QED
    BY <1>1, <1>2, <1>5, <1>6, <1>7 DEF RewriteInv, PreflightSuffices

LEMMA ReplaceExtraKeeps == RewriteInv /\ ReplaceExtra => RewriteInv'
<1> SUFFICES ASSUME RewriteInv, ReplaceExtra PROVE RewriteInv'
    OBVIOUS
<1> DEFINE x == job.extras[next]
           done == Before(DOMAIN job.extras)
<1>1. /\ phase = "replace" /\ next \in DOMAIN job.extras /\ next \in Nat \ {0} /\ Extra = x
      /\ baseline' = baseline /\ job' = job /\ origin' = origin /\ layout' = layout
      /\ output' = output /\ shipped' = shipped /\ RewriteTypeOK /\ job \in Jobs
      /\ buffer \in [Addresses -> Word] /\ writes \subseteq Addresses
    BY DEF ReplaceExtra, files, Extra, RewriteInv, RewriteTypeOK
<1>2. /\ SitesSeen(DOMAIN job.sites) /\ Rewritten(buffer, DOMAIN job.sites, done)
      /\ Assembles(job) /\ \A a \in Addresses \ writes : buffer[a] = baseline[a]
      /\ done \subseteq DOMAIN job.extras
    BY <1>1 DEF RewriteInv, PhaseBInv, Before
<1>3. /\ x.at \in Addresses /\ x.replacement \in Word
      /\ \A i \in DOMAIN job.sites : job.sites[i].at \in Addresses
      /\ \A i \in DOMAIN job.extras : job.extras[i].at \in Addresses
    BY <1>1, JobFacts
<1>4. ~Overlap => /\ \A i \in DOMAIN job.sites : job.sites[i].at # x.at
                  /\ \A i \in done : job.extras[i].at # x.at
  <2>1. next \notin done
      BY <1>1 DEF Before
  <2>2. ~Overlap => \A i \in DOMAIN job.sites : job.sites[i].at # x.at
    <3>1. x.at \in ExtraAddresses(job)
        BY <1>1 DEF ExtraAddresses
    <3>2. \A i \in DOMAIN job.sites : job.sites[i].at \in SiteAddresses(job)
        BY DEF SiteAddresses
    <3> QED
        BY <3>1, <3>2 DEF Overlap
  <2>3. ~Overlap => \A i, k \in DOMAIN job.extras :
                        job.extras[i].at = job.extras[k].at => i = k
      BY DEF Overlap, IsInjective
  <2> QED
      BY <1>1, <1>2, <2>1, <2>2, <2>3
<1>5. ~Overlap => buffer[x.at] = baseline[x.at]
    BY <1>2, <1>3, <1>4 DEF Rewritten
<1>6. origin = "own" => /\ ExtrasSeen(DOMAIN job.extras) /\ SitesSeen(DOMAIN job.sites)
                        /\ Assembles(job) /\ layout.size = job.size
    BY <1>1 DEF RewriteInv, SeenInv
<1>7. /\ SitesSeen(DOMAIN job.sites)' /\ Assembles(job)'
      /\ origin = "own" => ExtrasSeen(DOMAIN job.extras)' /\ layout'.size = job'.size
    BY <1>1, <1>2, <1>6 DEF ExtrasSeen, SitesSeen, IsFrozenBranch, Old
<1>8. layout' # None
    BY <1>1 DEF RewriteInv, SeenInv
<1>9. Overlap' <=> Overlap
    BY <1>1 DEF Overlap, SiteAddresses, ExtraAddresses
<1>10. CASE buffer[x.at] = x.expected
  <2>1. /\ buffer' = [buffer EXCEPT ![x.at] = x.replacement] /\ writes' = writes \cup {x.at}
        /\ phase' = phase /\ next' = next + 1
      BY <1>1, <1>10 DEF ReplaceExtra, Continue
  <2>2. RewriteTypeOK'
    <3>1. buffer' \in [Addresses -> Word] /\ writes' \subseteq Addresses /\ next' \in Nat \ {0}
        BY <1>1, <1>3, <2>1
    <3> QED
        BY <1>1, <3>1, TypeKept
  <2>3. Before(DOMAIN job.extras)' = done \cup {next}
      BY <1>1, <2>1, ExtrasBefore
  <2>4. \A a \in Addresses : buffer'[a] = IF a = x.at THEN x.replacement ELSE buffer[a]
      BY <1>1, <2>1
  <2>5. Rewritten(buffer, DOMAIN job.sites, Before(DOMAIN job.extras))'
    <3>1. \A a \in Addresses : buffer'[a] # baseline[a] =>
              \/ \E i \in DOMAIN job.sites : a = job.sites[i].at
              \/ \E i \in done \cup {next} : a = job.extras[i].at
        BY <1>2, <2>4 DEF Rewritten
    <3>2. ~Overlap => \A i \in DOMAIN job.sites :
              buffer'[job.sites[i].at] = Redirect(job.sites[i])
        BY <1>2, <1>3, <1>4, <2>4 DEF Rewritten
    <3>3. ~Overlap => \A i \in done \cup {next} :
              buffer'[job.extras[i].at] = job.extras[i].replacement
        BY <1>1, <1>2, <1>3, <1>4, <2>4 DEF Rewritten
    <3>4. \A i : Redirect(job.sites[i])' = Redirect(job.sites[i])
        BY <1>1 DEF Redirect, Veneer
    <3> QED
        BY <1>1, <1>9, <2>3, <3>1, <3>2, <3>3, <3>4 DEF Rewritten
  <2>6. \A a \in Addresses \ writes' : buffer'[a] = baseline'[a]
      BY <1>1, <1>2, <2>1, <2>4
  <2>7. SeenInv' /\ PhaseBInv' /\ PreflightSuffices'
      BY <1>1, <1>7, <1>8, <2>1, <2>5, <2>6 DEF SeenInv, PhaseBInv, PreflightSuffices
  <2>8. OutputInv'
      BY <1>1, <2>1, OutputKept DEF RewriteInv
  <2> QED
      BY <2>2, <2>7, <2>8 DEF RewriteInv
<1>11. CASE buffer[x.at] # x.expected
  <2>1. phase' = "failed" /\ next' = 1 /\ buffer' = buffer /\ writes' = writes
      BY <1>1, <1>11 DEF ReplaceExtra, Goto, memory
  <2>2. RewriteTypeOK'
      BY <1>1, <2>1, TypeKept
  <2>3. OutputInv'
      BY <1>1, <2>1, OutputKept DEF RewriteInv
  <2>4. origin = "own" => Overlap
      BY <1>1, <1>5, <1>6, <1>11 DEF ExtrasSeen
  <2> QED
      BY <1>1, <1>9, <2>1, <2>2, <2>3, <2>4
      DEF RewriteInv, SeenInv, PhaseBInv, PreflightSuffices
<1> QED
    BY <1>10, <1>11

LEMMA WriteOutputKeeps == RewriteInv /\ WriteOutput => RewriteInv'
<1> SUFFICES ASSUME RewriteInv, WriteOutput PROVE RewriteInv'
    OBVIOUS
<1>1. /\ phase = "replace" /\ next \notin DOMAIN job.extras /\ next \in Nat \ {0}
      /\ baseline' = baseline /\ job' = job /\ origin' = origin /\ layout' = layout
      /\ shipped' = shipped /\ RewriteTypeOK /\ job \in Jobs
      /\ buffer' = buffer /\ writes' = writes
      /\ buffer \in [Addresses -> Word] /\ writes \subseteq Addresses
    BY DEF WriteOutput, memory, RewriteInv, RewriteTypeOK
<1>2. Before(DOMAIN job.extras) = DOMAIN job.extras
    BY <1>1, ExtrasBefore
<1>3. /\ SitesSeen(DOMAIN job.sites) /\ Rewritten(buffer, DOMAIN job.sites, DOMAIN job.extras)
      /\ Assembles(job) /\ \A a \in Addresses \ writes : buffer[a] = baseline[a]
    BY <1>1, <1>2 DEF RewriteInv, PhaseBInv
<1>4. /\ output' = [words |-> buffer, dylibs |-> layout.dylibs, payload |-> Payload(job)]
      /\ phase' = "written" /\ next' = 1
    BY <1>3 DEF WriteOutput, Goto
<1>5. output' \in Images
  <2>1. layout \in Layouts
      BY <1>1 DEF RewriteInv, SeenInv, RewriteTypeOK
  <2>2. layout.dylibs \in Dylibs
      BY <2>1 DEF Layouts, Dylibs
  <2>3. Payload(job) \in Payloads
      BY <1>1 DEF Payloads
  <2> QED
      BY <1>1, <1>4, <2>2, <2>3 DEF Images
<1>6. RewriteTypeOK'
    BY <1>1, <1>4, <1>5 DEF RewriteTypeOK
<1>7. OutputInv'
  <2>1. output' # None /\ output'.words = buffer
      BY <1>4, <1>5, NoFile
  <2>2. SitesSeen(DOMAIN job.sites)'
      BY <1>1, <1>3 DEF SitesSeen, IsFrozenBranch, Old
  <2>3. Overlap' <=> Overlap
      BY <1>1 DEF Overlap, SiteAddresses, ExtraAddresses
  <2>4. Rewritten(output.words, DOMAIN job.sites, DOMAIN job.extras)'
      BY <1>1, <1>3, <2>1, <2>3 DEF Rewritten, Redirect, Veneer
  <2> QED
      BY <1>1, <1>3, <1>4, <2>1, <2>2, <2>4 DEF OutputInv
<1> QED
    BY <1>4, <1>6, <1>7 DEF RewriteInv, SeenInv, PhaseBInv, PreflightSuffices

-----------------------------------------------------------------------------
\* Shipping, and verify_main.

LEMMA OutputStays ==
    ASSUME OutputInv, baseline' = baseline, job' = job, output' = output, output # None
    PROVE  /\ output' # None /\ Assembles(job)' /\ SitesSeen(DOMAIN job.sites)'
           /\ Rewritten(output.words, DOMAIN job.sites, DOMAIN job.extras)'
<1>1. Overlap' <=> Overlap
    BY DEF Overlap, SiteAddresses, ExtraAddresses
<1>2. SitesSeen(DOMAIN job.sites)'
    BY DEF OutputInv, SitesSeen, IsFrozenBranch, Old
<1>3. Rewritten(output.words, DOMAIN job.sites, DOMAIN job.extras)'
    BY <1>1 DEF OutputInv, Rewritten, Redirect, Veneer
<1> QED
    BY <1>2, <1>3 DEF OutputInv

LEMMA ShipKeeps == RewriteInv /\ Ship => RewriteInv'
<1> SUFFICES ASSUME RewriteInv, Ship PROVE RewriteInv'
    OBVIOUS
<1>1. /\ phase = "written" /\ phase' = "verify" /\ next' = 1
      /\ baseline' = baseline /\ job' = job /\ origin' = origin /\ layout' = layout
      /\ output' = output /\ RewriteTypeOK /\ buffer' = buffer /\ writes' = writes
    BY DEF Ship, memory, Goto, RewriteInv
<1>2. output # None /\ output \in Images /\ OutputInv
    BY <1>1 DEF RewriteInv, OutputInv, RewriteTypeOK
<1>3. shipped' \in Images
  <2>1. /\ output = [words |-> output.words, dylibs |-> output.dylibs, payload |-> output.payload]
        /\ output.words \in [Addresses -> Word]
        /\ output.dylibs \in Dylibs /\ output.payload \in Payloads
      BY <1>2 DEF Images
  <2>2. ASSUME NEW a \in Addresses, NEW w \in Strays, shipped' = [output EXCEPT !.words[a] = w]
        PROVE  shipped' \in Images
    <3>1. w \in Word
        BY RewriteAssumption
    <3>2. [output.words EXCEPT ![a] = w] \in [Addresses -> Word]
        BY <2>1, <3>1
    <3>3. shipped' = [words |-> [output.words EXCEPT ![a] = w], dylibs |-> output.dylibs,
                      payload |-> output.payload]
        BY <2>1, <2>2
    <3> QED
        BY <2>1, <3>2, <3>3 DEF Images
  <2>3. ASSUME NEW d \in Dylibs, shipped' = [output EXCEPT !.dylibs = d]
        PROVE  shipped' \in Images
      BY <2>1, <2>3 DEF Images
  <2>4. ASSUME NEW q \in Payloads, shipped' = [output EXCEPT !.payload = q]
        PROVE  shipped' \in Images
      BY <2>1, <2>4 DEF Images
  <2> QED
      BY <1>2, <2>2, <2>3, <2>4 DEF Ship
<1>4. RewriteTypeOK'
    BY <1>1, <1>3 DEF RewriteTypeOK
<1>5. OutputInv'
    BY <1>1, <1>2, <1>3, OutputStays, NoFile DEF OutputInv
<1> QED
    BY <1>1, <1>4, <1>5 DEF RewriteInv, SeenInv, PhaseBInv, PreflightSuffices

LEMMA VerifyMainKeeps == RewriteInv /\ VerifyMain => RewriteInv'
<1> SUFFICES ASSUME RewriteInv, VerifyMain PROVE RewriteInv'
    OBVIOUS
<1>1. /\ phase = "verify" /\ next' = 1
      /\ phase' = IF MainChecks(shipped) THEN "accepted" ELSE "rejected"
      /\ baseline' = baseline /\ job' = job /\ origin' = origin /\ layout' = layout
      /\ output' = output /\ shipped' = shipped /\ RewriteTypeOK
      /\ buffer' = buffer /\ writes' = writes
    BY DEF VerifyMain, files, memory, Goto, RewriteInv
<1>2. output # None /\ shipped # None /\ OutputInv
    BY <1>1 DEF RewriteInv, OutputInv
<1>3. RewriteTypeOK'
    BY <1>1 DEF RewriteTypeOK
<1>4. MainChecks(shipped) => MainChecks(shipped)'
    BY <1>1 DEF MainChecks, SiteAddresses, ExtraAddresses, Veneer
<1>5. OutputInv'
    BY <1>1, <1>2, <1>4, OutputStays DEF OutputInv
<1> QED
    BY <1>1, <1>3, <1>5 DEF RewriteInv, SeenInv, PhaseBInv, PreflightSuffices

-----------------------------------------------------------------------------
\* The theorems.

\* The inductive invariant of the rewriting, for every text and manifest.
THEOREM RewriteInvariance == Spec => []RewriteInv
<1>1. RewriteInv /\ [Next]_vars => RewriteInv'
  <2> SUFFICES ASSUME RewriteInv, [Next]_vars PROVE RewriteInv'
      OBVIOUS
  <2>1. CASE CheckExtra
      BY <2>1, CheckExtraKeeps
  <2>2. CASE CheckSites
      BY <2>2, CheckSitesKeeps
  <2>3. CASE CheckSite
      BY <2>3, CheckSiteKeeps
  <2>4. CASE PhaseA
      BY <2>4, PhaseAKeeps
  <2>5. CASE StaleLayout
      BY <2>5, StaleLayoutKeeps
  <2>6. CASE OpenLayout
      BY <2>6, OpenLayoutKeeps
  <2>7. CASE RedirectSite
      BY <2>7, RedirectSiteKeeps
  <2>8. CASE ReplaceExtras
      BY <2>8, ReplaceExtrasKeeps
  <2>9. CASE ReplaceExtra
      BY <2>9, ReplaceExtraKeeps
  <2>10. CASE WriteOutput
      BY <2>10, WriteOutputKeeps
  <2>11. CASE Ship
      BY <2>11, ShipKeeps
  <2>12. CASE VerifyMain
      BY <2>12, VerifyMainKeeps
  <2>13. CASE UNCHANGED vars
    <3>1. /\ baseline' = baseline /\ job' = job /\ phase' = phase /\ next' = next
          /\ layout' = layout /\ origin' = origin /\ buffer' = buffer /\ writes' = writes
          /\ output' = output /\ shipped' = shipped
        BY <2>13 DEF vars
    <3>2. RewriteTypeOK'
        BY <3>1 DEF RewriteInv, RewriteTypeOK
    <3>3. Overlap' <=> Overlap
        BY <3>1 DEF Overlap, SiteAddresses, ExtraAddresses
    <3>4. SeenInv'
        BY <3>1 DEF RewriteInv, SeenInv, ExtrasSeen, SitesSeen, IsFrozenBranch, Old, Before
    <3>5. PhaseBInv'
        BY <3>1, <3>3 DEF RewriteInv, PhaseBInv, SitesSeen, IsFrozenBranch, Old, Before,
                          Rewritten, Redirect, Veneer
    <3>6. OutputInv'
      <4>1. MainChecks(shipped) => MainChecks(shipped)'
          BY <3>1 DEF MainChecks, SiteAddresses, ExtraAddresses, Veneer
      <4> QED
          BY <3>1, <4>1, OutputStays DEF RewriteInv, OutputInv
    <3> QED
        BY <3>1, <3>2, <3>3, <3>4, <3>5, <3>6 DEF RewriteInv, PreflightSuffices
  <2> QED
      BY <2>1, <2>2, <2>3, <2>4, <2>5, <2>6, <2>7, <2>8, <2>9, <2>10, <2>11, <2>12, <2>13 DEF Next
<1> QED
    BY <1>1, InitRewrite, PTL DEF Spec

\* What phase B leaves is exact, for every text and manifest.
THEOREM OutputIsExact == Spec => []OutputExact
<1>1. RewriteInv => OutputExact
  <2> SUFFICES ASSUME RewriteInv, output # None, ~Overlap PROVE OutputExact
      BY DEF OutputExact
  <2>1. /\ Assembles(job) /\ SitesSeen(DOMAIN job.sites) /\ RewriteTypeOK
        /\ Rewritten(output.words, DOMAIN job.sites, DOMAIN job.extras)
      BY DEF RewriteInv, OutputInv
  <2>2. ASSUME NEW i \in DOMAIN job.sites
        PROVE  LET s == job.sites[i]
               IN  /\ output.words[s.at].op = baseline[s.at].op
                   /\ Target(output.words[s.at], s.at) = Veneer(s)
    <3>1. output.words[job.sites[i].at] = Redirect(job.sites[i])
        BY <2>1 DEF Rewritten
    <3>2. /\ Redirect(job.sites[i]).op = baseline[job.sites[i].at].op
          /\ Target(Redirect(job.sites[i]), job.sites[i].at) = Veneer(job.sites[i])
        BY <2>1, RedirectFacts DEF SitesSeen
    <3> QED
        BY <3>1, <3>2
  <2>3. \A i \in DOMAIN job.extras :
            output.words[job.extras[i].at] = job.extras[i].replacement
      BY <2>1 DEF Rewritten
  <2>4. \A a \in Addresses \ (SiteAddresses(job) \cup ExtraAddresses(job)) :
            output.words[a] = baseline[a]
      BY <2>1 DEF Rewritten, SiteAddresses, ExtraAddresses
  <2> QED
      BY <2>2, <2>3, <2>4 DEF OutputExact
<1> QED
    BY <1>1, RewriteInvariance, PTL

\* What verify_main accepts sends every call where it went, or to its veneer.
THEOREM AcceptedIsExact == Spec => []AcceptedExact
<1>1. RewriteInv => AcceptedExact
  <2> SUFFICES ASSUME RewriteInv, phase = "accepted" PROVE AcceptedExact
      BY DEF AcceptedExact
  <2>1. /\ Assembles(job) /\ SitesSeen(DOMAIN job.sites) /\ RewriteTypeOK /\ MainChecks(shipped)
        /\ job \in Jobs
      BY DEF RewriteInv, OutputInv, RewriteTypeOK
  <2>2. ASSUME NEW i \in DOMAIN job.sites
        PROVE  LET s == job.sites[i]
                   v == shipped.payload[s.api]
               IN  /\ Target(shipped.words[s.at], s.at) = v.veneer
                   /\ Target(v.back, v.veneer) = Target(baseline[s.at], s.at)
    <3> DEFINE s == job.sites[i]
               p == job.apis[s.api]
    <3>1. /\ s.at \in Int /\ s.api \in DOMAIN job.apis /\ p.veneer \in Int /\ p.old \in Int
        BY <2>1, JobFacts
    <3>2. /\ shipped.payload[s.api].veneer = p.veneer
          /\ shipped.payload[s.api].back = EncodeBranch("b", p.veneer, p.old)
        BY <2>1, <3>1 DEF MainChecks, Payload
    <3>3. Encodable(p.veneer, p.old) /\ Encodable(s.at, p.veneer)
        BY <2>1, <3>1 DEF Assembles
    <3>4. Target(EncodeBranch("b", p.veneer, p.old), p.veneer) = p.old
        BY <3>1, <3>3, RoundTrip DEF BRANCH_OPCODES
    <3>5. Target(baseline[s.at], s.at) = p.old
        BY <2>1, RedirectFacts DEF SitesSeen, Old
    <3>6. PICK op \in BRANCH_OPCODES : shipped.words[s.at] = EncodeBranch(op, s.at, p.veneer)
        BY <2>1 DEF MainChecks, Veneer
    <3>7. Target(shipped.words[s.at], s.at) = p.veneer
        BY <3>1, <3>3, <3>6, RoundTrip
    <3> QED
        BY <3>2, <3>4, <3>5, <3>7
  <2>3. shipped.dylibs = job.dylibs
      BY <2>1 DEF MainChecks
  <2>4. \A a \in Addresses : shipped.words[a] # baseline[a] =>
            a \in SiteAddresses(job) \cup ExtraAddresses(job)
      BY <2>1 DEF MainChecks
  <2> QED
      BY <2>2, <2>3, <2>4 DEF AcceptedExact
<1> QED
    BY <1>1, RewriteInvariance, PTL

\* Preflight finds whatever phase B would refuse, but for words rewritten twice.
THEOREM PreflightIsEnough == Spec => []PreflightSuffices
<1>1. RewriteInv => PreflightSuffices
    BY DEF RewriteInv
<1> QED
    BY <1>1, RewriteInvariance, PTL

\* The files and the buffer keep their types.
THEOREM RewriteTypeCorrect == Spec => []RewriteTypeOK
<1>1. RewriteInv => RewriteTypeOK
    BY DEF RewriteInv
<1> QED
    BY <1>1, RewriteInvariance, PTL
-----------------------------------------------------------------------------
(***************************************************************************)
(* What verify_main rejects.  Over a layout of its own run, phase B comes  *)
(* to its end with two rewrites of one word only when one of them leaves   *)
(* the word as it was.                                                     *)
(***************************************************************************)
Effective == \A i \in DOMAIN job.extras : job.extras[i].replacement # job.extras[i].expected
SitesChanged(words, S) == \A i \in S : words[job.sites[i].at] # baseline[job.sites[i].at]
ExtrasChanged(words, X) == \A i \in X : words[job.extras[i].at] # baseline[job.extras[i].at]
Distinct(X) == \A i \in X :
    /\ job.extras[i].at \notin SiteAddresses(job)
    /\ \A k \in X : job.extras[i].at = job.extras[k].at => i = k

OwnOutput ==
    output # None =>
        /\ output.dylibs = job.dylibs /\ output.payload = Payload(job)
        /\ ExtrasSeen(DOMAIN job.extras)
        /\ Effective => ~Overlap

OwnInv ==
    origin = "own" =>
        /\ phase \in {"frozen", "redirect", "replace"} => layout.dylibs = job.dylibs
        /\ phase = "redirect" => SitesChanged(buffer, Before(DOMAIN job.sites))
        /\ phase = "replace" /\ Effective =>
               /\ SitesChanged(buffer, DOMAIN job.sites)
               /\ ExtrasChanged(buffer, Before(DOMAIN job.extras))
               /\ Distinct(Before(DOMAIN job.extras))
        /\ OwnOutput
        /\ phase = "rejected" => ~MainChecks(shipped)

\* A redirected site differs from what was there: no veneer is an old target.
LEMMA RedirectChanges ==
    ASSUME RewriteTypeOK, Assembles(job), NEW i \in DOMAIN job.sites,
           IsFrozenBranch(baseline[job.sites[i].at], job.sites[i]), NEW op \in BRANCH_OPCODES
    PROVE  EncodeBranch(op, job.sites[i].at, Veneer(job.sites[i])) # baseline[job.sites[i].at]
<1> DEFINE s == job.sites[i]
<1>1. s.at \in Int /\ Veneer(s) \in Int /\ s.api \in DOMAIN job.apis
    BY JobFacts DEF RewriteTypeOK
<1>2. Veneer(s) # Old(s)
    BY <1>1, RewriteAssumption DEF RewriteTypeOK, Veneer, Old
<1>3. Encodable(s.at, Veneer(s))
    BY DEF Assembles, Veneer
<1>4. Target(EncodeBranch(op, s.at, Veneer(s)), s.at) = Veneer(s)
    BY <1>1, <1>3, RoundTrip
<1>5. Target(baseline[s.at], s.at) = Old(s)
    BY RedirectFacts
<1> QED
    BY <1>2, <1>4, <1>5

LEMMA OwnOutputKept ==
    ASSUME OwnOutput, UNCHANGED <<baseline, job, output>> PROVE OwnOutput'
<1>1. (Overlap' <=> Overlap) /\ (Effective' <=> Effective)
    BY DEF Overlap, SiteAddresses, ExtraAddresses, Effective
<1>2. ExtrasSeen(DOMAIN job.extras)' <=> ExtrasSeen(DOMAIN job.extras)
    BY DEF ExtrasSeen
<1> QED
    BY <1>1, <1>2 DEF OwnOutput, Payload

LEMMA OwnRedirect ==
    ASSUME RewriteInv, OwnInv, RedirectSite, origin = "own", phase' = "redirect"
    PROVE  SitesChanged(buffer, Before(DOMAIN job.sites))'
<1> DEFINE s == job.sites[next]
           done == Before(DOMAIN job.sites)
<1>1. /\ phase = "redirect" /\ next \in DOMAIN job.sites /\ job \in Jobs /\ next \in Nat \ {0}
      /\ RewriteTypeOK /\ Assembles(job) /\ baseline' = baseline /\ job' = job
      /\ SitesSeen(DOMAIN job.sites) /\ SitesChanged(buffer, done) /\ done \subseteq DOMAIN job.sites
    BY DEF RedirectSite, RewriteInv, RewriteTypeOK, PhaseBInv, SeenInv, OwnInv, Before
<1>2. /\ buffer' = [buffer EXCEPT ![s.at] = EncodeBranch(buffer[s.at].op, s.at, Veneer(s))]
      /\ next' = next + 1 /\ buffer[s.at].op \in BRANCH_OPCODES
    BY <1>1 DEF RedirectSite, Site, Continue, Goto, IsFrozenBranch
<1>3. EncodeBranch(buffer[s.at].op, s.at, Veneer(s)) # baseline[s.at]
    BY <1>1, <1>2, RedirectChanges DEF SitesSeen
<1>4. Before(DOMAIN job.sites)' = done \cup {next}
    BY <1>1, <1>2, SitesBefore
<1>5. \A i \in DOMAIN job.sites : job.sites[i].at \in DOMAIN buffer
    BY <1>1, JobFacts DEF RewriteTypeOK
<1>6. \A i \in done \cup {next} : buffer'[job.sites[i].at] # baseline[job.sites[i].at]
    BY <1>1, <1>2, <1>3, <1>5 DEF SitesChanged
<1> QED
    BY <1>1, <1>4, <1>6 DEF SitesChanged

LEMMA OwnReplace ==
    ASSUME RewriteInv, OwnInv, ReplaceExtra, origin = "own", phase' = "replace", Effective
    PROVE  /\ SitesChanged(buffer, DOMAIN job.sites)'
           /\ ExtrasChanged(buffer, Before(DOMAIN job.extras))'
           /\ Distinct(Before(DOMAIN job.extras))'
<1> DEFINE x == job.extras[next]
           done == Before(DOMAIN job.extras)
<1>1. /\ phase = "replace" /\ next \in DOMAIN job.extras /\ job \in Jobs /\ next \in Nat \ {0}
      /\ RewriteTypeOK /\ baseline' = baseline /\ job' = job /\ done \subseteq DOMAIN job.extras
      /\ ExtrasSeen(DOMAIN job.extras) /\ SitesChanged(buffer, DOMAIN job.sites)
      /\ ExtrasChanged(buffer, done) /\ Distinct(done)
    BY DEF ReplaceExtra, RewriteInv, RewriteTypeOK, SeenInv, OwnInv, Before
<1>2. /\ buffer' = [buffer EXCEPT ![x.at] = x.replacement] /\ next' = next + 1
      /\ buffer[x.at] = x.expected
    BY <1>1 DEF ReplaceExtra, Extra, Continue, Goto
<1>3. buffer[x.at] = baseline[x.at] /\ x.replacement # baseline[x.at]
    BY <1>1, <1>2 DEF ExtrasSeen, Effective
<1>4. /\ \A i \in DOMAIN job.sites : job.sites[i].at # x.at
      /\ \A i \in done : job.extras[i].at # x.at
    BY <1>1, <1>3 DEF SitesChanged, ExtrasChanged
<1>5. Before(DOMAIN job.extras)' = done \cup {next}
    BY <1>1, <1>2, ExtrasBefore
<1>6. \A i \in DOMAIN job.extras : job.extras[i].at \in DOMAIN buffer
    BY <1>1, JobFacts DEF RewriteTypeOK
<1>7. SitesChanged(buffer, DOMAIN job.sites)'
    BY <1>1, <1>2, <1>4 DEF SitesChanged
<1>8. \A i \in done \cup {next} : buffer'[job.extras[i].at] # baseline[job.extras[i].at]
    BY <1>1, <1>2, <1>3, <1>4, <1>6 DEF ExtrasChanged
<1>9. Distinct(done \cup {next})
    BY <1>1, <1>4 DEF Distinct, SiteAddresses
<1>10. \A X : Distinct(X)' <=> Distinct(X)
    BY <1>1 DEF Distinct, SiteAddresses
<1> QED
    BY <1>1, <1>5, <1>7, <1>8, <1>9, <1>10 DEF ExtrasChanged, Distinct

LEMMA OwnWrite ==
    ASSUME RewriteInv, OwnInv, WriteOutput, origin = "own" PROVE OwnOutput'
<1>1. /\ phase = "replace" /\ next \notin DOMAIN job.extras /\ job \in Jobs /\ next \in Nat \ {0}
      /\ baseline' = baseline /\ job' = job /\ ExtrasSeen(DOMAIN job.extras)
      /\ layout.dylibs = job.dylibs /\ OwnOutput
    BY DEF WriteOutput, RewriteInv, RewriteTypeOK, SeenInv, OwnInv
<1>2. CASE output' = output
    BY <1>1, <1>2, OwnOutputKept
<1>3. CASE output' = [words |-> buffer, dylibs |-> layout.dylibs, payload |-> Payload(job)]
  <2>1. Before(DOMAIN job.extras) = DOMAIN job.extras
    <3>1. DOMAIN job.extras = 1..Len(job.extras) /\ Len(job.extras) \in Nat
        BY <1>1, JobFacts
    <3> QED
        BY <1>1, <3>1, Prefix DEF Before
  <2>2. Effective => Distinct(DOMAIN job.extras)
      BY <1>1, <2>1 DEF OwnInv
  <2>3. Effective => ~Overlap
      BY <2>2 DEF Distinct, Overlap, ExtraAddresses, IsInjective
  <2>4. (Overlap' <=> Overlap) /\ (Effective' <=> Effective)
      BY <1>1 DEF Overlap, SiteAddresses, ExtraAddresses, Effective
  <2>5. ExtrasSeen(DOMAIN job.extras)'
      BY <1>1 DEF ExtrasSeen
  <2> QED
      BY <1>1, <1>3, <2>3, <2>4, <2>5 DEF OwnOutput, Payload
<1> QED
    BY <1>2, <1>3 DEF WriteOutput

LEMMA OwnNext == RewriteInv /\ OwnInv /\ [Next]_vars => OwnInv'
<1> SUFFICES ASSUME RewriteInv, OwnInv, [Next]_vars, origin' = "own" PROVE OwnInv'
    BY DEF OwnInv
<1>1. ~StaleLayout
    BY DEF StaleLayout
<1>2. origin = "own" /\ UNCHANGED <<baseline, job>> /\ job \in Jobs /\ next \in Nat \ {0}
    BY <1>1 DEF Next, vars, files, RewriteInv, RewriteTypeOK, CheckExtra, CheckSites, CheckSite, PhaseA,
                OpenLayout, RedirectSite, ReplaceExtras, ReplaceExtra, WriteOutput, Ship, VerifyMain
<1>3. OwnOutput
    BY <1>2 DEF OwnInv
<1>4. CASE CheckExtra \/ CheckSites \/ CheckSite
  <2>1. output' = output /\ phase' \in {"checkExtras", "checkSites", "refused"}
      BY <1>4 DEF CheckExtra, CheckSites, CheckSite, files, Goto, Continue
  <2> QED
      BY <1>2, <1>3, <2>1, OwnOutputKept DEF OwnInv
<1>5. CASE PhaseA
  <2>1. output' = output
        /\ phase' \in {"frozen", "refused"} /\ (phase' = "frozen" => layout'.dylibs = job'.dylibs)
      BY <1>2, <1>5 DEF PhaseA, Goto
  <2> QED
      BY <1>2, <1>3, <2>1, OwnOutputKept DEF OwnInv
<1>6. CASE OpenLayout
  <2>1. output' = output /\ layout' = layout /\ phase = "frozen" /\ phase' \in {"redirect", "failed"} /\ next' = 1
      BY <1>6 DEF OpenLayout, files, Goto
  <2>2. Before(DOMAIN job.sites)' = {}
      BY <1>2, <2>1, SitesBefore
  <2>3. SitesChanged(buffer, Before(DOMAIN job.sites))'
      BY <2>2 DEF SitesChanged
  <2>4. layout'.dylibs = job'.dylibs
      BY <1>2, <2>1 DEF OwnInv
  <2> QED
      BY <1>2, <1>3, <2>1, <2>3, <2>4, OwnOutputKept DEF OwnInv
<1>7. CASE RedirectSite
  <2>1. output' = output /\ layout' = layout /\ phase = "redirect" /\ phase' \in {"redirect", "failed"}
      BY <1>7 DEF RedirectSite, files, Goto, Continue
  <2>2. layout'.dylibs = job'.dylibs
      BY <1>2, <2>1 DEF OwnInv
  <2> QED
      BY <1>2, <1>3, <1>7, <2>1, <2>2, OwnOutputKept, OwnRedirect DEF OwnInv
<1>8. CASE ReplaceExtras
  <2>1. /\ output' = output /\ layout' = layout /\ buffer' = buffer /\ phase = "redirect" /\ phase' = "replace"
        /\ next' = 1 /\ next \notin DOMAIN job.sites
      BY <1>8 DEF ReplaceExtras, files, memory, Goto
  <2>2. layout'.dylibs = job'.dylibs /\ SitesChanged(buffer, Before(DOMAIN job.sites))
      BY <1>2, <2>1 DEF OwnInv
  <2>3. SitesChanged(buffer, DOMAIN job.sites)'
    <3>1. Before(DOMAIN job.sites) = DOMAIN job.sites
      <4>1. DOMAIN job.sites = 1..Len(job.sites) /\ Len(job.sites) \in Nat
          BY <1>2, JobFacts
      <4> QED
          BY <1>2, <2>1, <4>1, Prefix DEF Before
    <3> QED
        BY <1>2, <2>1, <2>2, <3>1 DEF SitesChanged
  <2>4. Before(DOMAIN job.extras)' = {}
      BY <1>2, <2>1, ExtrasBefore
  <2>5. ExtrasChanged(buffer, Before(DOMAIN job.extras))' /\ Distinct(Before(DOMAIN job.extras))'
      BY <2>4 DEF ExtrasChanged, Distinct
  <2> QED
      BY <1>2, <1>3, <2>1, <2>2, <2>3, <2>5, OwnOutputKept DEF OwnInv
<1>9. CASE ReplaceExtra
  <2>1. output' = output /\ layout' = layout /\ phase = "replace" /\ phase' \in {"replace", "failed"}
      BY <1>9 DEF ReplaceExtra, files, Goto, Continue
  <2>2. layout'.dylibs = job'.dylibs /\ (Effective' <=> Effective)
      BY <1>2, <2>1 DEF OwnInv, Effective
  <2> QED
      BY <1>2, <1>3, <1>9, <2>1, <2>2, OwnOutputKept, OwnReplace DEF OwnInv
<1>10. CASE WriteOutput
  <2>1. phase' \in {"written", "failed"}
      BY <1>10 DEF WriteOutput, Goto
  <2> QED
      BY <1>2, <1>10, <2>1, OwnWrite DEF OwnInv
<1>11. CASE Ship
  <2>1. output' = output /\ phase' = "verify"
      BY <1>11 DEF Ship, Goto
  <2> QED
      BY <1>2, <1>3, <2>1, OwnOutputKept DEF OwnInv
<1>12. CASE VerifyMain
  <2>1. /\ output' = output /\ shipped' = shipped /\ phase' \in {"accepted", "rejected"}
        /\ phase' = "rejected" => ~MainChecks(shipped)
      BY <1>12 DEF VerifyMain, files, Goto
  <2>2. MainChecks(shipped)' <=> MainChecks(shipped)
      BY <1>2, <2>1 DEF MainChecks, SiteAddresses, ExtraAddresses, Veneer
  <2> QED
      BY <1>2, <1>3, <2>1, <2>2, OwnOutputKept DEF OwnInv
<1>13. CASE UNCHANGED vars
  <2>1. UNCHANGED <<baseline, job, phase, next, layout, origin, buffer, output, shipped>>
      BY <1>13 DEF vars
  <2>2. MainChecks(shipped)' <=> MainChecks(shipped)
      BY <2>1 DEF MainChecks, SiteAddresses, ExtraAddresses, Veneer
  <2>3. OwnOutput'
      BY <1>3, <2>1, OwnOutputKept
  <2> QED
      BY <1>2, <2>1, <2>2, <2>3 DEF OwnInv, Effective, SitesChanged, ExtrasChanged, Distinct,
                                    SiteAddresses, Before
<1> QED
    BY <1>1, <1>4, <1>5, <1>6, <1>7, <1>8, <1>9, <1>10, <1>11, <1>12, <1>13 DEF Next

\* A faithful output over a layout of its own run passes the verifier.
LEMMA OwnPasses ==
    ASSUME RewriteInv, OwnInv, origin = "own", output # None, Effective
    PROVE  MainChecks(output)
<1>1. /\ Assembles(job) /\ SitesSeen(DOMAIN job.sites) /\ RewriteTypeOK
      /\ Rewritten(output.words, DOMAIN job.sites, DOMAIN job.extras)
      /\ output.dylibs = job.dylibs /\ output.payload = Payload(job)
      /\ ExtrasSeen(DOMAIN job.extras) /\ ~Overlap /\ job \in Jobs
    BY DEF RewriteInv, OutputInv, OwnInv, OwnOutput, RewriteTypeOK
<1>2. \A i \in DOMAIN job.sites : baseline[job.sites[i].at].op \in BRANCH_OPCODES
    BY <1>1 DEF SitesSeen, IsFrozenBranch
<1>3. \A i \in DOMAIN job.sites : output.words[job.sites[i].at] = Redirect(job.sites[i])
    BY <1>1 DEF Rewritten
<1>4. \A i \in DOMAIN job.sites : output.words[job.sites[i].at] # baseline[job.sites[i].at]
    BY <1>1, <1>2, <1>3, RedirectChanges DEF SitesSeen, Redirect
<1>5. \A i \in DOMAIN job.extras :
          /\ output.words[job.extras[i].at] = job.extras[i].replacement
          /\ output.words[job.extras[i].at] # baseline[job.extras[i].at]
    BY <1>1 DEF Rewritten, ExtrasSeen, Effective
<1>6. SiteAddresses(job) \cup ExtraAddresses(job) \subseteq Addresses
    BY <1>1, JobFacts DEF SiteAddresses, ExtraAddresses
<1>7. {a \in Addresses : output.words[a] # baseline[a]} = SiteAddresses(job) \cup ExtraAddresses(job)
    BY <1>1, <1>4, <1>5, <1>6 DEF Rewritten, SiteAddresses, ExtraAddresses
<1> QED
    BY <1>1, <1>2, <1>3, <1>5, <1>7 DEF MainChecks, Redirect

\* The verifier rejects no faithful output of npa-patch, but for a replacement
\* that replaces nothing ("verify_main", changed instructions).
THEOREM RejectionsAreJustified == Spec => []RejectionsJustified
<1>1. Init => OwnInv
    BY DEF Init, OwnInv, OwnOutput
<1>2. Spec => []OwnInv
    BY <1>1, OwnNext, RewriteInvariance, PTL DEF Spec
<1>3. RewriteInv /\ OwnInv => RejectionsJustified
  <2> SUFFICES ASSUME RewriteInv, OwnInv, phase = "rejected", shipped = output, origin = "own"
               PROVE  ~Effective
      BY DEF RejectionsJustified, Effective
  <2>1. output # None /\ ~MainChecks(output)
      BY DEF RewriteInv, OutputInv, OwnInv
  <2> QED
      BY <2>1, OwnPasses
<1> QED
    BY <1>2, <1>3, RewriteInvariance, PTL
=============================================================================
