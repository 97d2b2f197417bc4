--------------------------- MODULE ManifestSelect ---------------------------
(***************************************************************************)
(* From a directory of manifests and the dylibs a user asks for to the     *)
(* units a payload is built of (manifest.py, payload._validate_units).     *)
(*                                                                         *)
(* A manifest is what its JSON file says: domains (APIs with their call    *)
(* sites), dylibs that carry domains, named by id, and conflicts between   *)
(* dylibs.  Units are kept as positions: <<d, k>> is the k-th domain of    *)
(* the d-th dylib, so manifest order is the order of positions, and a      *)
(* symbol or a call site is unique if no two positions have it.            *)
(***************************************************************************)
EXTENDS Integers, Sequences, Functions

CONSTANTS
    Directories,  \* what manifests/*.json may hold: sequences, in name order
    Mains,        \* hashes of executables
    Requests,     \* sequences of dylib ids, or Null: the default dylibs
    Symbols,      \* the strings that are C identifiers
    AsciiNames,   \* the basenames in ASCII
    AddressLimit, \* the size of the address space: 2^64
    Null

VARIABLES
    directory, main, request,  \* the inputs
    file,      \* the file select_manifest is at
    stage,     \* "load", "select", "validate", "built" or "refused"
    reason,    \* why it was refused
    units      \* the positions of the selected units

inputs == <<directory, main, request>>
vars == <<directory, main, request, file, stage, reason, units>>

manifest == directory[file]

\* A directory is listed in the order of its names.
ASSUME DirectoriesAssumption ==
    \A d \in Directories : \A i \in DOMAIN d : i \in Nat \ {0} /\ 1..i \subseteq DOMAIN d

-----------------------------------------------------------------------------
(* load_manifest: what a file must satisfy.                                *)

Ids(list) == {list[i].id : i \in DOMAIN list}
DistinctIds(list) == \A i, j \in DOMAIN list : list[i].id = list[j].id => i = j

DomainsKnown(m) ==
    \A d \in DOMAIN m.dylibs : Range(m.dylibs[d].domains) \subseteq Ids(m.domains)

DefaultsKnown(m) == Range(m.defaults) \subseteq Ids(m.dylibs)

\* Dylib d names dylib e as a conflict.
Names(m, d, e) == m.dylibs[e].id \in m.dylibs[d].conflicts

ConflictsMutual(m) ==
    /\ \A d \in DOMAIN m.dylibs : m.dylibs[d].conflicts \subseteq Ids(m.dylibs)
    /\ \A d, e \in DOMAIN m.dylibs : Names(m, d, e) => Names(m, e, d)

\* Mutant: each dylib is compared with the next one only.
ClashNeighbours(m, selected) == \E d \in selected : d + 1 \in selected /\ Names(m, d, d + 1)

\* _check_conflicts
Clash(m, selected) == \E d, e \in selected : Names(m, d, e)

Chosen(m, ids) == {d \in DOMAIN m.dylibs : m.dylibs[d].id \in Range(ids)}

\* Mutant: the loader leaves the conflicts of the defaults to _select.
LoadsClashingDefaults(m) ==
    /\ DistinctIds(m.domains)
    /\ DomainsKnown(m)
    /\ DistinctIds(m.dylibs)
    /\ DefaultsKnown(m)
    /\ ConflictsMutual(m)

Loads(m) ==
    /\ DistinctIds(m.domains)
    /\ DomainsKnown(m)
    /\ DistinctIds(m.dylibs)
    /\ DefaultsKnown(m)
    /\ ConflictsMutual(m)
    /\ ~ Clash(m, Chosen(m, m.defaults))

-----------------------------------------------------------------------------
(* Units, and what _validate_units asks of them.                           *)

Units(m, selected) == UNION {{d} \X DOMAIN m.dylibs[d].domains : d \in selected}

DomainId(m, u) == m.dylibs[u[1]].domains[u[2]]
ApisOf(m, u) ==
    m.domains[CHOOSE i \in DOMAIN m.domains : m.domains[i].id = DomainId(m, u)].apis

SitesOf(m, u, a) == ApisOf(m, u)[a].sites

UnitsDistinct(m, us) ==
    \A u, v \in us :
        m.dylibs[u[1]].id = m.dylibs[v[1]].id /\ DomainId(m, u) = DomainId(m, v) => u = v

SymbolsDistinct(m, us) ==
    \A u, v \in us : \A a \in DOMAIN ApisOf(m, u), b \in DOMAIN ApisOf(m, v) :
        ApisOf(m, u)[a].symbol = ApisOf(m, v)[b].symbol => u = v /\ a = b

\* Mutant: call sites are compared within a unit only.
SitesDistinctPerUnit(m, us) ==
    \A u \in us : \A a, b \in DOMAIN ApisOf(m, u) :
        \A s \in DOMAIN SitesOf(m, u, a), t \in DOMAIN SitesOf(m, u, b) :
            SitesOf(m, u, a)[s] = SitesOf(m, u, b)[t] => a = b /\ s = t

SitesDistinct(m, us) ==
    \A u, v \in us : \A a \in DOMAIN ApisOf(m, u), b \in DOMAIN ApisOf(m, v) :
        \A s \in DOMAIN SitesOf(m, u, a), t \in DOMAIN SitesOf(m, v, b) :
            SitesOf(m, u, a)[s] = SitesOf(m, v, b)[t] => u = v /\ a = b /\ s = t

Aligned(w) == w \in 0..(AddressLimit - 1) /\ w % 4 = 0

ApiWellFormed(api) ==
    api.symbol \in Symbols /\ Aligned(api.old) /\ \A s \in DOMAIN api.sites : Aligned(api.sites[s])

UnitsWellFormed(m, us) ==
    \A u \in us :
        /\ m.dylibs[u[1]].basename \in AsciiNames
        /\ DOMAIN ApisOf(m, u) # {}
        /\ \A a \in DOMAIN ApisOf(m, u) : ApiWellFormed(ApisOf(m, u)[a])

Assembles(m, us) ==
    UnitsDistinct(m, us) /\ SymbolsDistinct(m, us) /\ SitesDistinct(m, us) /\ UnitsWellFormed(m, us)

-----------------------------------------------------------------------------
Init ==
    /\ directory \in Directories
    /\ main \in Mains
    /\ request \in Requests
    /\ file = 1
    /\ stage = "load"
    /\ reason = "none"
    /\ units = {}

Refuse(why) ==
    /\ stage' = "refused"
    /\ reason' = why
    /\ UNCHANGED <<inputs, file, units>>

\* select_manifest: every file is loaded until one has the hash of the main.
NoFileLeft == stage = "load" /\ file \notin DOMAIN directory /\ Refuse("unsupported")

Malformed ==
    /\ stage = "load"
    /\ file \in DOMAIN directory
    /\ ~ Loads(manifest)
    /\ Refuse("malformed")

\* Mutant: the hash is compared before the file is checked.
LoadOtherUnchecked ==
    /\ stage = "load"
    /\ file \in DOMAIN directory
    /\ manifest.hash # main
    /\ file' = file + 1
    /\ UNCHANGED <<inputs, stage, reason, units>>

LoadOther ==
    /\ stage = "load"
    /\ file \in DOMAIN directory
    /\ Loads(manifest)
    /\ manifest.hash # main
    /\ file' = file + 1
    /\ UNCHANGED <<inputs, stage, reason, units>>

LoadMatching ==
    /\ stage = "load"
    /\ file \in DOMAIN directory
    /\ Loads(manifest)
    /\ manifest.hash = main
    /\ stage' = "select"
    /\ UNCHANGED <<inputs, file, reason, units>>

\* units(dylib_ids) and _select.
Wanted(m) == IF request = Null THEN m.defaults ELSE request
Selected(m) == Chosen(m, Wanted(m))

Unknown ==
    /\ stage = "select"
    /\ ~ Range(Wanted(manifest)) \subseteq Ids(manifest.dylibs)
    /\ Refuse("unknown")

Conflict ==
    /\ stage = "select"
    /\ Range(Wanted(manifest)) \subseteq Ids(manifest.dylibs)
    /\ Clash(manifest, Selected(manifest))
    /\ Refuse("conflict")

NoUnit ==
    /\ stage = "select"
    /\ Range(Wanted(manifest)) \subseteq Ids(manifest.dylibs)
    /\ ~ Clash(manifest, Selected(manifest))
    /\ Units(manifest, Selected(manifest)) = {}
    /\ Refuse("empty")

Select ==
    /\ stage = "select"
    /\ Range(Wanted(manifest)) \subseteq Ids(manifest.dylibs)
    /\ ~ Clash(manifest, Selected(manifest))
    /\ Units(manifest, Selected(manifest)) # {}
    /\ units' = Units(manifest, Selected(manifest))
    /\ stage' = "validate"
    /\ UNCHANGED <<inputs, file, reason>>

\* _validate_units, the first thing phase A has the payload builder do.
Build ==
    /\ stage = "validate"
    /\ Assembles(manifest, units)
    /\ stage' = "built"
    /\ UNCHANGED <<inputs, file, reason, units>>

Overlap ==
    /\ stage = "validate"
    /\ ~ Assembles(manifest, units)
    /\ Refuse("units")

Next ==
    \/ NoFileLeft \/ Malformed \/ LoadOther \/ LoadMatching
    \/ Unknown \/ Conflict \/ NoUnit \/ Select
    \/ Build \/ Overlap

Spec == Init /\ [][Next]_vars

-----------------------------------------------------------------------------
(* What the loader and the selection promise to what comes after.          *)

Unmatched(i) == i \in DOMAIN directory /\ Loads(directory[i]) /\ directory[i].hash # main

\* A main is patched by the first manifest that has its hash, and refused only
\* after every file before that point was read and found well-formed and for
\* another main: a malformed file stands in the way of all that sort after it.
FirstMatch ==
    /\ \A i \in 1..(file - 1) : Unmatched(i)
    /\ stage \in {"select", "validate", "built"} \/ reason \in {"unknown", "conflict", "empty", "units"}
         => file \in DOMAIN directory /\ Loads(manifest) /\ manifest.hash = main
    /\ reason = "malformed" => file \in DOMAIN directory /\ ~ Loads(manifest)
    /\ reason = "unsupported" => \A i \in DOMAIN directory : directory[i].hash # main

\* The default dylibs of a manifest that loads are never unknown and never in
\* conflict: the loader's checks of them anticipate those of _select.  (A default
\* of no dylib, or of dylibs without a domain, loads, and Manifest.units refuses it.)
DefaultsSelectable == request = Null => reason \notin {"unknown", "conflict"}

\* What a payload is built for: every address that becomes a branch has one
\* API, no two dylibs installed together exclude each other, whichever of them
\* says so, and the dylibs installed are those asked for, with all their domains.
OneOwner ==
    stage = "built" =>
        /\ \A u, v \in units : \A a \in DOMAIN ApisOf(manifest, u), b \in DOMAIN ApisOf(manifest, v) :
                Range(SitesOf(manifest, u, a)) \cap Range(SitesOf(manifest, v, b)) # {}
                    => u = v /\ a = b
        /\ \A u, v \in units : ~ Names(manifest, u[1], v[1])
        /\ \A d \in DOMAIN manifest.dylibs : \A i \in DOMAIN manifest.dylibs[d].domains :
                <<d, i>> \in units <=> manifest.dylibs[d].id \in Range(Wanted(manifest))

\* A manifest that each dylib could be installed from: ASCII names, APIs that are
\* well-formed and occur once in its domains, no empty domain, and no domain twice
\* in a dylib.
Position(m) == UNION {{i} \X DOMAIN m.domains[i].apis : i \in DOMAIN m.domains}
ApiAt(m, p) == m.domains[p[1]].apis[p[2]]

ApisOnce(m) ==
    \A p, q \in Position(m) :
        /\ ApiAt(m, p).symbol = ApiAt(m, q).symbol => p = q
        /\ \A s \in DOMAIN ApiAt(m, p).sites, t \in DOMAIN ApiAt(m, q).sites :
                ApiAt(m, p).sites[s] = ApiAt(m, q).sites[t] => p = q /\ s = t

WellMade(m) ==
    /\ \A d \in DOMAIN m.dylibs : m.dylibs[d].basename \in AsciiNames
    /\ \A i \in DOMAIN m.domains : DOMAIN m.domains[i].apis # {}
    /\ \A p \in Position(m) : ApiWellFormed(ApiAt(m, p))
    /\ ApisOnce(m)
    /\ \A d \in DOMAIN m.dylibs : IsInjective(m.dylibs[d].domains)

\* Two of these dylibs share a domain, and neither names the other.
Undeclared(m, selected) ==
    \E d, e \in selected :
        /\ d # e
        /\ Range(m.dylibs[d].domains) \cap Range(m.dylibs[e].domains) # {}
        /\ ~ Names(m, d, e) /\ ~ Names(m, e, d)

\* From a well-made manifest the payload builder refuses a selection only if two
\* dylibs of that very selection share a domain and neither declares it: where it
\* is declared, _select has refused them by name.
DeclaredEnough == reason = "units" /\ WellMade(manifest) => Undeclared(manifest, Selected(manifest))
=============================================================================
