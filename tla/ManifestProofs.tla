--------------------------- MODULE ManifestProofs ---------------------------
(***************************************************************************)
(* What the loading of a manifest and the selection of dylibs promise, for *)
(* every directory, every manifest and every request.                      *)
(***************************************************************************)
EXTENDS ManifestSelect, TLAPS

\* The selection was possible, and these are its units.
SelectionMade ==
    /\ Range(Wanted(manifest)) \subseteq Ids(manifest.dylibs)
    /\ ~ Clash(manifest, Selected(manifest))
    /\ units = Units(manifest, Selected(manifest))

Progress ==
    /\ directory \in Directories
    /\ file \in Nat \ {0}
    /\ stage \in {"load", "select", "validate", "built", "refused"}
    /\ reason \in {"none", "malformed", "unsupported", "unknown", "conflict", "empty", "units"}
    /\ stage # "refused" => reason = "none"

\* The inductive invariant: what each stage has seen of the files, the request
\* and the units.
ManifestInv ==
    /\ Progress
    /\ FirstMatch
    /\ DefaultsSelectable
    /\ stage \in {"validate", "built"} \/ reason = "units" => SelectionMade
    /\ stage = "built" => Assembles(manifest, units)

-----------------------------------------------------------------------------
LEMMA InitInv == Init => ManifestInv
<1> SUFFICES ASSUME Init PROVE ManifestInv
  OBVIOUS
<1>1. FirstMatch
  <2>1. \A i \in 1..(file - 1) : Unmatched(i)
    BY DEF Init
  <2> QED BY <2>1 DEF Init, FirstMatch
<1> QED BY <1>1 DEF Init, ManifestInv, Progress, DefaultsSelectable

LEMMA StepInv == ManifestInv /\ [Next]_vars => ManifestInv'
<1> SUFFICES ASSUME ManifestInv, [Next]_vars PROVE ManifestInv'
  OBVIOUS
<1> USE DEF ManifestInv, Progress, inputs
<1>1. CASE NoFileLeft
  <2>1. ASSUME NEW i \in DOMAIN directory PROVE i \in 1..(file - 1)
    <3>1. i \in Nat \ {0} /\ 1..i \subseteq DOMAIN directory
      BY DirectoriesAssumption
    <3>2. file \notin 1..i
      BY <1>1, <3>1 DEF NoFileLeft
    <3>3. file \in Nat \ {0}
      OBVIOUS
    <3> QED BY <3>1, <3>2, <3>3
  <2>2. \A i \in DOMAIN directory : directory[i].hash # main
    BY <2>1 DEF FirstMatch, Unmatched
  <2> QED BY <1>1, <2>2 DEF NoFileLeft, Refuse, FirstMatch, Unmatched, DefaultsSelectable, manifest
<1>2. CASE Malformed
  BY <1>2 DEF Malformed, Refuse, FirstMatch, Unmatched, DefaultsSelectable, manifest
<1>3. CASE LoadOther
  <2>1. \A i \in 1..(file' - 1) : Unmatched(i)'
    <3> TAKE i \in 1..(file' - 1)
    <3>0. file \in Nat \ {0} /\ file' = file + 1
      BY <1>3 DEF LoadOther
    <3>1. i \in 1..(file - 1) \/ i = file
      BY <3>0
    <3> QED BY <1>3, <3>1 DEF LoadOther, FirstMatch, Unmatched, manifest
  <2> QED BY <1>3, <2>1 DEF LoadOther, FirstMatch, DefaultsSelectable
<1>4. CASE LoadMatching
  BY <1>4 DEF LoadMatching, FirstMatch, Unmatched, DefaultsSelectable, manifest
<1>5. CASE Unknown
  <2>1. request # Null
    <3> SUFFICES ASSUME request = Null PROVE FALSE
      OBVIOUS
    <3>1. Loads(manifest)
      BY <1>5 DEF Unknown, FirstMatch
    <3> QED BY <1>5, <3>1 DEF Unknown, Wanted, Loads, DefaultsKnown
  <2> QED BY <1>5, <2>1 DEF Unknown, Refuse, FirstMatch, Unmatched, DefaultsSelectable, manifest
<1>6. CASE Conflict
  <2>1. request # Null
    <3> SUFFICES ASSUME request = Null PROVE FALSE
      OBVIOUS
    <3>1. Loads(manifest)
      BY <1>6 DEF Conflict, FirstMatch
    <3> QED BY <1>6, <3>1 DEF Conflict, Wanted, Loads, Selected
  <2> QED BY <1>6, <2>1 DEF Conflict, Refuse, FirstMatch, Unmatched, DefaultsSelectable, manifest
<1>7. CASE NoUnit
  BY <1>7 DEF NoUnit, Refuse, FirstMatch, Unmatched, DefaultsSelectable, manifest
<1>8. CASE Select
  <2>1. SelectionMade'
    BY <1>8 DEF Select, SelectionMade, manifest, Wanted, Selected
  <2> QED BY <1>8, <2>1 DEF Select, FirstMatch, Unmatched, DefaultsSelectable, manifest
<1>9. CASE Build
  <2>1. SelectionMade'
    BY <1>9 DEF Build, SelectionMade, manifest, Wanted, Selected
  <2> QED BY <1>9, <2>1 DEF Build, FirstMatch, Unmatched, DefaultsSelectable, manifest
<1>10. CASE Overlap
  <2>1. SelectionMade'
    BY <1>10 DEF Overlap, Refuse, SelectionMade, manifest, Wanted, Selected
  <2> QED BY <1>10, <2>1 DEF Overlap, Refuse, FirstMatch, Unmatched, DefaultsSelectable, manifest
<1>11. CASE UNCHANGED vars
  BY <1>11 DEF vars, FirstMatch, Unmatched, DefaultsSelectable, manifest, SelectionMade, Wanted, Selected
<1> QED BY <1>1, <1>2, <1>3, <1>4, <1>5, <1>6, <1>7, <1>8, <1>9, <1>10, <1>11 DEF Next

\* What the stages of a run have seen is true of them, for every directory and
\* request.
THEOREM ManifestInvariance == Spec => []ManifestInv
<1> QED BY InitInv, StepInv, PTL DEF Spec

\* The first manifest with the hash of the main decides, after all before it
\* were found well-formed and for another main (manifest.select_manifest).
THEOREM FirstMatchDecides == Spec => []FirstMatch
<1>1. ManifestInv => FirstMatch
  BY DEF ManifestInv
<1> QED BY <1>1, ManifestInvariance, PTL

\* No default selection of a manifest that loads is refused for an unknown or a
\* conflicting dylib (load_manifest, _select).
THEOREM DefaultsAreSelectable == Spec => []DefaultsSelectable
<1>1. ManifestInv => DefaultsSelectable
  BY DEF ManifestInv
<1> QED BY <1>1, ManifestInvariance, PTL

-----------------------------------------------------------------------------
LEMMA UnitsOfSelection ==
    ASSUME NEW m, NEW S, NEW u
    PROVE  u \in Units(m, S) <=>
              u[1] \in S /\ u[2] \in DOMAIN m.dylibs[u[1]].domains /\ u = <<u[1], u[2]>>
  BY DEF Units

\* A payload is built for units whose call sites have one owner each, of dylibs
\* that do not exclude each other, and for all units of the dylibs asked for and
\* none else (Manifest.units, _validate_units).
THEOREM SitesHaveOneOwner == Spec => []OneOwner
<1>1. ManifestInv => OneOwner
  <2> SUFFICES ASSUME ManifestInv, stage = "built" PROVE OneOwner
    BY DEF OneOwner
  <2>1. SelectionMade /\ SitesDistinct(manifest, units)
    BY DEF ManifestInv, Assembles
  <2>2. ASSUME NEW u \in units, NEW v \in units,
               NEW a \in DOMAIN ApisOf(manifest, u), NEW b \in DOMAIN ApisOf(manifest, v),
               Range(SitesOf(manifest, u, a)) \cap Range(SitesOf(manifest, v, b)) # {}
        PROVE  u = v /\ a = b
    BY <2>1, <2>2 DEF SitesDistinct, Range
  <2>3. ASSUME NEW u \in units, NEW v \in units
        PROVE  ~ Names(manifest, u[1], v[1])
    BY <2>1, UnitsOfSelection DEF SelectionMade, Clash
  <2>4. ASSUME NEW d \in DOMAIN manifest.dylibs, NEW i \in DOMAIN manifest.dylibs[d].domains
        PROVE  <<d, i>> \in units <=> manifest.dylibs[d].id \in Range(Wanted(manifest))
    <3>1. <<d, i>> \in units <=> d \in Selected(manifest)
      BY <2>1, UnitsOfSelection DEF SelectionMade
    <3>2. d \in Selected(manifest) <=> manifest.dylibs[d].id \in Range(Wanted(manifest))
      BY DEF Selected, Chosen
    <3> QED BY <3>1, <3>2
  <2> QED BY <2>2, <2>3, <2>4 DEF OneOwner
<1> QED BY <1>1, ManifestInvariance, PTL

\* In a manifest that loads, the domain of a unit is one of the registry.
LEMMA DomainFound ==
    ASSUME NEW m, Loads(m), NEW S \in SUBSET DOMAIN m.dylibs, NEW u \in Units(m, S)
    PROVE  \E i \in DOMAIN m.domains :
              m.domains[i].id = DomainId(m, u) /\ ApisOf(m, u) = m.domains[i].apis
<1>1. DomainId(m, u) \in Ids(m.domains)
  BY UnitsOfSelection DEF DomainId, Loads, DomainsKnown, Range
<1> QED BY <1>1 DEF Ids, ApisOf

\* An API of a unit is one of the registry, at one position.
LEMMA ApiFound ==
    ASSUME NEW m, Loads(m), NEW S \in SUBSET DOMAIN m.dylibs, NEW u \in Units(m, S),
           NEW a \in DOMAIN ApisOf(m, u)
    PROVE  \E i \in DOMAIN m.domains :
              /\ m.domains[i].id = DomainId(m, u)
              /\ <<i, a>> \in Position(m)
              /\ ApiAt(m, <<i, a>>) = ApisOf(m, u)[a]
<1>1. PICK i \in DOMAIN m.domains :
          m.domains[i].id = DomainId(m, u) /\ ApisOf(m, u) = m.domains[i].apis
  BY DomainFound
<1>2. <<i, a>> \in Position(m)
  BY <1>1 DEF Position
<1>3. ApiAt(m, <<i, a>>) = ApisOf(m, u)[a]
  BY <1>1 DEF ApiAt
<1> QED BY <1>1, <1>2, <1>3

\* The conflicts that are declared leave every domain in one unit.
LEMMA OneUnitPerDomain ==
    ASSUME NEW m, Loads(m), WellMade(m), NEW S \in SUBSET DOMAIN m.dylibs,
           ~ Clash(m, S), ~ Undeclared(m, S),
           NEW u \in Units(m, S), NEW v \in Units(m, S), DomainId(m, u) = DomainId(m, v)
    PROVE  u = v
<1>1. /\ u[1] \in S /\ u[2] \in DOMAIN m.dylibs[u[1]].domains /\ u = <<u[1], u[2]>>
      /\ v[1] \in S /\ v[2] \in DOMAIN m.dylibs[v[1]].domains /\ v = <<v[1], v[2]>>
  BY UnitsOfSelection
<1>2. DomainId(m, u) \in Range(m.dylibs[u[1]].domains) /\ DomainId(m, v) \in Range(m.dylibs[v[1]].domains)
  BY <1>1 DEF DomainId, Range
<1>3. u[1] = v[1]
  <2> SUFFICES ASSUME u[1] # v[1] PROVE FALSE
    OBVIOUS
  <2>1. Names(m, u[1], v[1]) \/ Names(m, v[1], u[1])
    BY <1>1, <1>2 DEF Undeclared
  <2> QED BY <1>1, <2>1 DEF Clash
<1>4. IsInjective(m.dylibs[u[1]].domains)
  BY <1>1 DEF WellMade
<1>5. u[2] = v[2]
  BY <1>1, <1>3, <1>4 DEF IsInjective, DomainId
<1> QED BY <1>1, <1>3, <1>5

\* What such a manifest lets select, the payload builder does not refuse.
LEMMA DeclaredAssembles ==
    ASSUME NEW m, Loads(m), WellMade(m), NEW S \in SUBSET DOMAIN m.dylibs,
           ~ Clash(m, S), ~ Undeclared(m, S)
    PROVE  Assembles(m, Units(m, S))
<1> DEFINE us == Units(m, S)
<1>1. UnitsDistinct(m, us)
  BY OneUnitPerDomain DEF UnitsDistinct
<1>2. ASSUME NEW u \in us, NEW v \in us,
             NEW a \in DOMAIN ApisOf(m, u), NEW b \in DOMAIN ApisOf(m, v)
      PROVE  /\ ApisOf(m, u)[a].symbol = ApisOf(m, v)[b].symbol => u = v /\ a = b
             /\ \A s \in DOMAIN SitesOf(m, u, a), t \in DOMAIN SitesOf(m, v, b) :
                    SitesOf(m, u, a)[s] = SitesOf(m, v, b)[t] => u = v /\ a = b /\ s = t
  <2>1. PICK i \in DOMAIN m.domains :
            m.domains[i].id = DomainId(m, u) /\ <<i, a>> \in Position(m)
              /\ ApiAt(m, <<i, a>>) = ApisOf(m, u)[a]
    BY ApiFound
  <2>2. PICK j \in DOMAIN m.domains :
            m.domains[j].id = DomainId(m, v) /\ <<j, b>> \in Position(m)
              /\ ApiAt(m, <<j, b>>) = ApisOf(m, v)[b]
    BY ApiFound
  <2>3. <<i, a>> = <<j, b>> => u = v /\ a = b
    BY <2>1, <2>2, OneUnitPerDomain
  <2>4. /\ ApiAt(m, <<i, a>>).symbol = ApiAt(m, <<j, b>>).symbol => <<i, a>> = <<j, b>>
        /\ \A s \in DOMAIN ApiAt(m, <<i, a>>).sites, t \in DOMAIN ApiAt(m, <<j, b>>).sites :
               ApiAt(m, <<i, a>>).sites[s] = ApiAt(m, <<j, b>>).sites[t] => <<i, a>> = <<j, b>> /\ s = t
    BY <2>1, <2>2 DEF WellMade, ApisOnce
  <2> QED BY <2>1, <2>2, <2>3, <2>4 DEF SitesOf
<1>3. SymbolsDistinct(m, us) /\ SitesDistinct(m, us)
  BY <1>2 DEF SymbolsDistinct, SitesDistinct
<1>4. UnitsWellFormed(m, us)
  <2> SUFFICES ASSUME NEW u \in us
               PROVE  /\ m.dylibs[u[1]].basename \in AsciiNames
                      /\ DOMAIN ApisOf(m, u) # {}
                      /\ \A a \in DOMAIN ApisOf(m, u) : ApiWellFormed(ApisOf(m, u)[a])
    BY DEF UnitsWellFormed
  <2>1. m.dylibs[u[1]].basename \in AsciiNames
    BY UnitsOfSelection DEF WellMade
  <2>2. DOMAIN ApisOf(m, u) # {}
    BY DomainFound DEF WellMade
  <2>3. ASSUME NEW a \in DOMAIN ApisOf(m, u) PROVE ApiWellFormed(ApisOf(m, u)[a])
    BY ApiFound DEF WellMade
  <2> QED BY <2>1, <2>2, <2>3
<1> QED BY <1>1, <1>3, <1>4 DEF Assembles

LEMMA UnitsRefused == ManifestInv /\ [Next]_vars /\ DeclaredEnough => DeclaredEnough'
<1> SUFFICES ASSUME ManifestInv, [Next]_vars, DeclaredEnough, (reason = "units")', WellMade(manifest)',
                    ~ Undeclared(manifest, Selected(manifest))'
             PROVE  FALSE
  BY DEF DeclaredEnough
<1>1. CASE Overlap
  <2>1. manifest' = manifest /\ Selected(manifest)' = Selected(manifest)
    BY <1>1 DEF Overlap, Refuse, inputs, manifest, Selected, Wanted
  <2>2. Loads(manifest) /\ SelectionMade
    BY <1>1 DEF Overlap, ManifestInv, FirstMatch
  <2>3. Selected(manifest) \in SUBSET DOMAIN manifest.dylibs
    BY DEF Selected, Chosen
  <2>4. WellMade(manifest) /\ ~ Undeclared(manifest, Selected(manifest))
    BY <2>1
  <2>5. Assembles(manifest, units)
    BY <2>2, <2>3, <2>4, DeclaredAssembles DEF SelectionMade
  <2> QED BY <1>1, <2>5 DEF Overlap
<1>2. CASE ~ Overlap
  <2>1. reason = "units" /\ UNCHANGED <<directory, file, request>>
    BY <1>2 DEF Next, vars, inputs, Refuse, NoFileLeft, Malformed, LoadOther, LoadMatching, Unknown,
                Conflict, NoUnit, Select, Build, ManifestInv, Progress
  <2> QED BY <2>1 DEF DeclaredEnough, manifest, Selected, Wanted
<1> QED BY <1>1, <1>2

\* For every manifest that is well made otherwise, whatever its size: a selection
\* that gets as far as the payload builder and is refused there has two dylibs
\* that share a domain without a word of it (README.md:139-141).
THEOREM DeclaredIsEnough == Spec => []DeclaredEnough
<1>1. Init => DeclaredEnough
  BY DEF Init, DeclaredEnough
<1> QED BY <1>1, UnitsRefused, ManifestInvariance, PTL DEF Spec
=============================================================================
