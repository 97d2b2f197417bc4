----------------------------- MODULE MCDispatch -----------------------------
(***************************************************************************)
(* Small instances of Dispatch.  libass has two APIs, swr has one.  Each   *)
(* unit has two images that bear its basename, so that an API may be found *)
(* in the wrong one of them; the main executable is the third place dlsym  *)
(* may find a symbol.                                                      *)
(***************************************************************************)
EXTENDS DispatchProperties, TLC

CONSTANTS t1, t2, t3, app, bridge, twin, null

TwoThreads == {t1, t2}
ThreeThreads == {t1, t2, t3}

OneUnit == {"libass"}
TwoUnits == {"libass", "swr"}

CountOne == [u \in OneUnit |-> 2]
CountTwo == [u \in TwoUnits |-> IF u = "libass" THEN 2 ELSE 1]

AllImages == {app, bridge, twin}
NamedOne == [u \in OneUnit |-> {bridge, twin}]
NamedTwo == [u \in TwoUnits |-> IF u = "libass" THEN {bridge} ELSE {bridge, twin}]

ThreadSymmetry == Permutations(ThreeThreads)
=============================================================================
