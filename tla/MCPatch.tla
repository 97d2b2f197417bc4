------------------------------ MODULE MCPatch -------------------------------
(***************************************************************************)
(* Small instances of PatchRun: one decrypted IPA, one executable that no  *)
(* manifest knows, two bridge dylibs.                                      *)
(***************************************************************************)
EXTENDS PatchProperties, TLC

CONSTANTS r1, r2, ipa, other, out, b1, b2, v1, unknown, null

OneRun == {r1}
TwoRuns == {r1, r2}
AllNames == {ipa, other, out, b1, b2}
TwoBridges == {b1, b2}
Known == {v1}

At(n) == [prefixes |-> 0, base |-> n]
Original(app) == [m \in {"main"} |-> [app |-> app, units |-> {}]]
TwoIpas == (At(ipa) :> Original(v1)) @@ (At(other) :> Original(unknown))

Call(src, o, sel) == [src |-> src, out |-> o, sel |-> sel]

\* Two runs that never have the same output; r2 may be given r1's output, or
\* an unknown executable, as its source.
Apart == [r \in TwoRuns |->
    IF r = r1 THEN {Call(At(ipa), null, {b1}), Call(At(ipa), At(ipa), {b1}),
                    Call(At(ipa), At(b1), {b1})}
    ELSE {Call(At(ipa), null, {b2}), Call(At(<<ipa, {b1}>>), null, {b2}),
          Call(At(other), null, {b2})}]

\* One run, called again and again with either selection for one output.
Again == [r \in OneRun |->
    {Call(At(ipa), At(out), {b1}), Call(At(ipa), At(out), {b1, b2})}]

\* Two runs with one output.
SameOutput == [r \in TwoRuns |->
    {Call(At(ipa), At(out), IF r = r1 THEN {b1} ELSE {b2})}]

\* The runs that must pass meet the hypotheses of the theorems about publication.
ASSUME ApartIsMet == Invocations # SameOutput => OutputsApart /\ InputsApart
=============================================================================
