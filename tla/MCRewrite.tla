----------------------------- MODULE MCRewrite ------------------------------
(***************************************************************************)
(* Three words of text, branches that reach eight words back and seven     *)
(* ahead, and every job with up to two sites, of two APIs, and two extras. *)
(***************************************************************************)
EXTENDS Rewrite

Text == {8, 12, 16}
Call(a) == EncodeBranch("bl", a, 20)
TailCall(a) == EncodeBranch("b", a, 8)
Nop == [op |-> "other", imm |-> 0]
Clean == {t \in [Text -> Word] : \A a \in Text : t[a] \in {Call(a), TailCall(a), Nop}}

Other == [op |-> "other", imm |-> 1]

Bounded(S, n) == UNION {[1..k -> S] : k \in 0..n}
\* The second veneer is out of reach of the first word.
Apis == <<[old |-> 20, veneer |-> 36], [old |-> 8, veneer |-> 40]>>
\* The same veneers, with the old targets swapped.
OtherApis == <<[old |-> 8, veneer |-> 36], [old |-> 20, veneer |-> 40]>>
SomeSites == {s \in Bounded([at : Text, api : 1..2], 2) : s # <<>>}
SomeExtras ==
    Bounded({[at |-> a, expected |-> Nop, replacement |-> w] : a \in Text, w \in {Nop, Other}}, 1)
        \cup {<<x, x>> : x \in {[at |-> 8, expected |-> Nop, replacement |-> Other]}}
        \cup {<<[at |-> 12, expected |-> Call(12), replacement |-> Nop]>>}

Work == {[dylibs |-> <<"x">>, apis |-> a, sites |-> s, extras |-> e, size |-> 1] :
            a \in {Apis, OtherApis}, s \in SomeSites, e \in SomeExtras}
          \cup {[dylibs |-> <<"x", "y">>, apis |-> Apis, sites |-> s, extras |-> <<>>, size |-> 2] :
            s \in SomeSites}
\* A branch back, a branch elsewhere, no branch.
Damage == {Call(8), EncodeBranch("b", 12, 36), EncodeBranch("bl", 12, 36),
           EncodeBranch("b", 16, 36), EncodeBranch("b", 16, 40), Nop}
=============================================================================
