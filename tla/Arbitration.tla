---------------------------- MODULE Arbitration ----------------------------
(***************************************************************************)
(* What the dispatch payload promises the application, with no threads,    *)
(* memory or assembly in sight: every unit of libraries takes ONE decision *)
(* about itself, at some moment after its first call, and every call of    *)
(* one of its APIs is served by the side the decision names.               *)
(***************************************************************************)
CONSTANTS
    Threads,    \* the application's threads
    Units,      \* the units the payload arbitrates
    Apis,       \* the APIs, pairs <<unit, index>>
    Images,     \* the loaded images a symbol can resolve into
    App,        \* the image holding the statically linked old code
    NamedFor    \* unit -> the images that carry the unit's basename

VARIABLES
    decision,   \* unit -> "undecided", or the one image that serves it
    phase       \* thread -> what its current call has come to

vars == <<decision, phase>>

Undecided == "undecided"
Idle == [kind |-> "idle"]
Pending(a) == [kind |-> "pending", api |-> a]
Served(a, i) == [kind |-> "served", api |-> a, image |-> i]

Init ==
    /\ decision = [u \in Units |-> Undecided]
    /\ phase = [t \in Threads |-> Idle]

\* The application calls API a through one of its rewritten call sites.
Call(t, a) ==
    /\ phase[t] = Idle
    /\ phase' = [phase EXCEPT ![t] = Pending(a)]
    /\ UNCHANGED decision

\* The unit settles: on one image carrying its basename, or on the old code.
\* Nothing settles a unit before a call of it is pending.
Decide(u, i) ==
    /\ decision[u] = Undecided
    /\ \E t \in Threads, a \in Apis : a[1] = u /\ phase[t] = Pending(a)
    /\ i \in NamedFor[u] \cup {App}
    /\ decision' = [decision EXCEPT ![u] = i]
    /\ UNCHANGED phase

\* The call reaches the very API it named, on the side its unit decided for.
Serve(t, a) ==
    /\ phase[t] = Pending(a)
    /\ decision[a[1]] # Undecided
    /\ phase' = [phase EXCEPT ![t] = Served(a, decision[a[1]])]
    /\ UNCHANGED decision

Return(t) ==
    /\ \E a \in Apis, i \in Images : phase[t] = Served(a, i)
    /\ phase' = [phase EXCEPT ![t] = Idle]
    /\ UNCHANGED decision

Next ==
    \/ \E t \in Threads, a \in Apis : Call(t, a) \/ Serve(t, a)
    \/ \E u \in Units, i \in Images : Decide(u, i)
    \/ \E t \in Threads : Return(t)

Spec == Init /\ [][Next]_vars
=============================================================================
