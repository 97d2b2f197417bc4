------------------------- MODULE DispatchProperties -------------------------
(***************************************************************************)
(* What the dispatch protocol guarantees, and that it implements           *)
(* Arbitration: one decision per unit, every call served by it.            *)
(***************************************************************************)
EXTENDS Dispatch

Frames == [cont : Apis \cup {Null}, regs : {"caller", "clobbered"},
           fbase : Images \cup {Null}, cand : Pointers \cup {Null}]

\* The type invariant of the protocol's state.
TypeOK ==
    /\ state \in [Units -> {STATE_UNINITIALIZED, STATE_INITIALIZING, STATE_NEW, STATE_OLD}]
    /\ slot \in [Apis -> Pointers \cup {Null}]
    /\ released \in [Units -> SUBSET Apis]
    /\ seen \in [Threads -> SUBSET Apis]
    /\ monitor \in [Threads -> BOOLEAN]
    /\ pc \in [Threads -> Pcs]
    /\ at \in [Threads -> Apis \cup {Null}]
    /\ regs \in [Threads -> {"caller", "clobbered"}]
    /\ frame \in [Threads -> Frames]
    /\ call \in [Threads -> Apis \cup {Null}]
    /\ target \in [Threads -> Pointers \cup {Null}]
    /\ served \in [Units -> SUBSET Images]

\* Whole-unit arbitration ("no per-API fallback, no app half NEW, half OLD"):
\* every call of a unit, by any thread, at any time, runs in one image.
OneImagePerUnit ==
    \A u \in Units : \A i, j \in served[u] : i = j

\* A unit that is NEW had every one of its APIs resolved, each slot into its
\* own symbol, all in one image, and that image bears the unit's basename: the
\* new library that is reached is one library, and the right one.
NewIsOneNamedImage ==
    \A u \in Units : state[u] = STATE_NEW =>
        \E i \in NamedFor[u] : \A k \in 1..Count[u] : slot[<<u, k>>] = <<i, <<u, k>>>>

\* A call ends in the very API it named, in the old code or in an image named
\* for its unit, with the caller's argument registers and return address,
\* whatever the resolver did with them and however often the call went round
\* the bootstrap.  In particular no call is ever branched to a null slot.
CallIntegrity ==
    \A t \in Threads : pc[t] = "run" =>
        /\ target[t] \in {<<i, call[t]>> : i \in NamedFor[call[t][1]] \cup {App}}
        /\ regs[t] = "caller"

\* One thread at most resolves a unit, and a unit that is INITIALIZING has one:
\* no resolver races another over the slots, no waiter publishes by time-out,
\* and none spins on a word that nobody is going to publish.
OneInitializer ==
    \A u \in Units :
        LET resolvers == {t \in Threads : pc[t] \in ResolverPcs /\ unit(t) = u}
        IN /\ \A s, t \in resolvers : s = t
           /\ (resolvers # {}) <=> (state[u] = STATE_INITIALIZING)

\* A decision is final: a published unit never changes its word or its slots.
PublishedIsFinal ==
    [][\A u \in Units : state[u] \in {STATE_NEW, STATE_OLD} =>
          /\ state'[u] = state[u]
          /\ \A k \in 1..Count[u] : slot'[<<u, k>>] = slot[<<u, k>>]]_vars

\* Every call is served, whoever initializes its unit and whatever it finds:
\* waiters are released by either publication, and a failed stxr is retried.
EveryCallServed ==
    \A t \in Threads : (pc[t] = "dispatch") ~> (pc[t] = "run")

-----------------------------------------------------------------------------
(***************************************************************************)
(* The inductive invariant behind the safety properties.                   *)
(***************************************************************************)
Resolving(t, u) == pc[t] \in ResolverPcs /\ unit(t) = u

\* Where a thread is, whose copy of the block it executes, and what its frame
\* and argument registers hold there.
ControlInv(t) ==
    /\ pc[t] # "idle" => at[t] \in Apis /\ call[t] \in Apis /\ unit(t) = call[t][1]
    /\ pc[t] \in {"dispatch", "enter", "new", "run"} => regs[t] = "caller"
    /\ pc[t] \in {"dispatch", "enter", "new"} => at[t] = call[t]
    /\ pc[t] \in FramedPcs => frame[t].cont = call[t] /\ frame[t].regs = "caller"

\* An unbroken reservation means that the word is still UNINITIALIZED.
MonitorInv(t) ==
    monitor[t] => pc[t] = "stxr" /\ state[unit(t)] = STATE_UNINITIALIZED

\* The APIs before the current one are stored, all from the recorded base.
ResolverInv(t) ==
    /\ pc[t] \in ResolverPcs => state[unit(t)] = STATE_INITIALIZING
    /\ pc[t] \in {"dladdr", "store"} =>
          frame[t].cand \in Pointers /\ frame[t].cand[2] = at[t]
    /\ pc[t] = "store" => frame[t].cand[1] = frame[t].fbase
    /\ pc[t] \in {"store", "publish_new"} => frame[t].fbase \in NamedFor[unit(t)]
    /\ pc[t] \in {"dlsym", "dladdr", "store"} /\ index(t) # 1 =>
          frame[t].fbase \in NamedFor[unit(t)]
    /\ pc[t] \in {"dlsym", "dladdr", "store", "publish_new"} =>
          \A k \in 1..Count[unit(t)] :
             k < index(t) \/ pc[t] = "publish_new" =>
                /\ slot[<<unit(t), k>>] = <<frame[t].fbase, <<unit(t), k>>>>
                /\ <<unit(t), k>> \in seen[t]

\* The image that serves a published unit.
ImageOf(u) == IF state[u] = STATE_NEW THEN slot[<<u, 1>>][1] ELSE App

UnitInv(u) ==
    /\ \A s, t \in Threads : Resolving(s, u) /\ Resolving(t, u) => s = t
    /\ state[u] = STATE_INITIALIZING => \E t \in Threads : Resolving(t, u)
    /\ state[u] = STATE_NEW =>
          /\ ImageOf(u) \in NamedFor[u]
          /\ \A k \in 1..Count[u] : /\ slot[<<u, k>>] = <<ImageOf(u), <<u, k>>>>
                                    /\ <<u, k>> \in released[u]
    /\ state[u] \in {STATE_UNINITIALIZED, STATE_INITIALIZING} => served[u] = {}
    /\ served[u] \subseteq {ImageOf(u)}

\* Calls leave the payload only when the unit is published, for its image.
CallInv(t) ==
    /\ pc[t] = "new" => state[unit(t)] = STATE_NEW /\ at[t] \in seen[t]
    /\ pc[t] = "run" => /\ state[unit(t)] \in {STATE_NEW, STATE_OLD}
                        /\ target[t] = <<ImageOf(unit(t)), call[t]>>

\* The conjunction every step of the protocol preserves.
DispatchInv ==
    /\ TypeOK
    /\ \A t \in Threads : ControlInv(t) /\ MonitorInv(t) /\ ResolverInv(t) /\ CallInv(t)
    /\ \A u \in Units : UnitInv(u)

-----------------------------------------------------------------------------
(***************************************************************************)
(* The refinement.  A unit is decided when its word is published; a call   *)
(* is pending from its call site until it is branched out of the payload.  *)
(***************************************************************************)
DecisionOf(u) ==
    CASE state[u] = STATE_NEW -> slot[<<u, 1>>][1]
      [] state[u] = STATE_OLD -> App
      [] OTHER -> "undecided"

PhaseOf(t) ==
    CASE pc[t] = "idle" -> [kind |-> "idle"]
      [] pc[t] = "run" -> [kind |-> "served", api |-> target[t][2], image |-> target[t][1]]
      [] OTHER -> [kind |-> "pending", api |-> call[t]]

Arb == INSTANCE Arbitration WITH
           decision <- [u \in Units |-> DecisionOf(u)],
           phase <- [t \in Threads |-> PhaseOf(t)]

\* The payload implements the arbitration it promises.
ImplementsArbitration == Arb!Spec
=============================================================================
