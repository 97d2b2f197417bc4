------------------------------ MODULE Dispatch ------------------------------
(***************************************************************************)
(* The run-time protocol of the generated arm64 payload                    *)
(* (npabridge/payload.py): the veneers every rewritten call site branches  *)
(* to, the per-unit LL/SC bootstrap, the resolver that looks every API of  *)
(* the unit up with dlsym/dladdr, and the final publication of NEW or OLD. *)
(*                                                                         *)
(* One action is one stretch of instructions holding at most one access    *)
(* to shared memory or one call of dyld; pc names the block it starts in.  *)
(* State words are only accessed by ldar/ldaxr/stxr/stlr and are taken as  *)
(* sequentially consistent per word.  Slots are accessed by plain ldr/str: *)
(* a store is certain to be visible to a thread only if the thread has     *)
(* acquired a state word released after it (or made the store itself),     *)
(* otherwise the load may still return the zero the data blob starts with. *)
(***************************************************************************)
EXTENDS Naturals, FiniteSets

CONSTANTS
    Threads,    \* the application's threads
    Units,      \* Unit.id of every unit the payload carries
    Count,      \* unit -> Unit.symbol_count
    Images,     \* the loaded images dlsym(RTLD_DEFAULT, ...) can resolve into
    App,        \* the main executable, holding the statically linked old code
    NamedFor,   \* unit -> the images whose path ends in "/" \o Unit.basename
    Null        \* a zero word

Apis == UNION {{u} \X (1..Count[u]) : u \in Units}
Pointers == Images \X Apis    \* <<i, a>>: the address of API a inside image i

ASSUME DispatchAssumption ==
    /\ Count \in [Units -> Nat \ {0}]
    /\ App \in Images
    /\ NamedFor \in [Units -> SUBSET (Images \ {App})]
    /\ Null \notin Images \cup Pointers \cup Apis
    /\ "undecided" \notin Images

VARIABLES
    state,      \* unit -> its state word
    slot,       \* API -> its slot in the data blob
    released,   \* unit -> the slots stored before the last stlr of its word
    seen,       \* thread -> the slots whose store it is certain to observe
    monitor,    \* thread -> its exclusive monitor still holds the state word
    pc,         \* thread -> the block it is about to execute
    at,         \* thread -> the API whose copy of that block it executes
    regs,       \* thread -> x0-x7, x30: the caller's values, or clobbered
    frame,      \* thread -> the frame enter_<api> pushes
    call,       \* thread -> the API the application called
    target,     \* thread -> the address the call was finally branched to
    served      \* unit -> the images that have executed a call of its APIs

shared == <<state, slot, released>>
local == <<seen, monitor, pc, at, regs, frame, call, target>>
vars == <<shared, local, served>>

STATE_UNINITIALIZED == 0
STATE_INITIALIZING == 1
STATE_NEW == 2
STATE_OLD == 3

ResolverPcs == {"clear", "dlsym", "dladdr", "store", "publish_new", "publish_old"}
FramedPcs == ResolverPcs \cup
             {"bootstrap", "stxr", "wait_initializing", "wait_pause", "finish"}
Pcs == FramedPcs \cup {"idle", "dispatch", "enter", "new", "run"}

EmptyFrame == [cont |-> Null, regs |-> "clobbered", fbase |-> Null, cand |-> Null]

unit(t) == at[t][1]
index(t) == at[t][2]

Init ==
    /\ state = [u \in Units |-> STATE_UNINITIALIZED]
    /\ slot = [a \in Apis |-> Null]
    /\ released = [u \in Units |-> {}]
    /\ seen = [t \in Threads |-> {}]
    /\ monitor = [t \in Threads |-> FALSE]
    /\ pc = [t \in Threads |-> "idle"]
    /\ at = [t \in Threads |-> Null]
    /\ regs = [t \in Threads |-> "clobbered"]
    /\ frame = [t \in Threads |-> EmptyFrame]
    /\ call = [t \in Threads |-> Null]
    /\ target = [t \in Threads |-> Null]
    /\ served = [u \in Units |-> {}]

Goto(t, block) == pc' = [pc EXCEPT ![t] = block]

\* ldar, ldaxr: whatever was released with the word is now visible to t.
Acquire(t, u) == seen' = [seen EXCEPT ![t] = @ \cup released[u]]

\* A store to u's word takes the reservation of every other thread on it.
BreakMonitors(t, u) ==
    monitor' = [s \in Threads |->
                   monitor[s] /\ s # t /\ ~(pc[s] = "stxr" /\ at[s][1] = u)]

(***************************************************************************)
(* The application                                                         *)
(***************************************************************************)
\* A rewritten call site branches to the veneer of API a.
Call(t, a) ==
    /\ pc[t] = "idle"
    /\ Goto(t, "dispatch")
    /\ at' = [at EXCEPT ![t] = a]
    /\ call' = [call EXCEPT ![t] = a]
    /\ regs' = [regs EXCEPT ![t] = "caller"]
    /\ UNCHANGED <<shared, seen, monitor, frame, target, served>>

\* The library function returns straight to the application.
Return(t) ==
    /\ pc[t] = "run"
    /\ Goto(t, "idle")
    /\ at' = [at EXCEPT ![t] = Null]
    /\ call' = [call EXCEPT ![t] = Null]
    /\ regs' = [regs EXCEPT ![t] = "clobbered"]
    /\ target' = [target EXCEPT ![t] = Null]
    /\ UNCHANGED <<shared, seen, monitor, frame, served>>

(***************************************************************************)
(* dispatch_<api>, enter_<api>, new_<api>                                  *)
(***************************************************************************)
\* The call leaves the payload for the code at address p.
Branch(t, p) ==
    /\ Goto(t, "run")
    /\ target' = [target EXCEPT ![t] = p]
    /\ served' = IF p = Null THEN served
                 ELSE [served EXCEPT ![unit(t)] = @ \cup {p[1]}]

\* Mutant: the veneer does not wait for a unit that is being initialized.
DispatchOldWhileInitializing(t) ==
    /\ pc[t] = "dispatch"
    /\ state[unit(t)] \notin {STATE_UNINITIALIZED, STATE_NEW}
    /\ Acquire(t, unit(t))
    /\ Branch(t, <<App, at[t]>>)
    /\ UNCHANGED <<shared, monitor, at, regs, frame, call>>

DispatchOld(t) ==
    /\ pc[t] = "dispatch"
    /\ state[unit(t)] \notin {STATE_UNINITIALIZED, STATE_INITIALIZING, STATE_NEW}
    /\ Acquire(t, unit(t))
    /\ Branch(t, <<App, at[t]>>)
    /\ UNCHANGED <<shared, monitor, at, regs, frame, call>>

DispatchElse(t) ==
    /\ pc[t] = "dispatch"
    /\ \/ /\ state[unit(t)] \in {STATE_UNINITIALIZED, STATE_INITIALIZING}
          /\ Goto(t, "enter")
       \/ /\ state[unit(t)] = STATE_NEW
          /\ Goto(t, "new")
    /\ Acquire(t, unit(t))
    /\ UNCHANGED <<shared, monitor, at, regs, frame, call, target, served>>

\* Push a frame holding the argument registers, x30 and, as continuation, the
\* address of this very veneer.
Enter(t) ==
    /\ pc[t] = "enter"
    /\ frame' = [frame EXCEPT ![t] = [EmptyFrame EXCEPT !.cont = at[t], !.regs = regs[t]]]
    /\ Goto(t, "bootstrap")
    /\ UNCHANGED <<shared, seen, monitor, at, regs, call, target, served>>

\* A slot whose store is not certain to be visible may still read as zero.
SlotValues(t, a) == {slot[a]} \cup (IF a \in seen[t] THEN {} ELSE {Null})

NewBranch(t) ==
    /\ pc[t] = "new"
    /\ \E p \in SlotValues(t, at[t]) : Branch(t, p)
    /\ UNCHANGED <<shared, seen, monitor, at, regs, frame, call>>

(***************************************************************************)
(* bootstrap_<unit>, wait_initializing_<unit>, wait_pause_<unit>           *)
(***************************************************************************)
\* Mutant: the word is not looked at again under the reservation.
BootstrapUnchecked(t) ==
    /\ pc[t] = "bootstrap"
    /\ Acquire(t, unit(t))
    /\ Goto(t, "stxr")
    /\ monitor' = [monitor EXCEPT ![t] = TRUE]
    /\ UNCHANGED <<shared, at, regs, frame, call, target, served>>

Bootstrap(t) ==
    /\ pc[t] = "bootstrap"
    /\ Acquire(t, unit(t))
    /\ IF state[unit(t)] # STATE_UNINITIALIZED
       THEN Goto(t, "wait_initializing") /\ UNCHANGED monitor
       ELSE Goto(t, "stxr") /\ monitor' = [monitor EXCEPT ![t] = TRUE]
    /\ UNCHANGED <<shared, at, regs, frame, call, target, served>>

\* Mutant: an ordinary store in place of the exclusive one.
StrSucceed(t) ==
    /\ pc[t] = "stxr"
    /\ state' = [state EXCEPT ![unit(t)] = STATE_INITIALIZING]
    /\ released' = [released EXCEPT ![unit(t)] = {}]
    /\ BreakMonitors(t, unit(t))
    /\ Goto(t, "clear")
    /\ UNCHANGED <<slot, seen, at, regs, frame, call, target, served>>

\* The exclusive store can succeed only under an unbroken reservation.  It is
\* a plain store: it releases nothing.
StxrSucceed(t) ==
    /\ pc[t] = "stxr"
    /\ monitor[t]
    /\ state' = [state EXCEPT ![unit(t)] = STATE_INITIALIZING]
    /\ released' = [released EXCEPT ![unit(t)] = {}]
    /\ BreakMonitors(t, unit(t))
    /\ Goto(t, "clear")
    /\ UNCHANGED <<slot, seen, at, regs, frame, call, target, served>>

\* It may fail at any time, for a lost reservation or for no reason.
StxrFail(t) ==
    /\ pc[t] = "stxr"
    /\ monitor' = [monitor EXCEPT ![t] = FALSE]
    /\ Goto(t, "wait_initializing")
    /\ UNCHANGED <<shared, seen, at, regs, frame, call, target, served>>

\* The initializer clears its resolver locals and enters the first resolver.
ClearLocals(t) ==
    /\ pc[t] = "clear"
    /\ frame' = [frame EXCEPT ![t].fbase = Null, ![t].cand = Null]
    /\ at' = [at EXCEPT ![t] = <<unit(t), 1>>]
    /\ Goto(t, "dlsym")
    /\ UNCHANGED <<shared, seen, monitor, regs, call, target, served>>

\* Mutant: the wait ends only at a published word.
WaitPublished(t) ==
    /\ pc[t] = "wait_initializing"
    /\ Acquire(t, unit(t))
    /\ Goto(t, IF state[unit(t)] \in {STATE_UNINITIALIZED, STATE_INITIALIZING}
               THEN "wait_pause" ELSE "finish")
    /\ UNCHANGED <<shared, monitor, at, regs, frame, call, target, served>>

\* Any word but STATE_INITIALIZING ends the wait, STATE_UNINITIALIZED included: a thread
\* whose stxr failed for no reason goes back to its veneer and tries again.
WaitInitializing(t) ==
    /\ pc[t] = "wait_initializing"
    /\ Acquire(t, unit(t))
    /\ Goto(t, IF state[unit(t)] = STATE_INITIALIZING THEN "wait_pause" ELSE "finish")
    /\ UNCHANGED <<shared, monitor, at, regs, frame, call, target, served>>

\* Mutant: a waiter that has had enough publishes OLD itself.
WaitTimesOut(t) ==
    /\ pc[t] = "wait_pause"
    /\ Goto(t, "wait_initializing") \/ Goto(t, "publish_old")
    /\ UNCHANGED <<shared, seen, monitor, at, regs, frame, call, target, served>>

WaitPause(t) ==
    /\ pc[t] = "wait_pause"
    /\ Goto(t, "wait_initializing")
    /\ UNCHANGED <<shared, seen, monitor, at, regs, frame, call, target, served>>

(***************************************************************************)
(* resolve_<api>, basename_scan_<api>, basename_suffix_<api>, store_<api>  *)
(***************************************************************************)
\* dlsym finds nothing, or the symbol in any loaded image.
Dlsym(t) ==
    /\ pc[t] = "dlsym"
    /\ regs' = [regs EXCEPT ![t] = "clobbered"]
    /\ \/ Goto(t, "publish_old") /\ UNCHANGED frame
       \/ \E i \in Images :
             /\ frame' = [frame EXCEPT ![t].cand = <<i, at[t]>>]
             /\ Goto(t, "dladdr")
    /\ UNCHANGED <<shared, seen, monitor, at, call, target, served>>

\* What dladdr can say of the candidate: nothing, no base, no path, or all.
DladdrReplies == {"failed", "no_fbase", "no_fname", "complete"}

\* Mutant: the bases of the candidates are not compared.
DladdrAnyBase(t) ==
    /\ pc[t] = "dladdr"
    /\ \E reply \in DladdrReplies :
         Goto(t, IF reply = "complete" /\ frame[t].cand[1] \in NamedFor[unit(t)]
                 THEN "store" ELSE "publish_old")
    /\ regs' = [regs EXCEPT ![t] = "clobbered"]
    /\ UNCHANGED <<shared, seen, monitor, at, frame, call, target, served>>

\* The base is recorded for the first API of the unit and compared for the
\* others, before the path is looked at.
Dladdr(t) ==
    /\ pc[t] = "dladdr"
    /\ \E reply \in DladdrReplies :
         LET image == frame[t].cand[1]
             based == reply \notin {"failed", "no_fbase"}
             accepted == /\ based
                         /\ index(t) = 1 \/ image = frame[t].fbase
                         /\ reply # "no_fname"
                         /\ image \in NamedFor[unit(t)]
         IN /\ frame' = IF based /\ index(t) = 1
                        THEN [frame EXCEPT ![t].fbase = image] ELSE frame
            /\ Goto(t, IF accepted THEN "store" ELSE "publish_old")
    /\ regs' = [regs EXCEPT ![t] = "clobbered"]
    /\ UNCHANGED <<shared, seen, monitor, at, call, target, served>>

Store(t) ==
    /\ pc[t] = "store"
    /\ slot' = [slot EXCEPT ![at[t]] = frame[t].cand]
    /\ seen' = [seen EXCEPT ![t] = @ \cup {at[t]}]
    /\ IF index(t) = Count[unit(t)]
       THEN Goto(t, "publish_new") /\ UNCHANGED at
       ELSE Goto(t, "dlsym") /\ at' = [at EXCEPT ![t] = <<unit(t), index(t) + 1>>]
    /\ UNCHANGED <<state, released, monitor, regs, frame, call, target, served>>

(***************************************************************************)
(* publish_new_<unit>, publish_old_<unit>, finish                          *)
(***************************************************************************)
\* Mutant: str in place of stlr.
PublishUnreleased(t, word) ==
    /\ state' = [state EXCEPT ![unit(t)] = word]
    /\ released' = [released EXCEPT ![unit(t)] = {}]
    /\ BreakMonitors(t, unit(t))
    /\ Goto(t, "finish")
    /\ UNCHANGED <<slot, seen, at, regs, frame, call, target, served>>

\* stlr: the word carries everything its writer has stored or observed.
Publish(t, word) ==
    /\ state' = [state EXCEPT ![unit(t)] = word]
    /\ released' = [released EXCEPT ![unit(t)] = seen[t]]
    /\ BreakMonitors(t, unit(t))
    /\ Goto(t, "finish")
    /\ UNCHANGED <<slot, seen, at, regs, frame, call, target, served>>

PublishNew(t) == pc[t] = "publish_new" /\ Publish(t, STATE_NEW)
PublishOld(t) == pc[t] = "publish_old" /\ Publish(t, STATE_OLD)

\* Restore the caller's registers, pop the frame, re-enter the veneer.
Finish(t) ==
    /\ pc[t] = "finish"
    /\ regs' = [regs EXCEPT ![t] = frame[t].regs]
    /\ at' = [at EXCEPT ![t] = frame[t].cont]
    /\ frame' = [frame EXCEPT ![t] = EmptyFrame]
    /\ Goto(t, "dispatch")
    /\ UNCHANGED <<shared, seen, monitor, call, target, served>>

-----------------------------------------------------------------------------
\* Everything the payload does for a call between its call site and the branch.
Step(t) ==
    \/ DispatchOld(t) \/ DispatchElse(t) \/ Enter(t) \/ NewBranch(t)
    \/ Bootstrap(t) \/ StxrSucceed(t) \/ StxrFail(t) \/ ClearLocals(t)
    \/ WaitInitializing(t) \/ WaitPause(t)
    \/ Dlsym(t) \/ Dladdr(t) \/ Store(t)
    \/ PublishNew(t) \/ PublishOld(t) \/ Finish(t)

Next == \E t \in Threads : Step(t) \/ Return(t) \/ \E a \in Apis : Call(t, a)

Spec == Init /\ [][Next]_vars

\* The scheduler keeps running every thread inside the payload (dyld's calls
\* return), and an exclusive store that keeps being tried with its
\* reservation intact is not refused for ever: no memory access lies between
\* ldaxr and stxr.  Nothing obliges the application to call, or a library
\* function to return.
Fairness == \A t \in Threads : WF_vars(Step(t)) /\ SF_vars(StxrSucceed(t))

FairSpec == Spec /\ Fairness
=============================================================================
