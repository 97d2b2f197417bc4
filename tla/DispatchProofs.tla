--------------------------- MODULE DispatchProofs ---------------------------
(***************************************************************************)
(* For any threads, units and API counts: DispatchInv is inductive, and    *)
(* from it a unit is decided once and for one whole image, every call goes *)
(* where it should with its registers and is not set back once its unit is *)
(* settled, and the protocol implements Arbitration.                       *)
(***************************************************************************)
EXTENDS DispatchProperties, TLAPS

LEMMA ApiFacts ==
    /\ \A a \in Apis : /\ a[1] \in Units
                       /\ a[2] \in 1..Count[a[1]]
                       /\ a = <<a[1], a[2]>>
    /\ \A u \in Units : \A k \in 1..Count[u] : <<u, k>> \in Apis
<1>1. ASSUME NEW a \in Apis
      PROVE  a[1] \in Units /\ a[2] \in 1..Count[a[1]] /\ a = <<a[1], a[2]>>
  <2>1. PICK u \in Units : a \in {u} \X (1..Count[u])
    BY DEF Apis
  <2> QED
    BY <2>1
<1>2. ASSUME NEW u \in Units, NEW k \in 1..Count[u]
      PROVE  <<u, k>> \in Apis
  BY DEF Apis
<1> QED
  BY <1>1, <1>2

LEMMA ThreadFacts ==
    ASSUME DispatchInv, NEW t \in Threads, pc[t] # "idle"
    PROVE  /\ at[t] \in Apis /\ call[t] \in Apis
           /\ unit(t) \in Units /\ index(t) \in 1..Count[unit(t)]
           /\ at[t] = <<unit(t), index(t)>>
           /\ Count[unit(t)] \in Nat \ {0}
           /\ unit(t) = call[t][1]
<1>1. ControlInv(t)
  BY DEF DispatchInv
<1>2. at[t] \in Apis /\ call[t] \in Apis /\ unit(t) = call[t][1]
  BY <1>1 DEF ControlInv
<1>3. unit(t) \in Units /\ index(t) \in 1..Count[unit(t)] /\ at[t] = <<unit(t), index(t)>>
  BY <1>2, ApiFacts DEF unit, index
<1> QED
  BY <1>2, <1>3, DispatchAssumption

\* The words of the state machine are distinct.
LEMMA Words ==
    /\ STATE_UNINITIALIZED # STATE_INITIALIZING /\ STATE_UNINITIALIZED # STATE_NEW
    /\ STATE_UNINITIALIZED # STATE_OLD /\ STATE_INITIALIZING # STATE_NEW
    /\ STATE_INITIALIZING # STATE_OLD /\ STATE_NEW # STATE_OLD
BY DEF STATE_UNINITIALIZED, STATE_INITIALIZING, STATE_NEW, STATE_OLD

\* The three ways out of dladdr: refused, or accepted as the first API of the
\* unit (its base recorded), or as a later one (its base compared).
LEMMA DladdrOutcome ==
    ASSUME NEW t \in Threads, Dladdr(t)
    PROVE  \/ /\ Goto(t, "publish_old")
              /\ frame' = frame \/ frame' = [frame EXCEPT ![t].fbase = frame[t].cand[1]]
           \/ /\ Goto(t, "store") /\ index(t) = 1
              /\ frame[t].cand[1] \in NamedFor[unit(t)]
              /\ frame' = [frame EXCEPT ![t].fbase = frame[t].cand[1]]
           \/ /\ Goto(t, "store") /\ index(t) # 1 /\ frame' = frame
              /\ frame[t].cand[1] \in NamedFor[unit(t)]
              /\ frame[t].cand[1] = frame[t].fbase
<1>1. PICK reply \in DladdrReplies :
        LET image == frame[t].cand[1]
            based == reply \notin {"failed", "no_fbase"}
            accepted == /\ based
                        /\ index(t) = 1 \/ image = frame[t].fbase
                        /\ reply # "no_fname"
                        /\ image \in NamedFor[unit(t)]
        IN /\ frame' = IF based /\ index(t) = 1
                       THEN [frame EXCEPT ![t].fbase = image] ELSE frame
           /\ Goto(t, IF accepted THEN "store" ELSE "publish_old")
  BY DEF Dladdr
<1> QED
  BY <1>1

-----------------------------------------------------------------------------
(***************************************************************************)
(* Types.                                                                  *)
(***************************************************************************)
LEMMA StoreType ==
    ASSUME DispatchInv, NEW t \in Threads, Store(t)
    PROVE  TypeOK'
<1> DEFINE u == unit(t)
<1> DEFINE k == index(t)
<1>1. /\ TypeOK /\ ControlInv(t) /\ ResolverInv(t)
      /\ pc[t] = "store"
  BY DEF Store, DispatchInv
<1>2. u \in Units /\ k \in 1..Count[u] /\ at[t] = <<u, k>> /\ Count[u] \in Nat /\ at[t] \in Apis
  BY <1>1, ThreadFacts, Zenon
<1>3. frame[t].cand \in Pointers
  BY <1>1 DEF ResolverInv
<1>4. at'[t] \in Apis
  <2>1. CASE k = Count[u]
    BY <2>1, <1>1, <1>2 DEF Store
  <2>2. CASE k # Count[u]
    <3>1. k + 1 \in 1..Count[u]
      BY <2>2, <1>2
    <3>2. <<u, k+1>> \in Apis
      BY <3>1, <1>2, ApiFacts
    <3> QED
      BY <2>2, <3>2, <1>1, <1>2 DEF Store, TypeOK
  <2> QED
    BY <2>1, <2>2
<1>5. slot' \in [Apis -> Pointers \cup {Null}]
  BY <1>1, <1>3 DEF Store, TypeOK
<1>6. at' \in [Threads -> Apis \cup {Null}]
  BY <1>1, <1>4 DEF Store, TypeOK
<1>7. pc' \in [Threads -> Pcs]
  BY <1>1 DEF Store, TypeOK, Goto, Pcs, FramedPcs, ResolverPcs
<1>8. seen' \in [Threads -> SUBSET Apis]
  BY <1>1, <1>2 DEF Store, TypeOK
<1> QED
  BY <1>1, <1>5, <1>6, <1>7, <1>8 DEF Store, TypeOK

\* Setting the resolver's locals leaves a frame a frame.
LEMMA FrameLocals ==
    ASSUME NEW f \in [Threads -> Frames], NEW t \in Threads,
           NEW i \in Images \cup {Null}, NEW p \in Pointers \cup {Null}
    PROVE  /\ [f EXCEPT ![t].fbase = i] \in [Threads -> Frames]
           /\ [f EXCEPT ![t].cand = p] \in [Threads -> Frames]
           /\ [f EXCEPT ![t].fbase = i, ![t].cand = p] \in [Threads -> Frames]
<1>1. \A r \in Frames : /\ [r EXCEPT !.fbase = i] \in Frames
                        /\ [r EXCEPT !.cand = p] \in Frames
                        /\ [r EXCEPT !.fbase = i, !.cand = p] \in Frames
  <2> TAKE r \in Frames
  <2>1. [r EXCEPT !.fbase = i] \in Frames
    BY DEF Frames
  <2>2. [r EXCEPT !.cand = p] \in Frames
    BY DEF Frames
  <2>3. [r EXCEPT !.fbase = i, !.cand = p] \in Frames
    BY DEF Frames
  <2> QED
    BY <2>1, <2>2, <2>3
<1>2. f[t] \in Frames
  OBVIOUS
<1>3. [f EXCEPT ![t].fbase = i] \in [Threads -> Frames]
  BY <1>1, <1>2
<1>4. [f EXCEPT ![t].cand = p] \in [Threads -> Frames]
  BY <1>1, <1>2
<1>5. [f EXCEPT ![t].fbase = i, ![t].cand = p] \in [Threads -> Frames]
  BY <1>1, <1>2
<1> QED
  BY <1>3, <1>4, <1>5

LEMMA InvType ==
    ASSUME DispatchInv, [Next]_vars
    PROVE  TypeOK'
<1>0. TypeOK
  BY DEF DispatchInv
<1> USE DEF Goto, Pcs, FramedPcs, ResolverPcs, Acquire, shared
<1>1. ASSUME NEW t \in Threads, NEW a \in Apis, Call(t, a) PROVE TypeOK'
  BY <1>0, <1>1 DEF Call, TypeOK
<1>2. ASSUME NEW t \in Threads, Return(t) PROVE TypeOK'
  BY <1>0, <1>2 DEF Return, TypeOK
<1>3. ASSUME NEW t \in Threads, DispatchOld(t) PROVE TypeOK'
  <2>1. at[t] \in Apis /\ unit(t) \in Units
    BY <1>3, ThreadFacts DEF DispatchOld
  <2>2. <<App, at[t]>> \in Pointers
    BY <2>1, DispatchAssumption DEF Pointers
  <2>3. target' \in [Threads -> Pointers \cup {Null}]
    BY <1>0, <1>3, <2>2 DEF DispatchOld, Branch, TypeOK
  <2>4. served' \in [Units -> SUBSET Images]
    BY <1>0, <1>3, <2>1, DispatchAssumption DEF DispatchOld, Branch, TypeOK
  <2>5. seen' \in [Threads -> SUBSET Apis]
    BY <1>0, <1>3, <2>1 DEF DispatchOld, TypeOK
  <2> QED
    BY <1>0, <1>3, <2>3, <2>4, <2>5 DEF DispatchOld, Branch, TypeOK
<1>4. ASSUME NEW t \in Threads, DispatchElse(t) PROVE TypeOK'
  <2>1. unit(t) \in Units
    BY <1>4, ThreadFacts DEF DispatchElse
  <2> QED
    BY <1>0, <1>4, <2>1 DEF DispatchElse, TypeOK
<1>5. ASSUME NEW t \in Threads, Enter(t) PROVE TypeOK'
  <2>1. at[t] \in Apis
    BY <1>5, ThreadFacts DEF Enter
  <2>2. frame' \in [Threads -> Frames]
    BY <1>0, <1>5, <2>1 DEF Enter, TypeOK, Frames, EmptyFrame
  <2> QED
    BY <1>0, <1>5, <2>2 DEF Enter, TypeOK
<1>6. ASSUME NEW t \in Threads, NewBranch(t) PROVE TypeOK'
  <2>1. at[t] \in Apis /\ unit(t) \in Units
    BY <1>6, ThreadFacts DEF NewBranch
  <2>2. PICK p \in SlotValues(t, at[t]) : Branch(t, p)
    BY <1>6 DEF NewBranch
  <2>3. p \in Pointers \cup {Null}
    BY <1>0, <2>1, <2>2 DEF SlotValues, TypeOK
  <2>4. p # Null => p[1] \in Images
    BY <2>3 DEF Pointers
  <2>5. served' \in [Units -> SUBSET Images]
    BY <1>0, <2>1, <2>2, <2>4 DEF Branch, TypeOK
  <2>6. target' \in [Threads -> Pointers \cup {Null}]
    BY <1>0, <2>2, <2>3 DEF Branch, TypeOK
  <2> QED
    BY <1>0, <1>6, <2>2, <2>5, <2>6 DEF NewBranch, Branch, TypeOK
<1>7. ASSUME NEW t \in Threads, Bootstrap(t) PROVE TypeOK'
  <2>1. unit(t) \in Units
    BY <1>7, ThreadFacts DEF Bootstrap
  <2> QED
    BY <1>0, <1>7, <2>1 DEF Bootstrap, TypeOK
<1>8. ASSUME NEW t \in Threads, StxrSucceed(t) PROVE TypeOK'
  <2>1. unit(t) \in Units
    BY <1>8, ThreadFacts DEF StxrSucceed
  <2>2. monitor' \in [Threads -> BOOLEAN]
    BY <1>0, <1>8 DEF StxrSucceed, BreakMonitors, TypeOK
  <2> QED
    BY <1>0, <1>8, <2>1, <2>2 DEF StxrSucceed, TypeOK
<1>9. ASSUME NEW t \in Threads, StxrFail(t) PROVE TypeOK'
  BY <1>0, <1>9 DEF StxrFail, TypeOK
<1>10. ASSUME NEW t \in Threads, ClearLocals(t) PROVE TypeOK'
  <2>1. unit(t) \in Units /\ Count[unit(t)] \in Nat \ {0}
    BY <1>10, ThreadFacts DEF ClearLocals
  <2>2. <<unit(t), 1>> \in Apis
    BY <2>1, ApiFacts
  <2>3. frame' \in [Threads -> Frames]
    <3>1. frame \in [Threads -> Frames]
      BY <1>0 DEF TypeOK
    <3>2. frame' = [frame EXCEPT ![t].fbase = Null, ![t].cand = Null]
      BY <1>10 DEF ClearLocals
    <3> QED
      BY <3>1, <3>2, FrameLocals
  <2> QED
    BY <1>0, <1>10, <2>2, <2>3 DEF ClearLocals, TypeOK
<1>11. ASSUME NEW t \in Threads, WaitInitializing(t) PROVE TypeOK'
  <2>1. unit(t) \in Units
    BY <1>11, ThreadFacts DEF WaitInitializing
  <2> QED
    BY <1>0, <1>11, <2>1 DEF WaitInitializing, TypeOK
<1>12. ASSUME NEW t \in Threads, WaitPause(t) PROVE TypeOK'
  BY <1>0, <1>12 DEF WaitPause, TypeOK
<1>13. ASSUME NEW t \in Threads, Dlsym(t) PROVE TypeOK'
  <2>1. at[t] \in Apis
    BY <1>13, ThreadFacts DEF Dlsym
  <2>2. \A i \in Images : <<i, at[t]>> \in Pointers
    BY <2>1 DEF Pointers
  <2>3. CASE UNCHANGED frame /\ Goto(t, "publish_old")
    BY <1>0, <1>13, <2>3 DEF Dlsym, TypeOK
  <2>4. ASSUME NEW i \in Images, Goto(t, "dladdr"),
               frame' = [frame EXCEPT ![t].cand = <<i, at[t]>>]
        PROVE  TypeOK'
    <3>1. frame' \in [Threads -> Frames]
      <4>1. frame \in [Threads -> Frames] /\ <<i, at[t]>> \in Pointers \cup {Null}
        BY <1>0, <2>2 DEF TypeOK
      <4> QED
        BY <2>4, <4>1, FrameLocals
    <3> QED
      BY <1>0, <1>13, <2>4, <3>1 DEF Dlsym, TypeOK
  <2> QED
    BY <1>13, <2>3, <2>4 DEF Dlsym
<1>14. ASSUME NEW t \in Threads, Dladdr(t) PROVE TypeOK'
  <2>1. frame[t].cand \in Pointers
    BY <1>14 DEF Dladdr, DispatchInv, ResolverInv
  <2>2. frame[t].cand[1] \in Images
    BY <2>1 DEF Pointers
  <2>3. pc' \in [Threads -> Pcs] /\ frame' \in [Threads -> Frames]
    <3>1. CASE frame' = frame
      BY <1>0, <1>14, <3>1, DladdrOutcome DEF TypeOK
    <3>2. CASE frame' = [frame EXCEPT ![t].fbase = frame[t].cand[1]]
      <4>1. pc' \in [Threads -> Pcs]
        BY <1>0, <1>14, DladdrOutcome DEF TypeOK
      <4>2. frame' \in [Threads -> Frames]
        <5>1. frame \in [Threads -> Frames] /\ frame[t].cand[1] \in Images \cup {Null}
          BY <1>0, <2>2 DEF TypeOK
        <5> QED
          BY <3>2, <5>1, FrameLocals
      <4> QED
        BY <4>1, <4>2
    <3> QED
      BY <1>14, <3>1, <3>2, DladdrOutcome
  <2> QED
    BY <1>0, <1>14, <2>3 DEF Dladdr, TypeOK
<1>15. ASSUME NEW t \in Threads, Store(t) PROVE TypeOK'
  BY <1>15, StoreType
<1>16. ASSUME NEW t \in Threads, NEW w \in {STATE_NEW, STATE_OLD},
              pc[t] # "idle", Publish(t, w) PROVE TypeOK'
  <2>1. unit(t) \in Units
    BY <1>16, ThreadFacts
  <2>2. monitor' \in [Threads -> BOOLEAN]
    BY <1>0, <1>16 DEF Publish, BreakMonitors, TypeOK
  <2> QED
    BY <1>0, <1>16, <2>1, <2>2 DEF Publish, TypeOK
<1>17. ASSUME NEW t \in Threads, PublishNew(t) \/ PublishOld(t) PROVE TypeOK'
  BY <1>16, <1>17 DEF PublishNew, PublishOld
<1>18. ASSUME NEW t \in Threads, Finish(t) PROVE TypeOK'
  <2>1. frame[t] \in Frames
    BY <1>0 DEF TypeOK
  <2>2. frame' \in [Threads -> Frames]
    BY <1>0, <1>18 DEF Finish, TypeOK, Frames, EmptyFrame
  <2> QED
    BY <1>0, <1>18, <2>1, <2>2 DEF Finish, TypeOK, Frames
<1>19. CASE UNCHANGED vars
  BY <1>0, <1>19 DEF vars, local, TypeOK
<1> HIDE DEF Goto, Pcs, FramedPcs, ResolverPcs, Acquire, shared
<1> QED
  BY <1>1, <1>2, <1>3, <1>4, <1>5, <1>6, <1>7, <1>8, <1>9, <1>10, <1>11, <1>12,
     <1>13, <1>14, <1>15, <1>17, <1>18, <1>19 DEF Next, Step

-----------------------------------------------------------------------------
(***************************************************************************)
(* What a step of t leaves alone: the other threads and, for most blocks,  *)
(* every unit.                                                             *)
(***************************************************************************)
Unmoved(s) ==
    /\ pc'[s] = pc[s] /\ at'[s] = at[s] /\ regs'[s] = regs[s]
    /\ frame'[s] = frame[s] /\ call'[s] = call[s] /\ target'[s] = target[s]
    /\ seen'[s] = seen[s]

OthersUnmoved(t) == \A s \in Threads : s # t => Unmoved(s)

Taken(t) == Step(t) \/ Return(t) \/ \E a \in Apis : Call(t, a)

LEMMA LeavesOthers ==
    ASSUME DispatchInv, NEW t \in Threads, Taken(t)
    PROVE  OthersUnmoved(t)
<1>0. TypeOK
  BY DEF DispatchInv
<1> SUFFICES ASSUME NEW s \in Threads, s # t
             PROVE  Unmoved(s)
  BY DEF OthersUnmoved
<1> USE DEF Unmoved, TypeOK, Goto, Acquire
<1>1. CASE \E a \in Apis : Call(t, a)
  BY <1>0, <1>1 DEF Call
<1>2. CASE Return(t)
  BY <1>0, <1>2 DEF Return
<1>3. CASE DispatchOld(t) \/ NewBranch(t)
  BY <1>0, <1>3 DEF DispatchOld, NewBranch, Branch
<1>4. CASE DispatchElse(t) \/ Enter(t) \/ Bootstrap(t)
  BY <1>0, <1>4 DEF DispatchElse, Enter, Bootstrap
<1>5. CASE StxrSucceed(t) \/ StxrFail(t) \/ ClearLocals(t)
  BY <1>0, <1>5 DEF StxrSucceed, StxrFail, ClearLocals
<1>6. CASE WaitInitializing(t) \/ WaitPause(t) \/ Finish(t)
  BY <1>0, <1>6 DEF WaitInitializing, WaitPause, Finish
<1>7. CASE Dlsym(t)
  BY <1>0, <1>7 DEF Dlsym
<1>8. CASE Dladdr(t)
  <2>1. frame'[s] = frame[s] /\ pc'[s] = pc[s]
    BY <1>0, <1>8, DladdrOutcome
  <2> QED
    BY <1>0, <1>8, <2>1 DEF Dladdr
<1>9. CASE Store(t)
  BY <1>0, <1>9 DEF Store
<1>10. CASE PublishNew(t) \/ PublishOld(t)
  BY <1>0, <1>10 DEF PublishNew, PublishOld, Publish
<1> QED
  BY <1>1, <1>2, <1>3, <1>4, <1>5, <1>6, <1>7, <1>8, <1>9, <1>10 DEF Taken, Step

\* A step that writes neither word nor slot and does not take t into or out of
\* a resolver preserves the invariant if it does so for t itself.
LEMMA LocalStep ==
    ASSUME DispatchInv, NEW t \in Threads, TypeOK', OthersUnmoved(t),
           UNCHANGED <<shared, served>>,
           \A s \in Threads : s # t => monitor'[s] = monitor[s],
           \A u \in Units : Resolving(t, u)' <=> Resolving(t, u),
           ControlInv(t)', MonitorInv(t)', ResolverInv(t)', CallInv(t)'
    PROVE  DispatchInv'
<1> USE DEF shared
<1>1. ASSUME NEW s \in Threads, s # t
      PROVE  ControlInv(s)' /\ MonitorInv(s)' /\ ResolverInv(s)' /\ CallInv(s)'
  <2>0. /\ ControlInv(s) /\ MonitorInv(s) /\ ResolverInv(s) /\ CallInv(s)
        /\ Unmoved(s)
    BY <1>1 DEF DispatchInv, OthersUnmoved
  <2>1. ControlInv(s)'
    BY <2>0 DEF ControlInv, Unmoved, unit
  <2>2. MonitorInv(s)'
    BY <1>1, <2>0 DEF MonitorInv, Unmoved, unit
  <2>3. ResolverInv(s)'
    BY <2>0 DEF ResolverInv, Unmoved, unit, index
  <2>4. CallInv(s)'
    BY <2>0 DEF CallInv, ImageOf, Unmoved, unit
  <2> QED
    BY <2>1, <2>2, <2>3, <2>4
<1>2. ASSUME NEW u \in Units
      PROVE  UnitInv(u)'
  <2>1. UnitInv(u)
    BY DEF DispatchInv
  <2>2. \A s \in Threads : Resolving(s, u)' <=> Resolving(s, u)
    BY DEF OthersUnmoved, Unmoved, Resolving, unit
  <2>3. ImageOf(u)' = ImageOf(u)
    BY DEF ImageOf
  <2> QED
    BY <2>1, <2>2, <2>3 DEF UnitInv
<1> QED
  BY <1>1, <1>2 DEF DispatchInv

\* The steps of that kind: the whole life of a call but its branch out of the
\* payload, the resolver but its store, and the wait.
LEMMA LocalSteps ==
    ASSUME DispatchInv, NEW t \in Threads, TypeOK', OthersUnmoved(t),
           \/ \E a \in Apis : Call(t, a)
           \/ Return(t) \/ DispatchElse(t) \/ Enter(t)
           \/ Bootstrap(t) \/ StxrFail(t) \/ ClearLocals(t)
           \/ WaitInitializing(t) \/ WaitPause(t)
           \/ Dlsym(t) \/ Dladdr(t) \/ Finish(t)
    PROVE  DispatchInv'
<1>0. TypeOK /\ ControlInv(t) /\ MonitorInv(t) /\ ResolverInv(t) /\ CallInv(t)
  BY DEF DispatchInv
<1> USE DEF Goto, FramedPcs, ResolverPcs
<1>1. ASSUME NEW a \in Apis, Call(t, a) PROVE DispatchInv'
  <2>1. /\ pc[t] = "idle" /\ pc'[t] = "dispatch" /\ at'[t] = a /\ call'[t] = a
        /\ regs'[t] = "caller" /\ UNCHANGED <<shared, served, monitor>>
    BY <1>0, <1>1 DEF Call, TypeOK
  <2>2. ControlInv(t)' /\ MonitorInv(t)' /\ ResolverInv(t)' /\ CallInv(t)'
    BY <1>0, <2>1 DEF ControlInv, MonitorInv, ResolverInv, CallInv, unit
  <2> QED
    BY <2>1, <2>2, LocalStep DEF Resolving
<1>2. ASSUME Return(t) PROVE DispatchInv'
  <2>1. pc[t] = "run" /\ pc'[t] = "idle" /\ UNCHANGED <<shared, served, monitor>>
    BY <1>0, <1>2 DEF Return, TypeOK
  <2>2. ControlInv(t)' /\ MonitorInv(t)' /\ ResolverInv(t)' /\ CallInv(t)'
    BY <1>0, <2>1 DEF ControlInv, MonitorInv, ResolverInv, CallInv
  <2> QED
    BY <2>1, <2>2, LocalStep DEF Resolving
<1>3. ASSUME DispatchElse(t) PROVE DispatchInv'
  <2>1. /\ pc[t] = "dispatch" /\ UNCHANGED <<shared, served, monitor, at, regs, frame, call>>
        /\ seen'[t] = seen[t] \cup released[unit(t)]
        /\ \/ pc'[t] = "enter"
           \/ pc'[t] = "new" /\ state[unit(t)] = STATE_NEW
    BY <1>0, <1>3 DEF DispatchElse, Acquire, TypeOK
  <2>2. ControlInv(t)' /\ MonitorInv(t)' /\ ResolverInv(t)'
    BY <1>0, <2>1 DEF ControlInv, MonitorInv, ResolverInv, unit
  <2>3. CallInv(t)'
    <3>1. UnitInv(unit(t)) /\ at[t] = <<unit(t), index(t)>> /\ index(t) \in 1..Count[unit(t)]
      BY <2>1, ThreadFacts DEF DispatchInv
    <3>2. state[unit(t)] = STATE_NEW => at[t] \in released[unit(t)]
      BY <3>1 DEF UnitInv
    <3> QED
      BY <2>1, <3>2 DEF CallInv, shared, unit
  <2>4. \A u \in Units : Resolving(t, u)' <=> Resolving(t, u)
    BY <2>1 DEF Resolving
  <2> QED
    BY <2>1, <2>2, <2>3, <2>4, LocalStep
<1>4. ASSUME Enter(t) PROVE DispatchInv'
  <2>1. /\ pc[t] = "enter" /\ pc'[t] = "bootstrap"
        /\ UNCHANGED <<shared, served, monitor, at, regs, call>>
        /\ frame'[t].cont = at[t] /\ frame'[t].regs = regs[t]
    BY <1>0, <1>4 DEF Enter, TypeOK, EmptyFrame
  <2>2. ControlInv(t)' /\ MonitorInv(t)' /\ ResolverInv(t)' /\ CallInv(t)'
    BY <1>0, <2>1 DEF ControlInv, MonitorInv, ResolverInv, CallInv, unit
  <2> QED
    BY <2>1, <2>2, LocalStep DEF Resolving
<1>5. ASSUME Bootstrap(t) PROVE DispatchInv'
  <2>1. /\ pc[t] = "bootstrap" /\ UNCHANGED <<shared, served, at, regs, frame, call>>
        /\ \A s \in Threads : s # t => monitor'[s] = monitor[s]
        /\ \/ pc'[t] = "wait_initializing" /\ monitor'[t] = monitor[t]
           \/ pc'[t] = "stxr" /\ state[unit(t)] = STATE_UNINITIALIZED
    BY <1>0, <1>5 DEF Bootstrap, TypeOK
  <2>2. ControlInv(t)' /\ MonitorInv(t)' /\ ResolverInv(t)' /\ CallInv(t)'
    BY <1>0, <2>1 DEF ControlInv, MonitorInv, ResolverInv, CallInv, unit, shared
  <2>3. \A u \in Units : Resolving(t, u)' <=> Resolving(t, u)
    BY <2>1 DEF Resolving
  <2> QED
    BY <2>1, <2>2, <2>3, LocalStep
<1>6. ASSUME StxrFail(t) PROVE DispatchInv'
  <2>1. /\ pc[t] = "stxr" /\ pc'[t] = "wait_initializing" /\ ~monitor'[t]
        /\ UNCHANGED <<shared, served, at, regs, frame, call>>
        /\ \A s \in Threads : s # t => monitor'[s] = monitor[s]
    BY <1>0, <1>6 DEF StxrFail, TypeOK
  <2>2. ControlInv(t)' /\ MonitorInv(t)' /\ ResolverInv(t)' /\ CallInv(t)'
    BY <1>0, <2>1 DEF ControlInv, MonitorInv, ResolverInv, CallInv, unit
  <2> QED
    BY <2>1, <2>2, LocalStep DEF Resolving
<1>7. ASSUME ClearLocals(t) PROVE DispatchInv'
  <2>1. /\ pc[t] = "clear" /\ pc'[t] = "dlsym" /\ at'[t] = <<unit(t), 1>>
        /\ UNCHANGED <<shared, served, monitor, regs, call>>
        /\ frame'[t].cont = frame[t].cont /\ frame'[t].regs = frame[t].regs
    BY <1>0, <1>7 DEF ClearLocals, TypeOK, Frames
  <2>2. at'[t] \in Apis /\ unit(t)' = unit(t) /\ index(t)' = 1
    BY <2>1, ThreadFacts, ApiFacts DEF unit, index
  <2>3. ControlInv(t)' /\ MonitorInv(t)' /\ CallInv(t)'
    BY <1>0, <2>1, <2>2 DEF ControlInv, MonitorInv, CallInv
  <2>4. ResolverInv(t)'
    BY <1>0, <2>1, <2>2 DEF ResolverInv, shared
  <2>5. \A u \in Units : Resolving(t, u)' <=> Resolving(t, u)
    BY <2>1, <2>2 DEF Resolving
  <2> QED
    BY <2>1, <2>3, <2>4, <2>5, LocalStep
<1>8. ASSUME WaitInitializing(t) \/ WaitPause(t) PROVE DispatchInv'
  <2>1. /\ pc[t] \in {"wait_initializing", "wait_pause"}
        /\ pc'[t] \in {"wait_initializing", "wait_pause", "finish"}
        /\ UNCHANGED <<shared, served, monitor, at, regs, frame, call>>
    BY <1>0, <1>8 DEF WaitInitializing, WaitPause, TypeOK
  <2>2. ControlInv(t)' /\ MonitorInv(t)' /\ ResolverInv(t)' /\ CallInv(t)'
    BY <1>0, <2>1 DEF ControlInv, MonitorInv, ResolverInv, CallInv, unit
  <2>3. \A u \in Units : Resolving(t, u)' <=> Resolving(t, u)
    BY <2>1 DEF Resolving
  <2> QED
    BY <2>1, <2>2, <2>3, LocalStep
<1>9. ASSUME Dlsym(t) PROVE DispatchInv'
  <2>1. /\ pc[t] = "dlsym" /\ UNCHANGED <<shared, served, seen, monitor, at, call>>
        /\ \/ pc'[t] = "publish_old" /\ frame' = frame
           \/ /\ pc'[t] = "dladdr"
              /\ \E i \in Images : frame' = [frame EXCEPT ![t].cand = <<i, at[t]>>]
    BY <1>0, <1>9 DEF Dlsym, TypeOK
  <2>2. /\ frame'[t].cont = frame[t].cont /\ frame'[t].regs = frame[t].regs
        /\ frame'[t].fbase = frame[t].fbase
        /\ pc'[t] = "dladdr" => \E i \in Images : frame'[t].cand = <<i, at[t]>>
    BY <1>0, <2>1 DEF TypeOK, Frames
  <2>3. at[t] \in Apis /\ unit(t)' = unit(t) /\ index(t)' = index(t)
    BY <2>1, ThreadFacts DEF unit, index
  <2>4. ControlInv(t)' /\ MonitorInv(t)' /\ CallInv(t)'
    BY <1>0, <2>1, <2>2, <2>3 DEF ControlInv, MonitorInv, CallInv
  <2>5. ResolverInv(t)'
    <3>1. pc'[t] = "dladdr" => frame'[t].cand \in Pointers /\ frame'[t].cand[2] = at[t]
      BY <2>2, <2>3 DEF Pointers
    <3> QED
      BY <1>0, <2>1, <2>2, <2>3, <3>1 DEF ResolverInv, shared
  <2>6. \A u \in Units : Resolving(t, u)' <=> Resolving(t, u)
    BY <2>1, <2>3 DEF Resolving
  <2> QED
    BY <2>1, <2>4, <2>5, <2>6, LocalStep
<1>10. ASSUME Dladdr(t) PROVE DispatchInv'
  <2>1. pc[t] = "dladdr" /\ UNCHANGED <<shared, served, seen, monitor, at, call>>
    BY <1>10 DEF Dladdr
  <2>2. /\ frame'[t].cont = frame[t].cont /\ frame'[t].regs = frame[t].regs
        /\ frame'[t].cand = frame[t].cand
        /\ \/ pc'[t] = "publish_old"
           \/ /\ pc'[t] = "store" /\ frame'[t].fbase \in NamedFor[unit(t)]
              /\ frame'[t].cand[1] = frame'[t].fbase
              /\ index(t) # 1 => frame'[t].fbase = frame[t].fbase
    <3>1. CASE /\ Goto(t, "publish_old")
               /\ frame' = frame \/ frame' = [frame EXCEPT ![t].fbase = frame[t].cand[1]]
      BY <1>0, <3>1 DEF TypeOK, Frames
    <3>2. CASE /\ Goto(t, "store") /\ index(t) = 1
               /\ frame[t].cand[1] \in NamedFor[unit(t)]
               /\ frame' = [frame EXCEPT ![t].fbase = frame[t].cand[1]]
      BY <1>0, <3>2 DEF TypeOK, Frames
    <3>3. CASE /\ Goto(t, "store") /\ index(t) # 1 /\ frame' = frame
               /\ frame[t].cand[1] \in NamedFor[unit(t)]
               /\ frame[t].cand[1] = frame[t].fbase
      BY <1>0, <3>3 DEF TypeOK, Frames
    <3> HIDE DEF Goto
    <3> QED
      BY <1>10, <3>1, <3>2, <3>3, DladdrOutcome, Zenon
  <2>3. /\ at[t] \in Apis /\ unit(t)' = unit(t) /\ index(t)' = index(t)
        /\ index(t) \in 1..Count[unit(t)]
    BY <2>1, ThreadFacts DEF unit, index
  <2>4. ControlInv(t)' /\ MonitorInv(t)' /\ CallInv(t)'
    BY <1>0, <2>1, <2>2, <2>3 DEF ControlInv, MonitorInv, CallInv
  <2>5. ResolverInv(t)'
    BY <1>0, <2>1, <2>2, <2>3 DEF ResolverInv, shared
  <2>6. \A u \in Units : Resolving(t, u)' <=> Resolving(t, u)
    BY <2>1, <2>2, <2>3 DEF Resolving
  <2> QED
    BY <2>1, <2>4, <2>5, <2>6, LocalStep
<1>11. ASSUME Finish(t) PROVE DispatchInv'
  <2>1. /\ pc[t] = "finish" /\ pc'[t] = "dispatch" /\ regs'[t] = frame[t].regs
        /\ at'[t] = frame[t].cont /\ UNCHANGED <<shared, served, monitor, call>>
    BY <1>0, <1>11 DEF Finish, TypeOK
  <2>2. ControlInv(t)' /\ MonitorInv(t)' /\ ResolverInv(t)' /\ CallInv(t)'
    BY <1>0, <2>1 DEF ControlInv, MonitorInv, ResolverInv, CallInv, unit
  <2> QED
    BY <2>1, <2>2, LocalStep DEF Resolving
<1> QED
  BY <1>1, <1>2, <1>3, <1>4, <1>5, <1>6, <1>7, <1>8, <1>9, <1>10, <1>11

-----------------------------------------------------------------------------
(***************************************************************************)
(* The steps other threads can see: the branches out of the payload (they  *)
(* are recorded in served) and the four kinds of store.                    *)
(***************************************************************************)
\* A call branched to the image of its published unit is served correctly.
LEMMA BranchStep ==
    ASSUME DispatchInv, NEW t \in Threads, TypeOK', OthersUnmoved(t),
           pc[t] \in {"dispatch", "new"},
           state[unit(t)] \in {STATE_NEW, STATE_OLD},
           Branch(t, <<ImageOf(unit(t)), at[t]>>),
           UNCHANGED <<shared, monitor, at, regs, frame, call>>
    PROVE  DispatchInv'
<1> DEFINE u == unit(t)
<1>0. /\ TypeOK /\ ControlInv(t) /\ MonitorInv(t) /\ CallInv(t)
      /\ u \in Units /\ at[t] \in Apis /\ index(t) \in 1..Count[u]
  BY ThreadFacts DEF DispatchInv
<1>1. ImageOf(u) \in Images
  BY <1>0, DispatchAssumption DEF DispatchInv, UnitInv, ImageOf
<1>2. <<ImageOf(u), at[t]>> # Null
  BY <1>0, <1>1, DispatchAssumption DEF Pointers
<1>3. /\ pc'[t] = "run" /\ target'[t] = <<ImageOf(u), at[t]>>
      /\ served' = [served EXCEPT ![u] = @ \cup {ImageOf(u)}]
  BY <1>0, <1>2 DEF Branch, Goto, TypeOK
<1>4. \A v \in Units : ImageOf(v)' = ImageOf(v)
  BY DEF ImageOf, shared
<1>5. ControlInv(t)' /\ MonitorInv(t)' /\ ResolverInv(t)'
  BY <1>0, <1>3 DEF ControlInv, MonitorInv, ResolverInv, FramedPcs, ResolverPcs, unit
<1>6. CallInv(t)'
  BY <1>0, <1>3, <1>4 DEF CallInv, ControlInv, shared, unit
<1>7. ASSUME NEW s \in Threads, s # t
      PROVE  ControlInv(s)' /\ MonitorInv(s)' /\ ResolverInv(s)' /\ CallInv(s)'
  <2>1. ControlInv(s) /\ MonitorInv(s) /\ ResolverInv(s) /\ CallInv(s) /\ Unmoved(s)
    BY <1>7 DEF DispatchInv, OthersUnmoved
  <2>2. pc[s] = "run" => unit(s) \in Units
    BY <2>1, ApiFacts DEF ControlInv, unit
  <2>3. ControlInv(s)' /\ MonitorInv(s)'
    BY <2>1 DEF ControlInv, MonitorInv, Unmoved, unit, shared
  <2>4. ResolverInv(s)'
    BY <2>1 DEF ResolverInv, Unmoved, unit, index, shared
  <2>5. CallInv(s)'
    BY <2>1, <2>2, <1>4 DEF CallInv, Unmoved, unit, shared
  <2> QED
    BY <2>3, <2>4, <2>5
<1>8. ASSUME NEW v \in Units
      PROVE  UnitInv(v)'
  <2>1. UnitInv(v)
    BY DEF DispatchInv
  <2>2. \A s \in Threads : Resolving(s, v)' <=> Resolving(s, v)
    BY <1>3 DEF OthersUnmoved, Unmoved, Resolving, unit, ResolverPcs
  <2>3. served'[v] \subseteq {ImageOf(v)}
    BY <1>0, <1>3, <2>1 DEF UnitInv, TypeOK
  <2>4. state[v] \in {STATE_UNINITIALIZED, STATE_INITIALIZING} => served'[v] = {}
    BY <1>0, <1>3, <2>1, Words DEF UnitInv, TypeOK
  <2> QED
    BY <1>4, <2>1, <2>2, <2>3, <2>4 DEF UnitInv, shared
<1> QED
  BY <1>5, <1>6, <1>7, <1>8 DEF DispatchInv

LEMMA DispatchOldStep ==
    ASSUME DispatchInv, NEW t \in Threads, TypeOK', OthersUnmoved(t), DispatchOld(t)
    PROVE  DispatchInv'
<1>1. pc[t] = "dispatch" /\ unit(t) \in Units
  BY ThreadFacts DEF DispatchOld
<1>2. state[unit(t)] = STATE_OLD
  BY <1>1 DEF DispatchInv, TypeOK, DispatchOld
<1>3. ImageOf(unit(t)) = App
  BY <1>2, Words DEF ImageOf
<1> QED
  BY <1>1, <1>2, <1>3, BranchStep DEF DispatchOld

LEMMA NewBranchStep ==
    ASSUME DispatchInv, NEW t \in Threads, TypeOK', OthersUnmoved(t), NewBranch(t)
    PROVE  DispatchInv'
<1>1. /\ pc[t] = "new" /\ unit(t) \in Units /\ at[t] = <<unit(t), index(t)>>
      /\ index(t) \in 1..Count[unit(t)]
  BY ThreadFacts DEF NewBranch
<1>2. state[unit(t)] = STATE_NEW /\ at[t] \in seen[t]
  BY <1>1 DEF DispatchInv, CallInv
<1>3. slot[at[t]] = <<ImageOf(unit(t)), at[t]>>
  BY <1>1, <1>2 DEF DispatchInv, UnitInv
<1>4. Branch(t, <<ImageOf(unit(t)), at[t]>>)
  BY <1>2, <1>3 DEF NewBranch, SlotValues
<1> QED
  BY <1>1, <1>2, <1>4, BranchStep DEF NewBranch

\* The exclusive store finds the word UNINITIALIZED, hence nobody resolving.
LEMMA StxrStep ==
    ASSUME DispatchInv, NEW t \in Threads, TypeOK', OthersUnmoved(t), StxrSucceed(t)
    PROVE  DispatchInv'
<1> DEFINE u == unit(t)
<1>0. /\ TypeOK /\ ControlInv(t) /\ ResolverInv(t) /\ CallInv(t)
      /\ pc[t] = "stxr" /\ u \in Units /\ state[u] = STATE_UNINITIALIZED
  BY ThreadFacts DEF StxrSucceed, DispatchInv, MonitorInv
<1>1. /\ pc'[t] = "clear" /\ UNCHANGED <<slot, seen, at, regs, frame, call, target, served>>
      /\ state'[u] = STATE_INITIALIZING /\ ~monitor'[t]
      /\ \A v \in Units : v # u => state'[v] = state[v] /\ released'[v] = released[v]
  BY <1>0 DEF StxrSucceed, BreakMonitors, Goto, TypeOK
<1>2. \A s \in Threads : ~Resolving(s, u)
  BY <1>0, Words DEF DispatchInv, ResolverInv, Resolving
<1>3. ControlInv(t)' /\ MonitorInv(t)' /\ ResolverInv(t)' /\ CallInv(t)'
  BY <1>0, <1>1 DEF ControlInv, MonitorInv, ResolverInv, CallInv, unit, FramedPcs, ResolverPcs
<1>4. ASSUME NEW s \in Threads, s # t
      PROVE  ControlInv(s)' /\ MonitorInv(s)' /\ ResolverInv(s)' /\ CallInv(s)'
  <2>1. ControlInv(s) /\ MonitorInv(s) /\ ResolverInv(s) /\ CallInv(s) /\ Unmoved(s)
    BY <1>4 DEF DispatchInv, OthersUnmoved
  <2>2. pc[s] # "idle" => unit(s) \in Units
    BY <2>1, ApiFacts DEF ControlInv, unit
  <2>3. ControlInv(s)'
    BY <2>1 DEF ControlInv, Unmoved, unit
  <2>4. MonitorInv(s)'
    BY <1>1, <2>1, <2>2 DEF MonitorInv, Unmoved, unit, StxrSucceed, BreakMonitors
  <2>5. pc[s] \in ResolverPcs \cup {"new", "run"} => unit(s) # u
    BY <1>0, <2>1, Words DEF ResolverInv, CallInv
  <2>6. ResolverInv(s)'
    <3>1. pc[s] \in ResolverPcs => state'[unit(s)] = state[unit(s)]
      BY <1>1, <2>2, <2>5 DEF ResolverPcs
    <3> QED
      BY <1>1, <2>1, <3>1 DEF ResolverInv, Unmoved, unit, index
  <2>7. CallInv(s)'
    <3>1. pc[s] \in {"new", "run"} => state'[unit(s)] = state[unit(s)]
      BY <1>1, <2>2, <2>5
    <3> QED
      BY <1>1, <2>1, <3>1 DEF CallInv, ImageOf, Unmoved, unit
  <2> QED
    BY <2>3, <2>4, <2>6, <2>7
<1>5. ASSUME NEW v \in Units
      PROVE  UnitInv(v)'
  <2>0. UnitInv(v)
    BY DEF DispatchInv
  <2>1. CASE v = u
    <3>1. \A s \in Threads : s # t => ~Resolving(s, v)'
      BY <1>2, <2>1 DEF OthersUnmoved, Unmoved, Resolving, unit
    <3>2. Resolving(t, v)'
      BY <1>1, <2>1 DEF Resolving, unit, ResolverPcs
    <3>3. served'[v] = {} /\ state'[v] = STATE_INITIALIZING
      BY <1>0, <1>1, <2>0, <2>1 DEF UnitInv
    <3> QED
      BY <3>1, <3>2, <3>3, Words DEF UnitInv
  <2>2. CASE v # u
    <3>1. \A s \in Threads : Resolving(s, v)' <=> Resolving(s, v)
      BY <1>1, <2>2 DEF OthersUnmoved, Unmoved, Resolving, unit
    <3>2. /\ state'[v] = state[v] /\ released'[v] = released[v]
          /\ ImageOf(v)' = ImageOf(v)
      BY <1>1, <2>2 DEF ImageOf
    <3> QED
      BY <1>1, <2>0, <3>1, <3>2 DEF UnitInv
  <2> QED
    BY <2>1, <2>2
<1> QED
  BY <1>3, <1>4, <1>5 DEF DispatchInv

\* A store goes into a unit that only its own thread is resolving, and extends
\* the run of slots that hold the unit's image.
LEMMA StoreStep ==
    ASSUME DispatchInv, NEW t \in Threads, TypeOK', OthersUnmoved(t), Store(t)
    PROVE  DispatchInv'
<1> DEFINE u == unit(t)
<1> DEFINE k == index(t)
<1>0. /\ TypeOK /\ ControlInv(t) /\ MonitorInv(t) /\ ResolverInv(t)
      /\ pc[t] = "store" /\ u \in Units /\ state[u] = STATE_INITIALIZING
      /\ at[t] \in Apis /\ at[t] = <<u, k>> /\ k \in 1..Count[u] /\ Count[u] \in Nat
  BY ThreadFacts DEF Store, DispatchInv, ResolverInv, ResolverPcs
<1>1. /\ UNCHANGED <<state, released, monitor, regs, frame, call, target, served>>
      /\ slot'[at[t]] = frame[t].cand /\ seen'[t] = seen[t] \cup {at[t]}
      /\ \A a \in Apis : a # at[t] => slot'[a] = slot[a]
      /\ pc'[t] \in {"publish_new", "dlsym"}
  BY <1>0 DEF Store, Goto, TypeOK
<1>2. /\ pc'[t] = "publish_new" => k = Count[u] /\ at'[t] = at[t]
      /\ pc'[t] = "dlsym" => at'[t] = <<u, k + 1>>
  BY <1>0 DEF Store, Goto, TypeOK
<1>3. frame[t].cand = <<frame[t].fbase, at[t]>>
  BY <1>0 DEF ResolverInv, Pointers
<1>4. /\ at'[t] \in Apis /\ at'[t][1] = u
      /\ pc'[t] = "publish_new" => at'[t][2] = k
      /\ pc'[t] = "dlsym" => at'[t][2] = k + 1
  <2>1. at'[t] \in Apis \cup {Null}
    BY DEF TypeOK
  <2>2. at'[t] \in Apis
    <3>1. CASE pc'[t] = "publish_new"
      BY <3>1, <1>0, <1>2
    <3>2. CASE pc'[t] = "dlsym"
      <4>1. k # Count[u]
        BY <1>0, <3>2 DEF Store, Goto, TypeOK
      <4>2. k + 1 \in 1..Count[u]
        BY <1>0, <4>1
      <4>3. <<u, k + 1>> \in Apis
        BY <1>0, <4>2, ApiFacts
      <4> QED
        BY <1>2, <3>2, <4>3
    <3> QED
      BY <1>1, <3>1, <3>2
  <2> QED
    BY <1>0, <1>1, <1>2, <2>2
<1>5. ControlInv(t)' /\ MonitorInv(t)' /\ CallInv(t)'
  BY <1>0, <1>1, <1>4 DEF ControlInv, MonitorInv, CallInv, unit, FramedPcs, ResolverPcs
<1>6. ResolverInv(t)'
  <2>1. frame[t].fbase \in NamedFor[u]
    BY <1>0 DEF ResolverInv
  <2>2. ASSUME NEW j \in 1..Count[u], j < k
        PROVE  /\ slot'[<<u, j>>] = <<frame[t].fbase, <<u, j>>>>
               /\ <<u, j>> \in seen'[t]
    <3>1. slot[<<u, j>>] = <<frame[t].fbase, <<u, j>>>> /\ <<u, j>> \in seen[t]
      BY <1>0, <2>2 DEF ResolverInv
    <3>2. <<u, j>> \in Apis /\ <<u, j>> # at[t]
      BY <1>0, <2>2, ApiFacts
    <3> QED
      BY <1>1, <3>1, <3>2
  <2>3. slot'[<<u, k>>] = <<frame[t].fbase, <<u, k>>>> /\ <<u, k>> \in seen'[t]
    BY <1>0, <1>1, <1>3
  <2>4. \A j \in 1..Count[u] : pc'[t] = "publish_new" \/ j < k + 1 => j < k \/ j = k
    BY <1>0, <1>2
  <2>5. \A j \in 1..Count[u] : j < at'[t][2] \/ pc'[t] = "publish_new" =>
           /\ slot'[<<u, j>>] = <<frame[t].fbase, <<u, j>>>>
           /\ <<u, j>> \in seen'[t]
    BY <1>1, <1>4, <2>2, <2>3, <2>4
  <2> QED
    BY <1>0, <1>1, <1>4, <2>1, <2>5 DEF ResolverInv, unit, index, ResolverPcs
<1>7. \A v \in Units : \A j \in 1..Count[v] : v # u => slot'[<<v, j>>] = slot[<<v, j>>]
  BY <1>0, <1>1, ApiFacts
<1>8. \A v \in Units : state[v] = STATE_NEW => ImageOf(v)' = ImageOf(v)
  <2> SUFFICES ASSUME NEW v \in Units, state[v] = STATE_NEW
               PROVE  ImageOf(v)' = ImageOf(v)
    OBVIOUS
  <2>1. v # u /\ 1 \in 1..Count[v]
    BY <1>0, Words, DispatchAssumption
  <2> QED
    BY <1>1, <1>7, <2>1 DEF ImageOf
<1>9. \A v \in Units : ImageOf(v)' = ImageOf(v)
  BY <1>1, <1>8 DEF ImageOf
<1>10. ASSUME NEW s \in Threads, s # t
       PROVE  ControlInv(s)' /\ MonitorInv(s)' /\ ResolverInv(s)' /\ CallInv(s)'
  <2>1. ControlInv(s) /\ MonitorInv(s) /\ ResolverInv(s) /\ CallInv(s) /\ Unmoved(s)
    BY <1>10 DEF DispatchInv, OthersUnmoved
  <2>2. pc[s] # "idle" => unit(s) \in Units
    BY <2>1, ApiFacts DEF ControlInv, unit
  <2>3. ControlInv(s)' /\ MonitorInv(s)'
    BY <1>1, <2>1 DEF ControlInv, MonitorInv, Unmoved, unit
  <2>4. pc[s] \in ResolverPcs => unit(s) \in Units /\ unit(s) # u
    <3>1. UnitInv(u)
      BY <1>0 DEF DispatchInv
    <3>2. Resolving(t, u)
      BY <1>0 DEF Resolving, ResolverPcs
    <3> QED
      BY <1>10, <2>2, <3>1, <3>2 DEF UnitInv, Resolving, ResolverPcs
  <2>5. ResolverInv(s)'
    BY <1>1, <1>7, <2>1, <2>4 DEF ResolverInv, Unmoved, unit, index, ResolverPcs
  <2>6. CallInv(s)'
    BY <1>1, <1>9, <2>1, <2>2 DEF CallInv, Unmoved, unit
  <2> QED
    BY <2>3, <2>5, <2>6
<1>11. ASSUME NEW v \in Units
       PROVE  UnitInv(v)'
  <2>1. UnitInv(v)
    BY DEF DispatchInv
  <2>2. \A s \in Threads : Resolving(s, v)' <=> Resolving(s, v)
    BY <1>0, <1>1, <1>4 DEF OthersUnmoved, Unmoved, Resolving, unit, ResolverPcs
  <2>3. state[v] = STATE_NEW => v # u
    BY <1>0, Words
  <2> QED
    BY <1>1, <1>7, <1>9, <2>1, <2>2, <2>3 DEF UnitInv
<1> QED
  BY <1>5, <1>6, <1>10, <1>11 DEF DispatchInv

\* The publication ends the resolver; its unit takes the image the slots hold.
LEMMA PublishStep ==
    ASSUME DispatchInv, NEW t \in Threads, TypeOK', OthersUnmoved(t),
           NEW w \in {STATE_NEW, STATE_OLD}, Publish(t, w),
           pc[t] = IF w = STATE_NEW THEN "publish_new" ELSE "publish_old"
    PROVE  DispatchInv'
<1> DEFINE u == unit(t)
<1>0. /\ TypeOK /\ ControlInv(t) /\ MonitorInv(t) /\ ResolverInv(t)
      /\ pc[t] \in ResolverPcs /\ pc[t] # "idle"
  BY DEF DispatchInv, ResolverPcs
<1>1. u \in Units /\ state[u] = STATE_INITIALIZING
  BY <1>0, ThreadFacts DEF ResolverInv
<1>2. /\ pc'[t] = "finish" /\ UNCHANGED <<slot, seen, at, regs, frame, call, target, served>>
      /\ state'[u] = w /\ released'[u] = seen[t] /\ ~monitor'[t]
      /\ \A v \in Units : v # u => state'[v] = state[v] /\ released'[v] = released[v]
  BY <1>0, <1>1 DEF Publish, BreakMonitors, Goto, TypeOK
<1>3. \A s \in Threads : Resolving(s, u) => s = t
  BY <1>0, <1>1 DEF DispatchInv, UnitInv, Resolving
<1>4. ControlInv(t)' /\ MonitorInv(t)' /\ ResolverInv(t)' /\ CallInv(t)'
  BY <1>0, <1>2 DEF ControlInv, MonitorInv, ResolverInv, CallInv, unit, FramedPcs, ResolverPcs
<1>5. ASSUME NEW s \in Threads, s # t
      PROVE  ControlInv(s)' /\ MonitorInv(s)' /\ ResolverInv(s)' /\ CallInv(s)'
  <2>1. ControlInv(s) /\ MonitorInv(s) /\ ResolverInv(s) /\ CallInv(s) /\ Unmoved(s)
    BY <1>5 DEF DispatchInv, OthersUnmoved
  <2>2. pc[s] # "idle" => unit(s) \in Units
    BY <2>1, ApiFacts DEF ControlInv, unit
  <2>3. ControlInv(s)'
    BY <2>1 DEF ControlInv, Unmoved, unit
  <2>4. MonitorInv(s)'
    BY <1>2, <2>1, <2>2 DEF MonitorInv, Unmoved, unit, Publish, BreakMonitors
  <2>5. pc[s] \in ResolverPcs \cup {"new", "run"} => unit(s) # u
    BY <1>1, <1>3, <1>5, <2>1, Words DEF Resolving, CallInv
  <2>6. ResolverInv(s)'
    <3>1. pc[s] \in ResolverPcs => state'[unit(s)] = state[unit(s)]
      BY <1>2, <2>2, <2>5 DEF ResolverPcs
    <3> QED
      BY <1>2, <2>1, <3>1 DEF ResolverInv, Unmoved, unit, index
  <2>7. CallInv(s)'
    <3>1. pc[s] \in {"new", "run"} => state'[unit(s)] = state[unit(s)]
      BY <1>2, <2>2, <2>5
    <3> QED
      BY <1>2, <2>1, <3>1 DEF CallInv, ImageOf, Unmoved, unit
  <2> QED
    BY <2>3, <2>4, <2>6, <2>7
<1>6. ASSUME NEW v \in Units
      PROVE  UnitInv(v)'
  <2>0. UnitInv(v)
    BY DEF DispatchInv
  <2>1. CASE v = u
    <3>1. \A s \in Threads : ~Resolving(s, v)'
      BY <1>2, <1>3, <2>1 DEF OthersUnmoved, Unmoved, Resolving, unit, ResolverPcs
    <3>2. served'[v] = {} /\ state'[v] = w /\ released'[v] = seen[t]
      BY <1>1, <1>2, <2>0, <2>1 DEF UnitInv
    <3>3. CASE w = STATE_NEW
      <4>1. /\ frame[t].fbase \in NamedFor[v]
            /\ \A k \in 1..Count[v] : /\ slot[<<v, k>>] = <<frame[t].fbase, <<v, k>>>>
                                      /\ <<v, k>> \in seen[t]
        BY <1>0, <2>1, <3>3 DEF ResolverInv
      <4>2. 1 \in 1..Count[v]
        BY DispatchAssumption
      <4>3. ImageOf(v)' = frame[t].fbase
        BY <1>2, <3>2, <3>3, <4>1, <4>2 DEF ImageOf
      <4> QED
        BY <1>2, <3>1, <3>2, <3>3, <4>1, <4>3, Words DEF UnitInv
    <3>4. CASE w = STATE_OLD
      BY <3>1, <3>2, <3>4, Words DEF UnitInv
    <3> QED
      BY <3>3, <3>4
  <2>2. CASE v # u
    <3>1. \A s \in Threads : Resolving(s, v)' <=> Resolving(s, v)
      BY <1>0, <1>2, <2>2 DEF OthersUnmoved, Unmoved, Resolving, unit, ResolverPcs
    <3>2. /\ state'[v] = state[v] /\ released'[v] = released[v]
          /\ ImageOf(v)' = ImageOf(v)
      BY <1>2, <2>2 DEF ImageOf
    <3> QED
      BY <1>2, <2>0, <3>1, <3>2 DEF UnitInv
  <2> QED
    BY <2>1, <2>2
<1> QED
  BY <1>4, <1>5, <1>6 DEF DispatchInv

-----------------------------------------------------------------------------
(***************************************************************************)
(* The invariant holds in every behaviour, and what follows from it.       *)
(***************************************************************************)
LEMMA InitInv == Init => DispatchInv
<1> SUFFICES ASSUME Init
             PROVE  DispatchInv
  OBVIOUS
<1>1. TypeOK
  <2>1. EmptyFrame \in Frames
    BY DEF EmptyFrame, Frames
  <2> QED
    BY <2>1 DEF Init, TypeOK, Pcs
<1>2. ASSUME NEW t \in Threads
      PROVE  ControlInv(t) /\ MonitorInv(t) /\ ResolverInv(t) /\ CallInv(t)
  BY DEF Init, ControlInv, MonitorInv, ResolverInv, CallInv, FramedPcs, ResolverPcs
<1>3. ASSUME NEW u \in Units
      PROVE  UnitInv(u)
  BY Words DEF Init, UnitInv, Resolving, ResolverPcs
<1> QED
  BY <1>1, <1>2, <1>3 DEF DispatchInv

LEMMA NextInv == DispatchInv /\ [Next]_vars => DispatchInv'
<1> SUFFICES ASSUME DispatchInv, [Next]_vars
             PROVE  DispatchInv'
  OBVIOUS
<1>0. TypeOK'
  BY InvType
<1>1. ASSUME NEW t \in Threads, Taken(t)
      PROVE  DispatchInv'
  <2>1. OthersUnmoved(t)
    BY <1>1, LeavesOthers
  <2>2. CASE DispatchOld(t)
    BY <1>0, <2>1, <2>2, DispatchOldStep
  <2>3. CASE NewBranch(t)
    BY <1>0, <2>1, <2>3, NewBranchStep
  <2>4. CASE StxrSucceed(t)
    BY <1>0, <2>1, <2>4, StxrStep
  <2>5. CASE Store(t)
    BY <1>0, <2>1, <2>5, StoreStep
  <2>6. CASE PublishNew(t)
    BY <1>0, <2>1, <2>6, PublishStep, Words DEF PublishNew
  <2>7. CASE PublishOld(t)
    BY <1>0, <2>1, <2>7, PublishStep, Words DEF PublishOld
  <2> QED
    BY <1>0, <1>1, <2>1, <2>2, <2>3, <2>4, <2>5, <2>6, <2>7, LocalSteps DEF Taken, Step
<1>2. CASE UNCHANGED vars
  BY <1>0, <1>2 DEF vars, shared, local, DispatchInv, ControlInv, MonitorInv, ResolverInv,
     CallInv, UnitInv, ImageOf, Resolving, unit, index
<1> QED
  BY <1>1, <1>2 DEF Next, Taken

\* The inductive invariant: TypeOK, the control of every thread, the meaning
\* of every reservation, word and slot, and who has been served by what.
THEOREM Invariance == Spec => []DispatchInv
BY InitInv, NextInv, PTL DEF Spec

\* The state of the protocol stays well typed, for any number of threads,
\* units, APIs and images.
THEOREM TypeCorrect == Spec => []TypeOK
<1>1. DispatchInv => TypeOK
  BY DEF DispatchInv
<1> QED
  BY Invariance, <1>1, PTL

\* No unit is ever served by two images: no half NEW, half OLD application.
THEOREM WholeUnit == Spec => []OneImagePerUnit
<1>1. DispatchInv => OneImagePerUnit
  BY DEF DispatchInv, UnitInv, OneImagePerUnit
<1> QED
  BY Invariance, <1>1, PTL

\* A NEW unit was resolved completely, in one image that bears its basename.
THEOREM NewIsWhole == Spec => []NewIsOneNamedImage
<1>1. DispatchInv => NewIsOneNamedImage
  BY DEF DispatchInv, UnitInv, NewIsOneNamedImage
<1> QED
  BY Invariance, <1>1, PTL

\* Every call reaches its own API, on an allowed side, with its registers.
THEOREM CallsArrive == Spec => []CallIntegrity
<1>1. DispatchInv => CallIntegrity
  <2> SUFFICES ASSUME DispatchInv, NEW t \in Threads, pc[t] = "run"
               PROVE  /\ target[t] \in {<<i, call[t]>> : i \in NamedFor[call[t][1]] \cup {App}}
                      /\ regs[t] = "caller"
    BY DEF CallIntegrity
  <2>1. unit(t) \in Units /\ unit(t) = call[t][1]
    BY ThreadFacts
  <2>2. regs[t] = "caller" /\ target[t] = <<ImageOf(unit(t)), call[t]>>
    BY DEF DispatchInv, ControlInv, CallInv
  <2>3. ImageOf(unit(t)) \in NamedFor[unit(t)] \cup {App}
    BY <2>1 DEF DispatchInv, UnitInv, ImageOf
  <2> QED
    BY <2>1, <2>2, <2>3
<1> QED
  BY Invariance, <1>1, PTL

\* A unit is INITIALIZING exactly while one thread, and only one, resolves it.
THEOREM SoleInitializer == Spec => []OneInitializer
<1>1. DispatchInv => OneInitializer
  BY DEF DispatchInv, UnitInv, ResolverInv, OneInitializer, Resolving
<1> QED
  BY Invariance, <1>1, PTL

\* A published word and its slots stay as they are.
LEMMA Final ==
    ASSUME DispatchInv, [Next]_vars, NEW u \in Units, state[u] \in {STATE_NEW, STATE_OLD}
    PROVE  /\ state'[u] = state[u]
           /\ \A k \in 1..Count[u] : slot'[<<u, k>>] = slot[<<u, k>>]
<1>1. TypeOK /\ \A t \in Threads : ResolverInv(t) /\ MonitorInv(t)
  BY DEF DispatchInv
<1>2. CASE UNCHANGED vars
  BY <1>2 DEF vars, shared
<1>3. ASSUME NEW t \in Threads, Taken(t)
      PROVE  UNCHANGED <<state, slot>> \/
             (unit(t) # u /\ (pc[t] = "stxr" \/ pc[t] \in ResolverPcs)
               /\ (slot' = slot \/ Store(t))
               /\ (state' = state \/ \E w : state' = [state EXCEPT ![unit(t)] = w]))
  <2>1. CASE StxrSucceed(t)
    BY <1>1, <2>1, Words DEF StxrSucceed, MonitorInv
  <2>2. CASE Store(t)
    BY <1>1, <2>2, Words DEF Store, ResolverInv, ResolverPcs
  <2>3. CASE PublishNew(t) \/ PublishOld(t)
    BY <1>1, <2>3, Words DEF PublishNew, PublishOld, Publish, ResolverInv, ResolverPcs
  <2> QED
    BY <1>3, <2>1, <2>2, <2>3 DEF Taken, Step, shared, Call, Return, DispatchOld, DispatchElse,
       Enter, NewBranch, Bootstrap, StxrFail, ClearLocals, WaitInitializing, WaitPause,
       Dlsym, Dladdr, Finish
<1>4. ASSUME NEW t \in Threads, Store(t), unit(t) # u, NEW k \in 1..Count[u]
      PROVE  slot'[<<u, k>>] = slot[<<u, k>>]
  BY <1>1, <1>4, ApiFacts DEF Store, TypeOK, unit
<1> QED
  BY <1>1, <1>2, <1>3, <1>4 DEF Next, Taken, TypeOK

\* Once a unit is published, no step of any thread changes its word or slots.
THEOREM DecisionsAreFinal == Spec => PublishedIsFinal
<1>1. DispatchInv /\ [Next]_vars =>
        [\A u \in Units : state[u] \in {STATE_NEW, STATE_OLD} =>
          /\ state'[u] = state[u]
          /\ \A k \in 1..Count[u] : slot'[<<u, k>>] = slot[<<u, k>>]]_vars
  BY Final
<1> QED
  BY Invariance, <1>1, PTL DEF Spec, PublishedIsFinal

-----------------------------------------------------------------------------
(***************************************************************************)
(* What is left of a call whose unit is published or about to be.          *)
(***************************************************************************)
\* The unit of t's call has its decision, or t itself is making it.
Settled(t) ==
    \/ pc[t] \in ResolverPcs
    \/ pc[t] \notin {"idle", "run"} /\ state[unit(t)] \in {STATE_NEW, STATE_OLD}

\* The most steps t takes from there to the branch out of the payload.
StepsLeft(t) ==
    LET later == 3 * (Count[unit(t)] - index(t))
    IN CASE pc[t] = "clear" -> 3 * Count[unit(t)] + 5
         [] pc[t] = "dlsym" -> later + 7
         [] pc[t] = "dladdr" -> later + 6
         [] pc[t] = "store" -> later + 5
         [] pc[t] = "enter" -> 7
         [] pc[t] = "bootstrap" -> 6
         [] pc[t] \in {"stxr", "wait_pause"} -> 5
         [] pc[t] \in {"publish_new", "publish_old", "wait_initializing"} -> 4
         [] pc[t] = "finish" -> 3
         [] pc[t] = "dispatch" -> 2
         [] pc[t] = "new" -> 1
         [] OTHER -> 0

ComesNearer(t) == StepsLeft(t)' < StepsLeft(t) /\ (pc'[t] = "run" \/ Settled(t)')

\* A resolver's blocks, up to its publication.
LEMMA ResolverNearer ==
    ASSUME DispatchInv, NEW t \in Threads, pc[t] \in ResolverPcs, Step(t)
    PROVE  ComesNearer(t)
<1>0. /\ TypeOK /\ unit(t) \in Units /\ index(t) \in 1..Count[unit(t)]
      /\ Count[unit(t)] \in Nat \ {0} /\ at[t] = <<unit(t), index(t)>>
  BY ThreadFacts DEF DispatchInv, ResolverPcs
<1> DEFINE n == Count[unit(t)]
<1> DEFINE k == index(t)
<1>1. CASE ClearLocals(t)
  <2>1. pc[t] = "clear" /\ pc'[t] = "dlsym" /\ at'[t] = <<unit(t), 1>>
    BY <1>0, <1>1 DEF ClearLocals, Goto, TypeOK
  <2>2. StepsLeft(t) = 3 * n + 5
    BY <2>1 DEF StepsLeft
  <2>3. StepsLeft(t)' = 3 * (n - 1) + 7
    BY <2>1 DEF StepsLeft, unit, index
  <2> QED BY <1>0, <2>1, <2>2, <2>3 DEF ComesNearer, Settled, ResolverPcs
<1>2. CASE Dlsym(t)
  <2>1. pc[t] = "dlsym" /\ pc'[t] \in {"publish_old", "dladdr"} /\ at'[t] = at[t]
    BY <1>0, <1>2 DEF Dlsym, Goto, TypeOK
  <2>2. StepsLeft(t) = 3 * (n - k) + 7
    BY <2>1 DEF StepsLeft
  <2>3. StepsLeft(t)' \in {4, 3 * (n - k) + 6}
    BY <2>1 DEF StepsLeft, unit, index
  <2> QED BY <1>0, <2>1, <2>2, <2>3 DEF ComesNearer, Settled, ResolverPcs
<1>3. CASE Dladdr(t)
  <2>1. pc[t] = "dladdr" /\ pc'[t] \in {"publish_old", "store"} /\ at'[t] = at[t]
    BY <1>0, <1>3, DladdrOutcome DEF Dladdr, Goto, TypeOK
  <2>2. StepsLeft(t) = 3 * (n - k) + 6
    BY <2>1 DEF StepsLeft
  <2>3. StepsLeft(t)' \in {4, 3 * (n - k) + 5}
    BY <2>1 DEF StepsLeft, unit, index
  <2> QED BY <1>0, <2>1, <2>2, <2>3 DEF ComesNearer, Settled, ResolverPcs
<1>4. CASE Store(t)
  <2>1. /\ pc[t] = "store"
        /\ \/ k = n /\ pc'[t] = "publish_new"
           \/ k # n /\ pc'[t] = "dlsym" /\ at'[t] = <<unit(t), k + 1>>
    BY <1>0, <1>4 DEF Store, Goto, TypeOK
  <2>2. StepsLeft(t) = 3 * (n - k) + 5
    BY <2>1 DEF StepsLeft
  <2>3. \/ k = n /\ StepsLeft(t)' = 4
        \/ k # n /\ StepsLeft(t)' = 3 * (n - (k + 1)) + 7
    BY <2>1 DEF StepsLeft, unit, index
  <2> QED BY <1>0, <2>1, <2>2, <2>3 DEF ComesNearer, Settled, ResolverPcs
<1>5. CASE PublishNew(t) \/ PublishOld(t)
  <2>1. /\ pc[t] \in {"publish_new", "publish_old"} /\ pc'[t] = "finish" /\ at'[t] = at[t]
        /\ state'[unit(t)] \in {STATE_NEW, STATE_OLD}
    BY <1>0, <1>5 DEF PublishNew, PublishOld, Publish, Goto, TypeOK
  <2>2. StepsLeft(t) = 4 /\ StepsLeft(t)' = 3
    BY <2>1 DEF StepsLeft
  <2>3. unit(t)' = unit(t)
    BY <2>1 DEF unit
  <2> QED BY <2>1, <2>2, <2>3 DEF ComesNearer, Settled
<1> QED
  BY <1>1, <1>2, <1>3, <1>4, <1>5 DEF Step, ResolverPcs, DispatchOld, DispatchElse, Enter,
     NewBranch, Bootstrap, StxrSucceed, StxrFail, WaitInitializing, WaitPause, Finish

\* The other blocks, once the unit is published: nobody waits any more, no
\* reservation is left to succeed under, and the veneer sends the call out.
LEMMA PublishedNearer ==
    ASSUME DispatchInv, NEW t \in Threads, Step(t), pc[t] \notin {"idle", "run"},
           state[unit(t)] \in {STATE_NEW, STATE_OLD}
    PROVE  ComesNearer(t)
<1>0. /\ TypeOK /\ unit(t) \in Units /\ ~monitor[t] /\ pc[t] \notin ResolverPcs
      /\ state[unit(t)] \notin {STATE_UNINITIALIZED, STATE_INITIALIZING}
  BY ThreadFacts, Words DEF DispatchInv, MonitorInv, ResolverInv
<1>1. /\ \/ pc[t] = "dispatch" /\ pc'[t] \in {"new", "run"}
         \/ pc[t] = "enter" /\ pc'[t] = "bootstrap"
         \/ pc[t] = "new" /\ pc'[t] = "run"
         \/ pc[t] \in {"bootstrap", "stxr", "wait_pause"} /\ pc'[t] = "wait_initializing"
         \/ pc[t] = "wait_initializing" /\ pc'[t] = "finish"
         \/ pc[t] = "finish" /\ pc'[t] = "dispatch"
      /\ state' = state
      /\ IF pc[t] = "finish" THEN at'[t] = frame[t].cont ELSE at'[t] = at[t]
  <2>1. CASE DispatchOld(t) \/ NewBranch(t)
    BY <1>0, <2>1 DEF DispatchOld, NewBranch, Branch, Goto, TypeOK, shared
  <2>2. CASE DispatchElse(t) \/ Enter(t) \/ Bootstrap(t)
    BY <1>0, <2>2 DEF DispatchElse, Enter, Bootstrap, Goto, TypeOK, shared
  <2>3. CASE StxrFail(t) \/ WaitInitializing(t) \/ WaitPause(t) \/ Finish(t)
    BY <1>0, <2>3 DEF StxrFail, WaitInitializing, WaitPause, Finish, Goto, TypeOK, shared
  <2> QED
    BY <1>0, <2>1, <2>2, <2>3 DEF Step, ResolverPcs, StxrSucceed, ClearLocals, Dlsym, Dladdr,
       Store, PublishNew, PublishOld
<1>2. unit(t)' = unit(t)
  <2>1. CASE pc[t] = "finish"
    BY <1>1, <2>1 DEF DispatchInv, ControlInv, FramedPcs, unit
  <2> QED BY <1>1, <2>1 DEF unit
<1>3. pc'[t] = "run" \/ Settled(t)'
  BY <1>1, <1>2 DEF Settled
<1>4. StepsLeft(t)' < StepsLeft(t)
  BY <1>1 DEF StepsLeft
<1> QED BY <1>3, <1>4 DEF ComesNearer

\* A call whose unit is published, or whose thread is deciding it, is never set
\* back: each step of its own takes it nearer to the branch, which is at most
\* 3 * Count + 5 steps away, and no step of another thread changes that.
THEOREM CallsGoForward ==
    Spec => /\ [](\A t \in Threads : Settled(t) => StepsLeft(t) \in 1..(3 * Count[unit(t)] + 5))
            /\ [][\A t \in Threads : Settled(t) =>
                     ComesNearer(t) \/ (UNCHANGED <<pc[t], at[t]>> /\ Settled(t)')]_vars
<1>1. ASSUME DispatchInv, NEW t \in Threads, Settled(t)
      PROVE  StepsLeft(t) \in 1..(3 * Count[unit(t)] + 5)
  <2>1. /\ index(t) \in 1..Count[unit(t)] /\ Count[unit(t)] \in Nat \ {0}
        /\ pc[t] \in Pcs \ {"idle", "run"}
    BY <1>1, ThreadFacts DEF Settled, DispatchInv, TypeOK, ResolverPcs
  <2> QED BY <2>1 DEF StepsLeft, Pcs, FramedPcs, ResolverPcs
<1>2. ASSUME DispatchInv, Next, NEW t \in Threads, Settled(t)
      PROVE  ComesNearer(t) \/ (UNCHANGED <<pc[t], at[t]>> /\ Settled(t)')
  <2>1. PICK s \in Threads : Taken(s)
    BY <1>2 DEF Next, Taken
  <2>2. pc[t] \notin {"idle", "run"}
    BY <1>2 DEF Settled, ResolverPcs
  <2>3. CASE s = t
    <3>1. Step(t)
      BY <2>1, <2>2, <2>3 DEF Taken, Return, Call
    <3> QED BY <1>2, <2>2, <3>1, ResolverNearer, PublishedNearer DEF Settled
  <2>4. CASE s # t
    <3>1. UNCHANGED <<pc[t], at[t]>>
      BY <1>2, <2>1, <2>4, LeavesOthers DEF OthersUnmoved, Unmoved
    <3>2. unit(t)' = unit(t) /\ unit(t) \in Units
      BY <1>2, <2>2, <3>1, ThreadFacts DEF unit
    <3>3. state[unit(t)] \in {STATE_NEW, STATE_OLD} => state'[unit(t)] = state[unit(t)]
      BY <1>2, <3>2, Final
    <3> QED BY <1>2, <3>1, <3>2, <3>3 DEF Settled
  <2> QED BY <2>3, <2>4
<1>3. DispatchInv => \A t \in Threads : Settled(t) => StepsLeft(t) \in 1..(3 * Count[unit(t)] + 5)
  BY <1>1
<1>4. DispatchInv /\ [Next]_vars =>
        [\A t \in Threads : Settled(t) =>
           ComesNearer(t) \/ (UNCHANGED <<pc[t], at[t]>> /\ Settled(t)')]_vars
  BY <1>2
<1> QED
  BY Invariance, <1>3, <1>4, PTL DEF Spec

-----------------------------------------------------------------------------
(***************************************************************************)
(* The refinement.                                                         *)
(***************************************************************************)
\* A step that neither publishes nor takes a thread into or out of a call is
\* a stutter of the arbitration.
LEMMA StutterStep ==
    ASSUME DispatchInv, NEW t \in Threads, OthersUnmoved(t), UNCHANGED <<call, target>>,
           pc[t] \notin {"idle", "run"}, pc'[t] \notin {"idle", "run"},
           \A u \in Units : DecisionOf(u)' = DecisionOf(u)
    PROVE  UNCHANGED Arb!vars
<1>1. \A s \in Threads : PhaseOf(s)' = PhaseOf(s)
  BY DEF OthersUnmoved, Unmoved, PhaseOf
<1> QED
  BY <1>1 DEF Arb!vars

LEMMA DecisionKept ==
    ASSUME DispatchInv, UNCHANGED <<state, slot>>
    PROVE  \A u \in Units : DecisionOf(u)' = DecisionOf(u)
BY DEF DecisionOf

\* The decision of a published unit is the image it serves.
LEMMA DecisionIsImage ==
    ASSUME DispatchInv, NEW u \in Units
    PROVE  /\ state[u] \in {STATE_NEW, STATE_OLD} => DecisionOf(u) = ImageOf(u)
           /\ state[u] \notin {STATE_NEW, STATE_OLD} => DecisionOf(u) = "undecided"
           /\ ImageOf(u) \in Images
<1>1. ImageOf(u) \in NamedFor[u] \cup {App}
  BY DEF DispatchInv, UnitInv, ImageOf
<1>2. ImageOf(u) \in Images
  BY <1>1, DispatchAssumption
<1> QED
  BY <1>2, Words DEF DecisionOf, ImageOf

LEMMA ServeStep ==
    ASSUME DispatchInv, NEW t \in Threads, OthersUnmoved(t), TypeOK',
           pc[t] \in {"dispatch", "new"},
           state[unit(t)] \in {STATE_NEW, STATE_OLD},
           Branch(t, <<ImageOf(unit(t)), at[t]>>),
           UNCHANGED <<state, slot, call>>
    PROVE  Arb!Serve(t, at[t])
<1>1. at[t] \in Apis /\ unit(t) \in Units /\ at[t] = call[t] /\ unit(t) = at[t][1]
  BY ThreadFacts DEF DispatchInv, ControlInv, unit
<1>2. TypeOK
  BY DEF DispatchInv
<1>3. pc'[t] = "run" /\ target'[t] = <<ImageOf(unit(t)), at[t]>>
  BY <1>2 DEF Branch, Goto, TypeOK
<1>4. DecisionOf(unit(t)) = ImageOf(unit(t)) /\ DecisionOf(unit(t)) # "undecided"
  BY <1>1, DecisionIsImage, DispatchAssumption
<1>5. PhaseOf(t) = [kind |-> "pending", api |-> at[t]]
  BY <1>1 DEF PhaseOf
<1>6. PhaseOf(t)' = [kind |-> "served", api |-> at[t], image |-> DecisionOf(unit(t))]
  BY <1>3, <1>4 DEF PhaseOf
<1>7. \A s \in Threads : s # t => PhaseOf(s)' = PhaseOf(s)
  BY DEF OthersUnmoved, Unmoved, PhaseOf
<1>8. \A u \in Units : DecisionOf(u)' = DecisionOf(u)
  BY DecisionKept
<1> QED
  BY <1>1, <1>4, <1>5, <1>6, <1>7, <1>8
     DEF Arb!Serve, Arb!Pending, Arb!Served, Arb!Undecided

LEMMA DecideStep ==
    ASSUME DispatchInv, NEW t \in Threads, OthersUnmoved(t), DispatchInv',
           NEW w \in {STATE_NEW, STATE_OLD}, Publish(t, w),
           pc[t] = IF w = STATE_NEW THEN "publish_new" ELSE "publish_old"
    PROVE  \E u \in Units, i \in Images : Arb!Decide(u, i)
<1>1. PICK u \in Units : u = unit(t) /\ state[u] = STATE_INITIALIZING
  BY ThreadFacts DEF DispatchInv, ResolverInv, ResolverPcs
<1>2. TypeOK /\ pc[t] \notin {"idle", "run"}
  BY DEF DispatchInv
<1>3. /\ pc'[t] = "finish" /\ state'[u] = w /\ UNCHANGED <<slot, call, target>>
      /\ \A v \in Units : v # u => state'[v] = state[v]
  BY <1>1, <1>2 DEF Publish, Goto, TypeOK
<1>4. call[t] \in Apis /\ call[t][1] = u /\ PhaseOf(t) = [kind |-> "pending", api |-> call[t]]
  BY <1>1, <1>2, ThreadFacts DEF PhaseOf
<1>5. \A s \in Threads : PhaseOf(s)' = PhaseOf(s)
  BY <1>2, <1>3 DEF OthersUnmoved, Unmoved, PhaseOf
<1>6. DecisionOf(u) = "undecided"
  BY <1>1, DecisionIsImage, Words
<1>7. /\ DecisionOf(u)' \in NamedFor[u] \cup {App}
      /\ DecisionOf(u)' \in Images
  <2>1. DecisionOf(u)' = ImageOf(u)'
    BY <1>3, Words DEF DecisionOf, ImageOf
  <2>2. ImageOf(u)' \in NamedFor[u] \cup {App}
    BY DEF DispatchInv, UnitInv, ImageOf
  <2> QED
    BY <2>1, <2>2, DispatchAssumption
<1>8. \A v \in Units : v # u => DecisionOf(v)' = DecisionOf(v)
  BY <1>3 DEF DecisionOf
<1>9. Arb!Decide(u, DecisionOf(u)')
  BY <1>4, <1>5, <1>6, <1>7, <1>8 DEF Arb!Decide, Arb!Pending, Arb!Undecided
<1> QED
  BY <1>7, <1>9

LEMMA RefineStep ==
    ASSUME DispatchInv, [Next]_vars
    PROVE  [Arb!Next]_(Arb!vars)
<1>0. TypeOK /\ DispatchInv' /\ TypeOK'
  BY NextInv DEF DispatchInv
<1>1. CASE UNCHANGED vars
  BY <1>1 DEF vars, shared, local, Arb!vars, DecisionOf, PhaseOf
<1>2. ASSUME NEW t \in Threads, Taken(t)
      PROVE  [Arb!Next]_(Arb!vars)
  <2>0. OthersUnmoved(t)
    BY <1>2, LeavesOthers
  <2>1. ASSUME NEW a \in Apis, Call(t, a) PROVE Arb!Call(t, a)
    <3>1. /\ pc[t] = "idle" /\ pc'[t] = "dispatch" /\ call'[t] = a
          /\ UNCHANGED <<state, slot>>
      BY <1>0, <2>1 DEF Call, Goto, TypeOK, shared
    <3>2. \A s \in Threads : s # t => PhaseOf(s)' = PhaseOf(s)
      BY <2>0 DEF OthersUnmoved, Unmoved, PhaseOf
    <3>3. \A u \in Units : DecisionOf(u)' = DecisionOf(u)
      BY <3>1, DecisionKept
    <3>4. PhaseOf(t) = [kind |-> "idle"] /\ PhaseOf(t)' = [kind |-> "pending", api |-> a]
      BY <3>1 DEF PhaseOf
    <3> QED
      BY <3>2, <3>3, <3>4 DEF Arb!Call, Arb!Idle, Arb!Pending
  <2>2. CASE Return(t)
    <3>1. pc[t] = "run" /\ pc'[t] = "idle" /\ UNCHANGED <<state, slot>>
      BY <1>0, <2>2 DEF Return, Goto, TypeOK, shared
    <3>2. \A s \in Threads : s # t => PhaseOf(s)' = PhaseOf(s)
      BY <2>0 DEF OthersUnmoved, Unmoved, PhaseOf
    <3>3. \A u \in Units : DecisionOf(u)' = DecisionOf(u)
      BY <3>1, DecisionKept
    <3>4. \E a \in Apis, i \in Images : target[t] = <<i, a>>
      BY <3>1, ThreadFacts, DecisionIsImage DEF DispatchInv, CallInv
    <3>5. /\ \E a \in Apis, i \in Images :
               PhaseOf(t) = [kind |-> "served", api |-> a, image |-> i]
          /\ PhaseOf(t)' = [kind |-> "idle"]
      BY <3>1, <3>4 DEF PhaseOf
    <3>6. Arb!Return(t)
      BY <3>2, <3>3, <3>5 DEF Arb!Return, Arb!Idle, Arb!Served
    <3> QED
      BY <3>6 DEF Arb!Next
  <2>3. CASE DispatchOld(t)
    <3>1. pc[t] = "dispatch" /\ unit(t) \in Units /\ at[t] \in Apis
      BY <2>3, ThreadFacts DEF DispatchOld
    <3>2. state[unit(t)] = STATE_OLD
      BY <1>0, <2>3, <3>1 DEF TypeOK, DispatchOld
    <3>3. ImageOf(unit(t)) = App
      BY <3>2, Words DEF ImageOf
    <3>4. Arb!Serve(t, at[t])
      BY <1>0, <2>0, <2>3, <3>1, <3>2, <3>3, ServeStep DEF DispatchOld, shared
    <3> QED
      BY <3>1, <3>4 DEF Arb!Next
  <2>4. CASE NewBranch(t)
    <3>1. /\ pc[t] = "new" /\ unit(t) \in Units /\ at[t] = <<unit(t), index(t)>>
          /\ index(t) \in 1..Count[unit(t)] /\ at[t] \in Apis
      BY <2>4, ThreadFacts DEF NewBranch
    <3>2. state[unit(t)] = STATE_NEW /\ at[t] \in seen[t]
      BY <3>1 DEF DispatchInv, CallInv
    <3>3. slot[at[t]] = <<ImageOf(unit(t)), at[t]>>
      BY <3>1, <3>2 DEF DispatchInv, UnitInv
    <3>4. Branch(t, <<ImageOf(unit(t)), at[t]>>)
      BY <2>4, <3>2, <3>3 DEF NewBranch, SlotValues
    <3>5. Arb!Serve(t, at[t])
      BY <1>0, <2>0, <2>4, <3>1, <3>2, <3>4, ServeStep DEF NewBranch, shared
    <3> QED
      BY <3>1, <3>5 DEF Arb!Next
  <2>5. CASE PublishNew(t) \/ PublishOld(t)
    <3>1. \E u \in Units, i \in Images : Arb!Decide(u, i)
      BY <1>0, <2>0, <2>5, DecideStep, Words DEF PublishNew, PublishOld
    <3> QED
      BY <3>1 DEF Arb!Next
  <2>6. CASE StxrSucceed(t)
    <3>1. pc[t] = "stxr" /\ pc'[t] = "clear" /\ UNCHANGED <<slot, call, target>>
      BY <1>0, <2>6 DEF StxrSucceed, Goto, TypeOK
    <3>2. unit(t) \in Units /\ state[unit(t)] = STATE_UNINITIALIZED
      BY <2>6, <3>1, ThreadFacts DEF StxrSucceed, DispatchInv, MonitorInv
    <3>3. \A u \in Units : DecisionOf(u)' = DecisionOf(u)
      BY <1>0, <2>6, <3>1, <3>2, Words DEF StxrSucceed, TypeOK, DecisionOf
    <3> QED
      BY <2>0, <3>1, <3>3, StutterStep
  <2>7. CASE Store(t)
    <3>1. /\ pc[t] = "store" /\ pc'[t] \in {"publish_new", "dlsym"}
          /\ UNCHANGED <<state, call, target>> /\ at[t] = <<unit(t), index(t)>>
      BY <1>0, <2>7, ThreadFacts DEF Store, Goto, TypeOK
    <3>2. state[unit(t)] = STATE_INITIALIZING
      BY <3>1 DEF DispatchInv, ResolverInv, ResolverPcs
    <3>3. \A u \in Units : DecisionOf(u)' = DecisionOf(u)
      <4> SUFFICES ASSUME NEW u \in Units PROVE DecisionOf(u)' = DecisionOf(u)
        OBVIOUS
      <4>1. CASE state[u] = STATE_NEW
        <5>1. u # unit(t) /\ <<u, 1>> \in Apis
          BY <3>2, <4>1, Words, ApiFacts, DispatchAssumption
        <5>2. slot'[<<u, 1>>] = slot[<<u, 1>>]
          BY <1>0, <2>7, <3>1, <5>1 DEF Store, TypeOK
        <5> QED
          BY <3>1, <4>1, <5>2 DEF DecisionOf
      <4>2. CASE state[u] # STATE_NEW
        BY <3>1, <4>2 DEF DecisionOf
      <4> QED
        BY <4>1, <4>2
    <3> QED
      BY <2>0, <3>1, <3>3, StutterStep
  <2>8. CASE \/ DispatchElse(t) \/ Enter(t) \/ Bootstrap(t) \/ StxrFail(t) \/ ClearLocals(t)
             \/ WaitInitializing(t) \/ WaitPause(t) \/ Dlsym(t) \/ Finish(t)
    <3>1. /\ pc[t] \notin {"idle", "run"} /\ pc'[t] \notin {"idle", "run"}
          /\ UNCHANGED <<state, slot, call, target>>
      BY <1>0, <2>8 DEF DispatchElse, Enter, Bootstrap, StxrFail, ClearLocals,
         WaitInitializing, WaitPause, Dlsym, Finish, Goto, TypeOK, shared
    <3> QED
      BY <2>0, <3>1, DecisionKept, StutterStep
  <2>9. CASE Dladdr(t)
    <3>1. /\ pc[t] \notin {"idle", "run"} /\ UNCHANGED <<state, slot, call, target>>
      BY <2>9 DEF Dladdr, shared
    <3>2. pc'[t] \notin {"idle", "run"}
      BY <1>0, <2>9, DladdrOutcome DEF Goto, TypeOK
    <3> QED
      BY <2>0, <3>1, <3>2, DecisionKept, StutterStep
  <2> QED
    BY <1>2, <2>1, <2>2, <2>3, <2>4, <2>5, <2>6, <2>7, <2>8, <2>9
       DEF Taken, Step, Arb!Next
<1> QED
  BY <1>1, <1>2 DEF Next, Taken

\* The payload implements the arbitration: a unit's publication is its one
\* decision, and every branch out of the payload obeys it.
THEOREM Refinement == Spec => ImplementsArbitration
<1>1. Init => Arb!Init
  BY Words DEF Init, Arb!Init, Arb!Undecided, Arb!Idle, DecisionOf, PhaseOf
<1>2. DispatchInv /\ [Next]_vars => [Arb!Next]_(Arb!vars)
  BY RefineStep
<1> QED
  BY Invariance, <1>1, <1>2, PTL DEF Spec, ImplementsArbitration, Arb!Spec
=============================================================================
