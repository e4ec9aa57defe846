------------------------- MODULE LeaseGuardProofs -------------------------
(***************************************************************************)
(* Machine-checked theorems about LeaseGuard, for any number of peers,     *)
(* guards and goroutines and any lease duration: that they implement the   *)
(* fence and orphan no hold whoever calls them, and that they exclude each *)
(* other when callers keep the contract of leaseguard.go:47-49.            *)
(***************************************************************************)
EXTENDS LeaseGuard, TLAPS

\* The actions of one thread of a guard, the crash of a peer, and the clock.
LEMMA NextCases ==
  ASSUME Next
  PROVE  \/ \E g \in Guard : TryAcquire(g)
         \/ \E g \in Guard : AcquireGet(g)
         \/ \E g \in Guard : AcquireCreate(g)
         \/ \E g \in Guard : AcquireUpdate(g)
         \/ \E g \in Guard : AcquireInstall(g)
         \/ \E g \in Guard : AcquireMark(g)
         \/ \E l \in Loop : LoopDone(l)
         \/ \E l \in Loop : LoopTick(l)
         \/ \E l \in Loop : RenewGet(l)
         \/ \E l \in Loop : RenewUpdate(l)
         \/ \E l \in Loop : OnLost(l)
         \/ \E r \in Releaser : CallRelease(r)
         \/ \E t \in Loop \cup Releaser : ReleaseCheck(t)
         \/ \E t \in Loop \cup Releaser : ReleaseCancel(t)
         \/ \E t \in Loop \cup Releaser : ReleaseUnheld(t)
         \/ \E t \in Loop \cup Releaser : ReleaseGet(t)
         \/ \E t \in Loop \cup Releaser : ReleaseUpdate(t)
         \/ \E p \in Peer : Crash(p)
         \/ Tick
  BY Zenon DEF Next, Internal, AcquireStep, LoopStep, ReleaseStep

\* A step of a caller that keeps the contract is a step of the unconstrained guards.
LEMMA ContractNextIsNext == ContractNext => Next
  BY Zenon DEF ContractNext, Next

LEMMA ValidityType == Validity \in Nat
  BY GuardAssumption DEF Validity

\* Setting one flag of a family of flags leaves a family of flags.
LEMMA FlagType ==
  ASSUME NEW S, NEW f \in [S -> BOOLEAN], NEW x, NEW b \in BOOLEAN
  PROVE  [f EXCEPT ![x] = b] \in [S -> BOOLEAN]
  BY Zenon

-----------------------------------------------------------------------------
\* The part of the type invariant about program counters and the times read.
ThreadsOK ==
  /\ pc \in [Thread -> AcquirePC \cup LoopPC]
  /\ \A g \in Guard : pc[g] \in AcquirePC
  /\ \A l \in Loop : pc[l] \in LoopPC
  /\ \A r \in Releaser : pc[r] \in ReleasePC
  /\ now \in [Thread -> Nat]

\* Moving a thread to a program counter of its kind keeps ThreadsOK.
LEMMA GotoType ==
  ASSUME TypeOK, NEW t \in Thread, NEW from, NEW to, Goto(t, from, to),
         t \in Guard => to \in AcquirePC,
         t \in Loop => to \in LoopPC,
         t \in Releaser => to \in ReleasePC
  PROVE  ThreadsOK'
<1>1. pc' \in [Thread -> AcquirePC \cup LoopPC]
  BY Zenon DEF TypeOK, Goto, Thread, ReleasePC, LoopPC
<1>2. now' \in [Thread -> Nat]
  BY Zenon DEF TypeOK, Goto
<1>3. \A u \in Thread : pc'[u] = IF u = t THEN to ELSE pc[u]
  BY Zenon DEF TypeOK, Goto
<1> QED
  BY <1>1, <1>2, <1>3, Zenon DEF TypeOK, ThreadsOK, Thread

\* Every step of the guards keeps the variables in their types.
LEMMA TypeStep == TypeOK /\ [Next]_vars => TypeOK'
<1> SUFFICES ASSUME TypeOK, [Next]_vars PROVE TypeOK'
  BY Zenon
<1> USE GuardAssumption
<1> USE DEF TypeOK, ThreadsOK, Thread, Get, Write, NoWrite, Fault, LostAnswer, TakenBy,
            Id, Cleared, AcquirePC, LoopPC, ReleasePC, GivingUp
<1>1. ASSUME NEW g \in Guard, TryAcquire(g) PROVE TypeOK'
  <2>1. owns' \in [Guard -> BOOLEAN] BY <1>1, FlagType DEF TryAcquire
  <2>2. UNCHANGED <<clock, lease, fresh, held, cancelOf, cancelled, faults>>
    BY <1>1, Zenon DEF TryAcquire
  <2>3. ThreadsOK' BY <1>1, GotoType DEF TryAcquire
  <2> QED BY <2>1, <2>2, <2>3, Zenon
<1>2. ASSUME NEW g \in Guard, AcquireGet(g) PROVE TypeOK'
  BY <1>2, GotoType DEF AcquireGet
<1>3. ASSUME NEW g \in Guard, AcquireCreate(g) PROVE TypeOK'
  <2>1. ThreadsOK' BY <1>3, GotoType, Zenon DEF AcquireCreate
  <2>2. TakenBy(g) \in [created : BOOLEAN, holder : Peer \cup {Nobody}, renew : Nat]
    OBVIOUS
  <2> HIDE DEF TakenBy, ThreadsOK
  <2>3. lease' \in [created : BOOLEAN, holder : Peer \cup {Nobody}, renew : Nat]
    BY <1>3, <2>2 DEF AcquireCreate
  <2>4. fresh' \subseteq Thread /\ faults' \in Nat
    BY <1>3 DEF AcquireCreate
  <2>5. UNCHANGED <<clock, held, cancelOf, cancelled, owns>>
    BY <1>3, Zenon DEF AcquireCreate
  <2> QED BY <2>1, <2>3, <2>4, <2>5, Zenon DEF ThreadsOK
<1>4. ASSUME NEW g \in Guard, AcquireUpdate(g) PROVE TypeOK'
  <2>1. ThreadsOK' BY <1>4, GotoType, Zenon DEF AcquireUpdate
  <2>2. TakenBy(g) \in [created : BOOLEAN, holder : Peer \cup {Nobody}, renew : Nat]
    OBVIOUS
  <2> HIDE DEF TakenBy, ThreadsOK
  <2>3. lease' \in [created : BOOLEAN, holder : Peer \cup {Nobody}, renew : Nat]
    BY <1>4, <2>2 DEF AcquireUpdate
  <2>4. fresh' \subseteq Thread /\ faults' \in Nat
    BY <1>4 DEF AcquireUpdate
  <2>5. UNCHANGED <<clock, held, cancelOf, cancelled, owns>>
    BY <1>4, Zenon DEF AcquireUpdate
  <2> QED BY <2>1, <2>3, <2>4, <2>5, Zenon DEF ThreadsOK
<1>5. ASSUME NEW g \in Guard, AcquireInstall(g) PROVE TypeOK'
  BY <1>5, GotoType DEF AcquireInstall
<1>6. ASSUME NEW g \in Guard, AcquireMark(g) PROVE TypeOK'
  <2>1. cancelOf[g] \in Loop \cup {NoLoop} BY Zenon
  <2>2. \A u \in Thread : pc'[u] = IF u = cancelOf[g] THEN "wait"
                                 ELSE IF u = g THEN "off" ELSE pc[u]
    BY <1>6, <2>1, Zenon DEF AcquireMark
  <2>3. pc' \in [Thread -> AcquirePC \cup LoopPC]
    BY <1>6, <2>1, Zenon DEF AcquireMark
  <2>4. ThreadsOK' BY <1>6, <2>1, <2>2, <2>3 DEF AcquireMark
  <2>5. held' \in [Guard -> BOOLEAN] /\ owns' \in [Guard -> BOOLEAN]
    BY <1>6, FlagType, Zenon DEF AcquireMark
  <2>6. UNCHANGED <<clock, lease, fresh, cancelOf, cancelled, faults>>
    BY <1>6, Zenon DEF AcquireMark
  <2> QED BY <2>4, <2>5, <2>6, Zenon
<1>7. ASSUME NEW l \in Loop, LoopDone(l) PROVE TypeOK'
  BY <1>7, GotoType DEF LoopDone
<1>8. ASSUME NEW l \in Loop, LoopTick(l) PROVE TypeOK'
  BY <1>8, GotoType DEF LoopTick
<1>9. ASSUME NEW l \in Loop, RenewGet(l) PROVE TypeOK'
  BY <1>9, GotoType DEF RenewGet
<1>10. ASSUME NEW l \in Loop, RenewUpdate(l) PROVE TypeOK'
  <2>1. ThreadsOK' BY <1>10, GotoType, Zenon DEF RenewUpdate
  <2>2. TakenBy(l) \in [created : BOOLEAN, holder : Peer \cup {Nobody}, renew : Nat]
    OBVIOUS
  <2> HIDE DEF TakenBy, ThreadsOK
  <2>3. lease' \in [created : BOOLEAN, holder : Peer \cup {Nobody}, renew : Nat]
    BY <1>10, <2>2, Zenon DEF RenewUpdate
  <2>4. fresh' \subseteq Thread /\ faults' \in Nat
    BY <1>10 DEF RenewUpdate
  <2>5. UNCHANGED <<clock, held, cancelOf, cancelled, owns>>
    BY <1>10, Zenon DEF RenewUpdate
  <2> QED BY <2>1, <2>3, <2>4, <2>5, Zenon DEF ThreadsOK
<1>11. ASSUME NEW l \in Loop, OnLost(l) PROVE TypeOK'
  BY <1>11, GotoType DEF OnLost
<1>12. ASSUME NEW r \in Releaser, CallRelease(r) PROVE TypeOK'
  BY <1>12, GotoType DEF CallRelease
<1>13. ASSUME NEW t \in Loop \cup Releaser, ReleaseCheck(t) PROVE TypeOK'
  BY <1>13, GotoType DEF ReleaseCheck
<1>14. ASSUME NEW t \in Loop \cup Releaser, ReleaseCancel(t) PROVE TypeOK'
  BY <1>14, GotoType DEF ReleaseCancel
<1>15. ASSUME NEW t \in Loop \cup Releaser, ReleaseUnheld(t) PROVE TypeOK'
  BY <1>15, GotoType DEF ReleaseUnheld
<1>16. ASSUME NEW t \in Loop \cup Releaser, ReleaseGet(t) PROVE TypeOK'
  BY <1>16, GotoType DEF ReleaseGet
<1>17. ASSUME NEW t \in Loop \cup Releaser, ReleaseUpdate(t) PROVE TypeOK'
  BY <1>17, GotoType DEF ReleaseUpdate
<1>18. ASSUME NEW p \in Peer, Crash(p) PROVE TypeOK'
  BY <1>18 DEF Crash
<1>19. CASE Tick
  BY <1>19 DEF Tick
<1>20. CASE UNCHANGED vars
  BY <1>20, Zenon DEF vars
<1> QED
  BY <1>1, <1>2, <1>3, <1>4, <1>5, <1>6, <1>7, <1>8, <1>9, <1>10, <1>11, <1>12, <1>13, <1>14,
     <1>15, <1>16, <1>17, <1>18, <1>19, <1>20, NextCases, Zenon

\* The variables of the guards keep their types, whatever is called when.
THEOREM TypeCorrect == Spec => []TypeOK
<1>1. Init => TypeOK
  BY GuardAssumption DEF Init, TypeOK, Thread, NoLease, AcquirePC, LoopPC, ReleasePC
<1> QED
  BY <1>1, TypeStep, PTL DEF Spec
-----------------------------------------------------------------------------
\* What a thread concluded from a current read stays true until it writes.
LEMMA DecidedStep == TypeOK /\ Decided /\ [Next]_vars => Decided'
<1> SUFFICES ASSUME TypeOK, Decided, [Next]_vars PROVE Decided'
  BY Zenon
<1> USE GuardAssumption, ValidityType
<1> USE DEF TypeOK, Decided, Goto, Get, Write, NoWrite, Fault, LostAnswer, Timed
<1>1. ASSUME NEW g \in Guard, TryAcquire(g) PROVE Decided'
  BY <1>1 DEF TryAcquire, Thread
<1>2. ASSUME NEW g \in Guard, AcquireGet(g) PROVE Decided'
  BY <1>2 DEF AcquireGet, Thread
<1>3. ASSUME NEW g \in Guard, AcquireCreate(g) PROVE Decided'
  BY <1>3 DEF AcquireCreate, TakenBy, Thread
<1>4. ASSUME NEW g \in Guard, AcquireUpdate(g) PROVE Decided'
  BY <1>4 DEF AcquireUpdate, TakenBy, Thread
<1>5. ASSUME NEW g \in Guard, AcquireInstall(g) PROVE Decided'
  BY <1>5, Zenon DEF AcquireInstall, Thread
<1>6. ASSUME NEW g \in Guard, AcquireMark(g) PROVE Decided'
  BY <1>6, Zenon DEF AcquireMark, Thread
<1>7. ASSUME NEW l \in Loop, LoopDone(l) PROVE Decided'
  BY <1>7, Zenon DEF LoopDone, Thread
<1>8. ASSUME NEW l \in Loop, LoopTick(l) PROVE Decided'
  BY <1>8 DEF LoopTick, Thread
<1>9. ASSUME NEW l \in Loop, RenewGet(l) PROVE Decided'
  BY <1>9 DEF RenewGet, Thread
<1>10. ASSUME NEW l \in Loop, RenewUpdate(l) PROVE Decided'
  BY <1>10 DEF RenewUpdate, TakenBy, Thread
<1>11. ASSUME NEW l \in Loop, OnLost(l) PROVE Decided'
  BY <1>11, Zenon DEF OnLost, Thread
<1>12. ASSUME NEW r \in Releaser, CallRelease(r) PROVE Decided'
  BY <1>12, Zenon DEF CallRelease, Thread
<1>13. ASSUME NEW t \in Loop \cup Releaser, ReleaseCheck(t) PROVE Decided'
  BY <1>13 DEF ReleaseCheck, Thread
<1>14. ASSUME NEW t \in Loop \cup Releaser, ReleaseCancel(t) PROVE Decided'
  BY <1>14, Zenon DEF ReleaseCancel, Thread
<1>15. ASSUME NEW t \in Loop \cup Releaser, ReleaseUnheld(t) PROVE Decided'
  BY <1>15, Zenon DEF ReleaseUnheld, Thread
<1>16. ASSUME NEW t \in Loop \cup Releaser, ReleaseGet(t) PROVE Decided'
  BY <1>16 DEF ReleaseGet, Thread
<1>17. ASSUME NEW t \in Loop \cup Releaser, ReleaseUpdate(t) PROVE Decided'
  BY <1>17 DEF ReleaseUpdate, Cleared, NoLease, Thread
<1>18. ASSUME NEW p \in Peer, Crash(p) PROVE Decided'
  BY <1>18, Zenon DEF Crash
<1>19. CASE Tick
  BY <1>19 DEF Tick
<1>20. CASE UNCHANGED vars
  BY <1>20, Zenon DEF vars
<1> QED
  BY <1>1, <1>2, <1>3, <1>4, <1>5, <1>6, <1>7, <1>8, <1>9, <1>10, <1>11, <1>12, <1>13, <1>14,
     <1>15, <1>16, <1>17, <1>18, <1>19, <1>20, NextCases, Zenon

LEMMA DecidedInvariant == Spec => [](TypeOK /\ Decided)
<1>1. Init => Decided
  BY Zenon DEF Init, Decided, NoLease, Thread, Timed
<1> QED
  BY <1>1, TypeCorrect, TypeStep, DecidedStep, PTL DEF Spec

\* A write of holder Id(t) that t decided on from a current read is a Take.
LEMMA WriteIsTake ==
  ASSUME TypeOK, NEW t \in Thread, NEW n \in Nat, n <= clock,
         Adoptable(lease, Id(t), n),
         lease' = [created |-> TRUE, holder |-> Id(t), renew |-> n],
         UNCHANGED clock
  PROVE  FenceRefinement!Take(Id(t))
<1>1. lease.holder \in {Nobody, Id(t)} \/ FenceRefinement!Expired(lease, clock)
  BY ValidityType DEF Adoptable, Expired, FenceRefinement!Expired, TypeOK
<1>2. n \in 0..clock
  BY DEF TypeOK
<1> QED
  BY <1>1, <1>2, Zenon DEF FenceRefinement!Take

\* Every step of the guards is a step of the fence or leaves the fence alone.
LEMMA FenceStep ==
  TypeOK /\ Decided /\ [Next]_vars => [FenceRefinement!Next]_(FenceRefinement!vars)
<1> SUFFICES ASSUME TypeOK, Decided, [Next]_vars
             PROVE  FenceRefinement!Next \/ UNCHANGED <<clock, lease>>
  BY Zenon DEF FenceRefinement!vars
<1> USE GuardAssumption
<1> DEFINE Goal == FenceRefinement!Next \/ UNCHANGED <<clock, lease>>
<1>0. ASSUME NEW t \in Thread, NEW n \in Nat, n <= clock, Adoptable(lease, Id(t), n),
             lease' = [created |-> TRUE, holder |-> Id(t), renew |-> n], UNCHANGED clock
      PROVE  Goal
  <2>1. FenceRefinement!Take(Id(t)) BY <1>0, WriteIsTake, Zenon
  <2>2. Id(t) \in Peer BY Zenon DEF Id
  <2> QED BY <2>1, <2>2, Zenon DEF FenceRefinement!Next
<1>1. ASSUME NEW g \in Guard, AcquireCreate(g) PROVE Goal
  <2>1. CASE lease' = TakenBy(g) /\ ~lease.created
    <3>1. Adoptable(lease, Id(g), now[g])
      BY <2>1 DEF Decided, NoLease, Adoptable
    <3>2. now[g] \in Nat /\ now[g] <= clock /\ g \in Thread
      BY <1>1, Zenon DEF AcquireCreate, Goto, Decided, TypeOK, Timed, Thread
    <3> QED BY <1>0, <1>1, <2>1, <3>1, <3>2, Zenon DEF TakenBy, AcquireCreate
  <2>2. CASE UNCHANGED lease
    BY <1>1, <2>2, Zenon DEF AcquireCreate
  <2> QED BY <1>1, <2>1, <2>2, Zenon DEF AcquireCreate, Write, NoWrite, Fault, LostAnswer
<1>2. ASSUME NEW g \in Guard, AcquireUpdate(g) PROVE Goal
  <2>1. CASE lease' = TakenBy(g) /\ g \in fresh
    <3>1. /\ Adoptable(lease, Id(g), now[g])
          /\ now[g] \in Nat /\ now[g] <= clock /\ g \in Thread
      BY <1>2, <2>1, Zenon DEF AcquireUpdate, Goto, Decided, TypeOK, Timed, Thread
    <3> QED BY <1>0, <1>2, <2>1, <3>1, Zenon DEF TakenBy, AcquireUpdate
  <2>2. CASE UNCHANGED lease
    BY <1>2, <2>2, Zenon DEF AcquireUpdate
  <2> QED BY <1>2, <2>1, <2>2, Zenon DEF AcquireUpdate, Write, NoWrite, Fault, LostAnswer
<1>3. ASSUME NEW l \in Loop, RenewUpdate(l) PROVE Goal
  <2>1. CASE lease' = TakenBy(l) /\ l \in fresh
    <3>1. /\ Renewable(lease, Id(l), now[l])
          /\ now[l] \in Nat /\ now[l] <= clock /\ l \in Thread
      BY <1>3, <2>1, Zenon DEF RenewUpdate, Goto, Decided, TypeOK, Timed, Thread
    <3>2. Adoptable(lease, Id(l), now[l])
      BY <3>1, Zenon DEF Renewable, Adoptable
    <3> QED BY <1>0, <1>3, <2>1, <3>1, <3>2, Zenon DEF TakenBy, RenewUpdate
  <2>2. CASE UNCHANGED lease
    BY <1>3, <2>2, Zenon DEF RenewUpdate
  <2> QED BY <1>3, <2>1, <2>2, Zenon DEF RenewUpdate, Write, NoWrite, Fault, LostAnswer
<1>4. ASSUME NEW t \in Loop \cup Releaser, ReleaseUpdate(t) PROVE Goal
  <2>1. CASE t \in fresh /\ lease' = Cleared
    <3>1. lease.holder = Id(t) /\ Id(t) \in Peer
      BY <1>4, <2>1, Zenon DEF ReleaseUpdate, Goto, Decided, Thread, Id
    <3> QED
      BY <1>4, <2>1, <3>1, Zenon
        DEF Cleared, FenceRefinement!Clear, FenceRefinement!Next, ReleaseUpdate
  <2>2. CASE UNCHANGED lease
    BY <1>4, <2>2, Zenon DEF ReleaseUpdate
  <2> QED BY <1>4, <2>1, <2>2, Zenon DEF ReleaseUpdate, Write, NoWrite, Fault
<1>5. CASE Tick
  BY <1>5, Zenon DEF Tick, FenceRefinement!Tick, FenceRefinement!Next
<1>6. CASE UNCHANGED vars
  BY <1>6, Zenon DEF vars
<1> QED
  BY <1>1, <1>2, <1>3, <1>4, <1>5, <1>6, NextCases, Zenon
    DEF TryAcquire, AcquireGet, AcquireInstall, AcquireMark, LoopDone, LoopTick, RenewGet,
        OnLost, CallRelease, ReleaseCheck, ReleaseCancel, ReleaseUnheld, ReleaseGet, Crash, Get,
        NoWrite, Fault

\* Guards of any number of peers, called by anyone at any time, implement the fence:
\* no peer's valid Lease is ever taken over (TryAcquire, renewOnce, Release).
THEOREM GuardsImplementFence == Spec => ImplementsFence
<1>1. Init => FenceRefinement!Init
  BY Zenon DEF Init, FenceRefinement!Init, NoLease, FenceRefinement!NoLease
<1> QED
  BY <1>1, DecidedInvariant, FenceStep, PTL DEF Spec, ImplementsFence, FenceRefinement!Spec

-----------------------------------------------------------------------------
\* No hold without a user.

\* What a move of one thread leaves alone.
LEMMA GotoMoves ==
  ASSUME TypeOK, NEW t \in Thread, NEW from, NEW to, Goto(t, from, to)
  PROVE  /\ pc[t] = from /\ pc'[t] = to
         /\ \A u \in Thread : u # t => pc'[u] = pc[u] /\ now'[u] = now[u]
         /\ now'[t] = IF to \notin Timed THEN 0 ELSE IF from \in Timed THEN now[t] ELSE clock
<1>1. pc \in [Thread -> AcquirePC \cup LoopPC] /\ now \in [Thread -> Nat]
  BY Zenon DEF TypeOK
<1> QED BY <1>1, Zenon DEF Goto

\* g.cancel cancels a loop of its own guard.
LoopsAreOwn == \A g \in Guard : cancelOf[g] # NoLoop => On[cancelOf[g]] = g

LEMMA LoopsStep ==
  ASSUME TypeOK, LoopsAreOwn, [Next]_vars
  PROVE  LoopsAreOwn'
<1>1. ASSUME NEW g \in Guard, AcquireInstall(g) PROVE LoopsAreOwn'
  BY <1>1, Zenon DEF AcquireInstall, LoopsAreOwn, TypeOK
<1>2. ASSUME NEW p \in Peer, Crash(p) PROVE LoopsAreOwn'
  BY <1>2, Zenon DEF Crash, LoopsAreOwn
<1>3. ASSUME UNCHANGED cancelOf PROVE LoopsAreOwn'
  BY <1>3, Zenon DEF LoopsAreOwn
<1> QED
  BY <1>1, <1>2, <1>3, NextCases, Zenon
    DEF vars, TryAcquire, AcquireGet, AcquireCreate, AcquireUpdate, AcquireMark, LoopDone,
        LoopTick, RenewGet, RenewUpdate, OnLost, CallRelease, ReleaseCheck, ReleaseCancel,
        ReleaseUnheld, ReleaseGet, ReleaseUpdate, Tick

\* A Release that has yet to clear g.held.
Clearing == {"relCheck", "relCancel", "relUnheld"}

\* A move that leaves held and owns alone orphans no hold, unless a Release drops out
\* before it has cleared a held guard.
LEMMA MoveOrphansNone ==
  ASSUME TypeOK, NoOrphanedHold, NEW t \in Thread, NEW from, NEW to, Goto(t, from, to),
         UNCHANGED <<held, owns>>,
         from \in Clearing => to \in Clearing \/ ~held[On[t]]
  PROVE  NoOrphanedHold'
<1> SUFFICES ASSUME NEW g \in Guard, held[g], ~owns[g]
             PROVE  \E u \in Loop \cup Releaser : On[u] = g /\ pc'[u] \in Clearing
  BY Zenon DEF NoOrphanedHold, Clearing
<1>1. PICK u \in Loop \cup Releaser : On[u] = g /\ pc[u] \in Clearing
  BY Zenon DEF NoOrphanedHold, Clearing
<1>2. pc[t] = from /\ pc'[t] = to /\ (u # t => pc'[u] = pc[u])
  BY <1>1, GotoMoves DEF Thread
<1> QED
  BY <1>1, <1>2, Zenon

\* A caller that gives up, or is told, leaves a Release at its check behind.
LEMMA GiveUpOrphansNone ==
  ASSUME TypeOK, NoOrphanedHold, NEW t \in Loop \cup Releaser, NEW from, Goto(t, from, "relCheck"),
         from \notin Clearing, owns' = [owns EXCEPT ![On[t]] = FALSE], UNCHANGED held
  PROVE  NoOrphanedHold'
<1> SUFFICES ASSUME NEW g \in Guard, held[g], ~owns'[g]
             PROVE  \E u \in Loop \cup Releaser : On[u] = g /\ pc'[u] \in Clearing
  BY Zenon DEF NoOrphanedHold, Clearing
<1>1. /\ pc[t] = from /\ pc'[t] = "relCheck"
      /\ \A u \in Loop \cup Releaser : u # t => pc'[u] = pc[u]
  BY GotoMoves DEF Thread
<1>2. CASE g = On[t]
  BY <1>1, <1>2, Zenon DEF Clearing
<1>3. CASE g # On[t]
  <2>1. ~owns[g]
    BY <1>3, Zenon DEF TypeOK
  <2> QED
    BY <1>1, <2>1 DEF NoOrphanedHold, Clearing
<1> QED
  BY <1>2, <1>3, Zenon

\* Every step of the guards orphans no hold.
LEMMA OrphanStep ==
  ASSUME TypeOK, LoopsAreOwn, NoOrphanedHold, [Next]_vars
  PROVE  NoOrphanedHold'
<1> USE GuardAssumption
<1>0. Guard \subseteq Thread /\ Loop \subseteq Thread /\ Releaser \subseteq Thread
  BY Zenon DEF Thread
<1>1. ASSUME NEW g \in Guard, TryAcquire(g) PROVE NoOrphanedHold'
  <2>1. /\ \A u \in Loop \cup Releaser : pc'[u] = pc[u]
        /\ \A h \in Guard \ {g} : owns'[h] = owns[h]
        /\ held[g] => owns'[g]
        /\ UNCHANGED held
    BY <1>0, <1>1, GotoMoves DEF TryAcquire, TypeOK
  <2> QED BY <2>1 DEF NoOrphanedHold
<1>2. ASSUME NEW t \in Thread, NEW from, NEW to, Goto(t, from, to), UNCHANGED <<held, owns>>,
             from \notin Clearing
      PROVE  NoOrphanedHold'
  BY <1>2, MoveOrphansNone, Zenon
<1>3. ASSUME NEW g \in Guard, \/ AcquireGet(g) \/ AcquireCreate(g) \/ AcquireUpdate(g)
                              \/ AcquireInstall(g)
      PROVE  NoOrphanedHold'
  BY <1>0, <1>2, <1>3, Zenon DEF AcquireGet, AcquireCreate, AcquireUpdate, AcquireInstall, Clearing
<1>4. ASSUME NEW g \in Guard, AcquireMark(g) PROVE NoOrphanedHold'
  <2>1. /\ \A h \in Guard \ {g} : held'[h] = held[h] /\ owns'[h] = owns[h]
        /\ owns'[g]
    BY <1>4, Zenon DEF AcquireMark, TypeOK
  <2>2. \A u \in Loop \cup Releaser : On[u] # g => pc'[u] = pc[u]
    <3>1. cancelOf[g] \in Thread => On[cancelOf[g]] = g
      BY Zenon DEF LoopsAreOwn
    <3> QED BY <1>0, <1>4, <3>1 DEF AcquireMark, TypeOK
  <2> QED BY <2>1, <2>2 DEF NoOrphanedHold
<1>5. ASSUME NEW l \in Loop, LoopDone(l) \/ LoopTick(l) \/ RenewGet(l) \/ RenewUpdate(l)
      PROVE  NoOrphanedHold'
  BY <1>0, <1>2, <1>5, Zenon DEF LoopDone, LoopTick, RenewGet, RenewUpdate, Clearing
<1>6. ASSUME NEW l \in Loop, OnLost(l) PROVE NoOrphanedHold'
  BY <1>6, GiveUpOrphansNone, Zenon DEF OnLost, Clearing
<1>7. ASSUME NEW r \in Releaser, CallRelease(r) PROVE NoOrphanedHold'
  BY <1>7, GiveUpOrphansNone, Zenon DEF CallRelease, Clearing
<1>8. ASSUME NEW t \in Loop \cup Releaser, ReleaseCheck(t) \/ ReleaseCancel(t) PROVE NoOrphanedHold'
  BY <1>0, <1>8, MoveOrphansNone, Zenon DEF ReleaseCheck, ReleaseCancel, Clearing
<1>9. ASSUME NEW t \in Loop \cup Releaser, ReleaseUnheld(t) PROVE NoOrphanedHold'
  <2>1. /\ \A u \in Loop \cup Releaser : u # t => pc'[u] = pc[u]
        /\ UNCHANGED owns
    BY <1>0, <1>9, GotoMoves DEF ReleaseUnheld
  <2>2. ~held'[On[t]] /\ \A g \in Guard : held'[g] => held[g]
    BY <1>0, <1>9, Zenon DEF ReleaseUnheld, TypeOK
  <2> QED BY <2>1, <2>2 DEF NoOrphanedHold
<1>10. ASSUME NEW t \in Loop \cup Releaser, ReleaseGet(t) \/ ReleaseUpdate(t) PROVE NoOrphanedHold'
  BY <1>0, <1>2, <1>10, Zenon DEF ReleaseGet, ReleaseUpdate, Clearing
<1>11. ASSUME NEW p \in Peer, Crash(p) PROVE NoOrphanedHold'
  <2>1. \A g \in Guard : held'[g] => held[g] /\ IdOf[g] # p /\ owns'[g] = owns[g]
    BY <1>0, <1>11, ZenonT(30) DEF Crash, Id, TypeOK
  <2>2. \A u \in Loop \cup Releaser : IdOf[On[u]] # p => pc'[u] = pc[u]
    BY <1>0, <1>11, Zenon DEF Crash, Id
  <2> QED BY <2>1, <2>2 DEF NoOrphanedHold
<1>12. ASSUME UNCHANGED <<held, owns, pc>> PROVE NoOrphanedHold'
  BY <1>12, Zenon DEF NoOrphanedHold
<1> QED
  BY <1>1, <1>3, <1>4, <1>5, <1>6, <1>7, <1>8, <1>9, <1>10, <1>11, <1>12, NextCases, Zenon
    DEF Tick, vars

\* A guard given up by its caller, or reported lost, never stays held with nobody to use
\* it: a Release that will clear g.held is on its way, in every interleaving of callers,
\* renew loops, errors and crashes.  The callers need not keep the contract.
THEOREM NothingHeldForNobody == Spec => []NoOrphanedHold
<1>1. Init => LoopsAreOwn /\ NoOrphanedHold
  BY Zenon DEF Init, LoopsAreOwn, NoOrphanedHold
<1>2. TypeOK /\ LoopsAreOwn /\ NoOrphanedHold /\ [Next]_vars => LoopsAreOwn' /\ NoOrphanedHold'
  BY LoopsStep, OrphanStep, Zenon
<1> QED
  BY <1>1, <1>2, TypeCorrect, PTL DEF Spec

-----------------------------------------------------------------------------
\* What guards guarantee when their callers keep the contract of leaseguard.go:47-49 and
\* renewals are timely: mutual exclusion.

\* While a guard owns the Lease, no thread of another peer may overwrite or clear it.
LEMMA OwnedIsSafe ==
  ASSUME TypeOK, Decided, ContractInv, NEW g \in Guard, Owning(g), NEW t \in Thread,
         Id(t) # IdOf[g]
  PROVE  /\ lease.created
         /\ ~(t \in fresh /\ pc[t] \in {"acqUpdate", "renewUpdate", "relUpdate"})
<1> USE GuardAssumption, ValidityType
<1>1. lease.holder = IdOf[g] /\ clock <= lease.renew + Validity /\ IdOf[g] \in Peer
  BY Zenon DEF ContractInv
<1>2. lease.created
  BY <1>1 DEF Decided, NoLease
<1>3. now[t] <= clock => ~Expired(lease, now[t])
  BY <1>1 DEF Expired, TypeOK
<1>4. now[t] <= clock => ~Adoptable(lease, Id(t), now[t]) /\ ~Renewable(lease, Id(t), now[t])
  BY <1>1, <1>3, Zenon DEF Adoptable, Renewable
<1> QED
  BY <1>1, <1>2, <1>4, Zenon DEF Decided, Timed

\* ContractInv survives a step that keeps the Leases of owning guards valid and the
\* calls in flight young, and that begins no acquisition, no hold and no Release.
LEMMA ContractFrame ==
  ASSUME ContractInv,
         \A g \in Guard : Owning(g)' =>
           lease'.holder = IdOf[g] /\ clock' <= lease'.renew + Validity,
         \A u \in Thread : pc'[u] \in Timed => clock' <= now'[u] + Validity,
         \A g \in Guard : pc'[g] # "off" => pc[g] # "off",
         \A g \in Guard : held'[g] => held[g],
         \A u \in Thread : pc'[u] \in Releasing => pc[u] \in Releasing,
         \A u \in Thread : pc'[u] \in {"relGet", "relUpdate"} => pc[u] \in {"relGet", "relUpdate"}
  PROVE  ContractInv'
<1>1. \A g \in Guard : pc'[g] # "off" =>
        /\ \A h \in Guard : IdOf[h] = IdOf[g] => ~held'[h] /\ (h # g => pc'[h] = "off")
        /\ \A u \in Thread : Id(u) = IdOf[g] => pc'[u] \notin Releasing
  BY DEF ContractInv
<1>2. \A g, h \in Guard : held'[g] /\ held'[h] /\ IdOf[g] = IdOf[h] => g = h
  BY Zenon DEF ContractInv
<1>3. \A u \in Thread, h \in Guard :
        pc'[u] \in Releasing /\ IdOf[h] = Id(u) /\ held'[h] =>
          h = On[u] /\ pc'[u] \notin {"relGet", "relUpdate"}
  BY Zenon DEF ContractInv
<1> QED BY <1>1, <1>2, <1>3, Zenon DEF ContractInv, Id

\* A move of one thread that takes and releases nothing keeps ContractInv.
LEMMA MoveKeeps ==
  ASSUME TypeOK, ContractInv, NEW t \in Thread, NEW from, NEW to, Goto(t, from, to),
         UNCHANGED <<clock, lease, held>>,
         t \in Guard => from # "off",
         t \in Guard /\ to \in {"acqInstall", "acqMark"} => from \in {"acqInstall", "acqMark"},
         to \in Releasing => from \in Releasing,
         to \in {"relGet", "relUpdate"} => from \in {"relGet", "relUpdate"}
  PROVE  ContractInv'
<1> USE GuardAssumption
<1>1. /\ pc[t] = from /\ pc'[t] = to
      /\ \A u \in Thread : u # t => pc'[u] = pc[u] /\ now'[u] = now[u]
      /\ now'[t] = IF to \notin Timed THEN 0 ELSE IF from \in Timed THEN now[t] ELSE clock
  BY GotoMoves, Zenon
<1>2. Guard \subseteq Thread
  BY Zenon DEF Thread
<1>3. \A g \in Guard : Owning(g)' => Owning(g)
  BY <1>1, <1>2, Zenon DEF Owning
<1>4. \A g \in Guard : Owning(g)' => lease'.holder = IdOf[g] /\ clock' <= lease'.renew + Validity
  BY <1>3, Zenon DEF ContractInv
<1>5. \A u \in Thread : pc'[u] \in Timed => clock' <= now'[u] + Validity
  <2> SUFFICES ASSUME NEW u \in Thread, pc'[u] \in Timed PROVE clock' <= now'[u] + Validity
    BY Zenon
  <2>1. CASE u # t \/ from \in Timed
    BY <1>1, <2>1, Zenon DEF ContractInv
  <2>2. CASE u = t /\ from \notin Timed
    BY <1>1, <2>2, ValidityType DEF TypeOK
  <2> QED BY <2>1, <2>2, Zenon
<1>6. \A g \in Guard : pc'[g] # "off" => pc[g] # "off"
  BY <1>1, <1>2, Zenon
<1>7. \A u \in Thread : pc'[u] \in Releasing => pc[u] \in Releasing
  BY <1>1, Zenon
<1>8. \A u \in Thread : pc'[u] \in {"relGet", "relUpdate"} => pc[u] \in {"relGet", "relUpdate"}
  BY <1>1, Zenon
<1> QED BY <1>4, <1>5, <1>6, <1>7, <1>8, ContractFrame, Zenon

\* A write of the Lease by a thread on its way out of its timed calls keeps ContractInv
\* if it leaves the Leases of owning guards valid.
LEMMA WriteKeeps ==
  ASSUME TypeOK, ContractInv, NEW t \in Thread, NEW from, NEW to, Goto(t, from, to),
         UNCHANGED <<clock, held>>, from # "off", to \notin Timed, to \notin Releasing,
         \A g \in Guard : Owning(g)' =>
           lease'.holder = IdOf[g] /\ clock' <= lease'.renew + Validity
  PROVE  ContractInv'
<1>1. /\ pc[t] = from /\ pc'[t] = to
      /\ \A u \in Thread : u # t => pc'[u] = pc[u] /\ now'[u] = now[u]
  BY GotoMoves, Zenon
<1>2. \A u \in Thread : pc'[u] \in Timed => clock' <= now'[u] + Validity
  BY <1>1, Zenon DEF ContractInv
<1>3. \A g \in Guard : pc'[g] # "off" => pc[g] # "off"
  BY <1>1, Zenon DEF Thread
<1>4. \A u \in Thread : pc'[u] \in Releasing => pc[u] \in Releasing
  BY <1>1, Zenon
<1>5. \A u \in Thread : pc'[u] \in {"relGet", "relUpdate"} => pc[u] \in {"relGet", "relUpdate"}
  BY <1>1, Zenon DEF Releasing
<1> QED BY <1>2, <1>3, <1>4, <1>5, ContractFrame, Zenon

\* A step that moves no thread, no hold, no Lease and no time keeps ContractInv.
LEMMA MoveNothing ==
  ASSUME ContractInv, UNCHANGED <<clock, lease, held, pc, now>>
  PROVE  ContractInv'
  BY Zenon DEF ContractInv, Owning, Id

\* Every step of guards whose callers keep the contract keeps ContractInv.
LEMMA ContractStep ==
  TypeOK /\ Decided /\ ContractInv /\ [ContractNext]_vars => ContractInv'
<1> SUFFICES ASSUME TypeOK, Decided, ContractInv, [ContractNext]_vars PROVE ContractInv'
  BY Zenon
<1> USE GuardAssumption, ValidityType
<1>0. Guard \subseteq Thread /\ Loop \subseteq Thread /\ Releaser \subseteq Thread
  BY Zenon DEF Thread
<1>1. ASSUME NEW g \in Guard, Quiet(IdOf[g]),
             \A h \in Guard : held[h] /\ IdOf[h] = IdOf[g] => h = g, TryAcquire(g)
      PROVE  ContractInv'
  <2>1. CASE held[g]
    BY <1>1, <2>1, MoveNothing, Zenon DEF TryAcquire
  <2>2. CASE ~held[g]
    <3>1. /\ pc[g] = "off" /\ pc'[g] = "acqGet"
          /\ \A u \in Thread : u # g => pc'[u] = pc[u] /\ now'[u] = now[u]
          /\ now'[g] = clock /\ UNCHANGED <<clock, lease, held>>
      BY <1>0, <1>1, <2>2, GotoMoves DEF TryAcquire, Timed
    <3>2. \A t \in Thread : Id(t) = IdOf[g] =>
            pc[t] \notin Releasing /\ (t \in Guard => pc[t] = "off" /\ ~held[t])
      BY <1>1, <2>2, Zenon DEF Quiet, GivingUp, Releasing, Id
    <3>3. \A h \in Guard : Owning(h)' => lease'.holder = IdOf[h] /\ clock' <= lease'.renew + Validity
      BY <1>0, <3>1, Zenon DEF ContractInv, Owning
    <3>4. \A u \in Thread : pc'[u] \in Timed => clock' <= now'[u] + Validity
      <4>1. clock' <= now'[g] + Validity BY <3>1 DEF TypeOK
      <4> QED BY <3>1, <4>1, Zenon DEF ContractInv
    <3>5. \A k \in Guard : pc'[k] # "off" =>
            /\ \A h \in Guard : IdOf[h] = IdOf[k] => ~held'[h] /\ (h # k => pc'[h] = "off")
            /\ \A u \in Thread : Id(u) = IdOf[k] => pc'[u] \notin Releasing
      <4> SUFFICES ASSUME NEW k \in Guard, pc'[k] # "off"
                   PROVE  /\ \A h \in Guard : IdOf[h] = IdOf[k] =>
                                ~held'[h] /\ (h # k => pc'[h] = "off")
                          /\ \A u \in Thread : Id(u) = IdOf[k] => pc'[u] \notin Releasing
        BY Zenon
      <4>1. CASE k = g
        BY <1>0, <3>1, <3>2, <4>1 DEF Id, Releasing
      <4>2. CASE k # g
        <5>1. IdOf[k] # IdOf[g] BY <1>0, <3>1, <3>2, <4>2 DEF Id
        <5> QED BY <1>0, <3>1, <4>2, <5>1 DEF ContractInv, Id
      <4> QED BY <4>1, <4>2, Zenon
    <3>6. \A u \in Thread, h \in Guard :
            pc'[u] \in Releasing /\ IdOf[h] = Id(u) /\ held'[h] =>
              h = On[u] /\ pc'[u] \notin {"relGet", "relUpdate"}
      BY <3>1 DEF ContractInv, Releasing
    <3>7. \A k, h \in Guard : held'[k] /\ held'[h] /\ IdOf[k] = IdOf[h] => k = h
      BY <3>1, Zenon DEF ContractInv
    <3> QED BY <3>3, <3>4, <3>5, <3>6, <3>7, Zenon DEF ContractInv, Id
  <2> QED BY <2>1, <2>2, Zenon
<1>2. ASSUME NEW r \in Releaser, Quiet(Id(r)), CallRelease(r) PROVE ContractInv'
  BY <1>0, <1>2, MoveKeeps, Zenon DEF CallRelease, Releasing
<1>3. ASSUME NEW g \in Guard, AcquireGet(g) PROVE ContractInv'
  <2>1. PICK to \in {"acqCreate", "acqUpdate", "off"} :
          Goto(g, "acqGet", to) /\ UNCHANGED <<clock, lease, held>>
    BY <1>3, Zenon DEF AcquireGet, Get, NoWrite, Fault
  <2> QED BY <1>0, <2>1, MoveKeeps, Zenon DEF Releasing
<1>4. ASSUME NEW g \in Guard, NEW from \in {"acqCreate", "acqUpdate"},
             NEW to \in {"acqInstall", "off"}, Goto(g, from, to), UNCHANGED <<clock, held>>,
             lease' = TakenBy(g), from = "acqCreate" => ~lease.created,
             from = "acqUpdate" => g \in fresh
      PROVE  ContractInv'
  <2>1. /\ pc[g] = from /\ pc'[g] = to
        /\ \A u \in Thread : u # g => pc'[u] = pc[u]
    BY <1>0, <1>4, GotoMoves
  <2>2. ASSUME NEW h \in Guard, Owning(h) PROVE FALSE
    <3>1. Id(g) # IdOf[h] BY <1>4, <2>1, <2>2 DEF ContractInv, Owning, Id
    <3> QED BY <1>0, <1>4, <2>1, <2>2, <3>1, OwnedIsSafe, Zenon
  <2>3. \A h \in Guard : Owning(h)' => h = g
    BY <1>0, <1>4, <2>1, <2>2, Zenon DEF Owning
  <2>4. lease'.holder = IdOf[g] /\ clock' <= lease'.renew + Validity
    BY <1>0, <1>4, <2>1, Zenon DEF TakenBy, ContractInv, Timed, Id
  <2>5. \A h \in Guard : Owning(h)' => lease'.holder = IdOf[h] /\ clock' <= lease'.renew + Validity
    BY <2>3, <2>4, Zenon
  <2> QED BY <1>0, <1>4, <2>5, WriteKeeps, Zenon DEF Timed, Releasing
<1>5. ASSUME NEW g \in Guard, AcquireCreate(g) PROVE ContractInv'
  <2>1. CASE Goto(g, "acqCreate", "off") /\ UNCHANGED <<clock, lease, held>>
    BY <1>0, <2>1, MoveKeeps, Zenon DEF Releasing
  <2>2. \/ Goto(g, "acqCreate", "off") /\ UNCHANGED <<clock, lease, held>>
        \/ /\ Goto(g, "acqCreate", "off") \/ Goto(g, "acqCreate", "acqInstall")
           /\ UNCHANGED <<clock, held>> /\ lease' = TakenBy(g) /\ ~lease.created
    BY <1>5, Zenon DEF AcquireCreate, Write, NoWrite, Fault, LostAnswer
  <2> QED BY <1>4, <2>1, <2>2, Zenon
<1>6. ASSUME NEW g \in Guard, AcquireUpdate(g) PROVE ContractInv'
  <2>1. CASE Goto(g, "acqUpdate", "off") /\ UNCHANGED <<clock, lease, held>>
    BY <1>0, <2>1, MoveKeeps, Zenon DEF Releasing
  <2>2. \/ Goto(g, "acqUpdate", "off") /\ UNCHANGED <<clock, lease, held>>
        \/ /\ Goto(g, "acqUpdate", "off") \/ Goto(g, "acqUpdate", "acqInstall")
           /\ UNCHANGED <<clock, held>> /\ lease' = TakenBy(g) /\ g \in fresh
    BY <1>6, Zenon DEF AcquireUpdate, Write, NoWrite, Fault, LostAnswer
  <2> QED BY <1>4, <2>1, <2>2, Zenon
<1>7. ASSUME NEW g \in Guard, AcquireInstall(g) PROVE ContractInv'
  BY <1>0, <1>7, MoveKeeps, Zenon DEF AcquireInstall, Releasing
<1>8. ASSUME NEW g \in Guard, AcquireMark(g) PROVE ContractInv'
  <2>1. /\ pc[g] = "acqMark" /\ pc'[g] = "off" /\ UNCHANGED <<clock, lease, now>>
        /\ \A h \in Guard : h # g => pc'[h] = pc[h]
        /\ \A u \in Thread : pc'[u] \in {pc[u], "off", "wait"}
        /\ held'[g] /\ \A h \in Guard : h # g => held'[h] = held[h]
    BY <1>0, <1>8 DEF AcquireMark, TypeOK
  <2>2. \A h \in Guard : Owning(h)' => Owning(h)
    BY <2>1, Zenon DEF Owning
  <2>3. \A h \in Guard : Owning(h)' => lease'.holder = IdOf[h] /\ clock' <= lease'.renew + Validity
    BY <2>1, <2>2, Zenon DEF ContractInv
  <2>4. \A u \in Thread : pc'[u] \in Timed => clock' <= now'[u] + Validity
    BY <2>1, Zenon DEF ContractInv, Timed
  <2>5. /\ \A h \in Guard : IdOf[h] = IdOf[g] => ~held[h] /\ (h # g => pc[h] = "off")
        /\ \A u \in Thread : Id(u) = IdOf[g] => pc[u] \notin Releasing
    BY <2>1, Zenon DEF ContractInv
  <2>6. \A k \in Guard : pc'[k] # "off" =>
          /\ \A h \in Guard : IdOf[h] = IdOf[k] => ~held'[h] /\ (h # k => pc'[h] = "off")
          /\ \A u \in Thread : Id(u) = IdOf[k] => pc'[u] \notin Releasing
    <3> SUFFICES ASSUME NEW k \in Guard, pc'[k] # "off"
                 PROVE  /\ \A h \in Guard : IdOf[h] = IdOf[k] =>
                              ~held'[h] /\ (h # k => pc'[h] = "off")
                        /\ \A u \in Thread : Id(u) = IdOf[k] => pc'[u] \notin Releasing
      BY Zenon
    <3>1. k # g /\ pc[k] # "off" /\ IdOf[k] # IdOf[g] BY <2>1, <2>5, Zenon
    <3> QED BY <2>1, <3>1 DEF ContractInv, Releasing
  <2>7. \A k, h \in Guard : held'[k] /\ held'[h] /\ IdOf[k] = IdOf[h] => k = h
    BY <2>1, <2>5, Zenon DEF ContractInv
  <2>8. \A u \in Thread, h \in Guard :
          pc'[u] \in Releasing /\ IdOf[h] = Id(u) /\ held'[h] =>
            h = On[u] /\ pc'[u] \notin {"relGet", "relUpdate"}
    <3>1. \A u \in Thread : pc'[u] \in Releasing => pc'[u] = pc[u] /\ Id(u) # IdOf[g]
      BY <2>1, <2>5, Zenon DEF Releasing
    <3> QED BY <2>1, <3>1 DEF ContractInv
  <2> QED BY <2>3, <2>4, <2>6, <2>7, <2>8, Zenon DEF ContractInv, Id
<1>9. ASSUME NEW l \in Loop, LoopDone(l) PROVE ContractInv'
  BY <1>0, <1>9, MoveKeeps, Zenon DEF LoopDone, Releasing
<1>10. ASSUME NEW l \in Loop, LoopTick(l) PROVE ContractInv'
  BY <1>0, <1>10, MoveKeeps, Zenon DEF LoopTick, Releasing
<1>11. ASSUME NEW l \in Loop, RenewGet(l) PROVE ContractInv'
  <2>1. PICK to \in {"renewUpdate", "lost"} :
          Goto(l, "renewGet", to) /\ UNCHANGED <<clock, lease, held>>
    BY <1>11, Zenon DEF RenewGet, Get, NoWrite, Fault
  <2> QED BY <1>0, <2>1, MoveKeeps, Zenon DEF Releasing
<1>12. ASSUME NEW l \in Loop, RenewUpdate(l) PROVE ContractInv'
  <2>1. PICK to \in {"wait", "lost"} :
          /\ Goto(l, "renewUpdate", to) /\ UNCHANGED <<clock, held>>
          /\ UNCHANGED lease \/ (lease' = TakenBy(l) /\ l \in fresh)
    BY <1>12, Zenon DEF RenewUpdate, Write, NoWrite, Fault, LostAnswer
  <2>2. CASE UNCHANGED lease
    BY <1>0, <2>1, <2>2, MoveKeeps, Zenon DEF Releasing
  <2>3. CASE lease' = TakenBy(l) /\ l \in fresh
    <3>1. /\ pc[l] = "renewUpdate"
          /\ \A h \in Guard : pc'[h] = pc[h]
      BY <1>0, <2>1, GotoMoves
    <3>2. \A h \in Guard : Owning(h) => IdOf[h] = Id(l)
      BY <1>0, <2>3, <3>1, OwnedIsSafe, Zenon
    <3>3. \A h \in Guard : Owning(h)' => Owning(h)
      BY <2>1, <3>1, Zenon DEF Owning
    <3>4. lease'.holder = Id(l) /\ clock' <= lease'.renew + Validity
      BY <1>0, <2>1, <2>3, <3>1, Zenon DEF TakenBy, ContractInv, Timed
    <3>5. \A h \in Guard : Owning(h)' => lease'.holder = IdOf[h] /\ clock' <= lease'.renew + Validity
      BY <3>2, <3>3, <3>4, Zenon
    <3> QED BY <1>0, <2>1, <3>5, WriteKeeps, Zenon DEF Timed, Releasing
  <2> QED BY <2>1, <2>2, <2>3, Zenon
<1>13. ASSUME NEW l \in Loop, OnLost(l) PROVE ContractInv'
  BY <1>0, <1>13, MoveKeeps, Zenon DEF OnLost, Releasing
<1>14. ASSUME NEW t \in Loop \cup Releaser, ReleaseCheck(t) PROVE ContractInv'
  <2>1. CASE ~held[On[t]]
    BY <1>0, <1>14, <2>1, MoveKeeps, Zenon DEF ReleaseCheck, Releasing
  <2>2. CASE held[On[t]]
    <3>1. /\ pc'[t] = "relCancel" /\ \A g \in Guard : pc'[g] = pc[g]
          /\ \A u \in Thread : u # t => pc'[u] = pc[u] /\ now'[u] = now[u]
          /\ UNCHANGED <<clock, lease, held>>
      BY <1>0, <1>14, <2>2, GotoMoves DEF ReleaseCheck
    <3>2. On[t] \in Guard /\ Id(t) = IdOf[On[t]]
      BY <1>0, Zenon DEF Id
    <3>3. \A g \in Guard : IdOf[g] = Id(t) => pc[g] = "off" /\ (held[g] => g = On[t])
      BY <2>2, <3>2 DEF ContractInv
    <3>4. \A g \in Guard : Owning(g)' => lease'.holder = IdOf[g] /\ clock' <= lease'.renew + Validity
      BY <3>1, Zenon DEF ContractInv, Owning
    <3>5. \A u \in Thread : pc'[u] \in Timed => clock' <= now'[u] + Validity
      BY <3>1, Zenon DEF ContractInv, Timed
    <3>6. \A g \in Guard : pc'[g] # "off" =>
            /\ \A h \in Guard : IdOf[h] = IdOf[g] => ~held'[h] /\ (h # g => pc'[h] = "off")
            /\ \A u \in Thread : Id(u) = IdOf[g] => pc'[u] \notin Releasing
      BY <3>1, <3>3 DEF ContractInv
    <3>7. \A u \in Thread, h \in Guard :
            pc'[u] \in Releasing /\ IdOf[h] = Id(u) /\ held'[h] =>
              h = On[u] /\ pc'[u] \notin {"relGet", "relUpdate"}
      BY <3>1, <3>3 DEF ContractInv
    <3>8. \A g, h \in Guard : held'[g] /\ held'[h] /\ IdOf[g] = IdOf[h] => g = h
      BY <3>1, Zenon DEF ContractInv
    <3> QED BY <3>4, <3>5, <3>6, <3>7, <3>8, Zenon DEF ContractInv, Id
  <2> QED BY <2>1, <2>2, Zenon
<1>15. ASSUME NEW t \in Loop \cup Releaser, ReleaseCancel(t) PROVE ContractInv'
  BY <1>0, <1>15, MoveKeeps, Zenon DEF ReleaseCancel, Releasing
<1>16. ASSUME NEW t \in Loop \cup Releaser, ReleaseUnheld(t) PROVE ContractInv'
  <2>0. Goto(t, "relUnheld", "relGet") /\ UNCHANGED <<clock, lease>>
    BY <1>16, Zenon DEF ReleaseUnheld
  <2>1. /\ pc[t] = "relUnheld" /\ pc'[t] = "relGet" /\ \A g \in Guard : pc'[g] = pc[g]
        /\ \A u \in Thread : u # t => pc'[u] = pc[u] /\ now'[u] = now[u]
        /\ UNCHANGED <<clock, lease>>
    <3>1. t \in Thread /\ \A g \in Guard : g \in Thread /\ g # t
      BY <1>0, Zenon DEF Thread
    <3> QED
      BY <2>0, <3>1, GotoMoves
  <2>2. /\ On[t] \in Guard /\ ~held'[On[t]]
        /\ \A g \in Guard : held'[g] => held[g] /\ g # On[t]
    BY <1>0, <1>16, Zenon DEF ReleaseUnheld, TypeOK
  <2>3. \A g \in Guard : IdOf[g] = Id(t) => ~held'[g]
    BY <1>0, <2>1, <2>2 DEF ContractInv, Releasing
  <2>4. \A g \in Guard : Owning(g)' => lease'.holder = IdOf[g] /\ clock' <= lease'.renew + Validity
    BY <2>1, <2>2, Zenon DEF ContractInv, Owning
  <2>5. \A u \in Thread : pc'[u] \in Timed => clock' <= now'[u] + Validity
    BY <2>1, Zenon DEF ContractInv, Timed
  <2>6. \A g \in Guard : pc'[g] # "off" =>
          /\ \A h \in Guard : IdOf[h] = IdOf[g] => ~held'[h] /\ (h # g => pc'[h] = "off")
          /\ \A u \in Thread : Id(u) = IdOf[g] => pc'[u] \notin Releasing
    BY <1>0, <2>1, <2>2 DEF ContractInv, Releasing
  <2>7. \A u \in Thread, h \in Guard :
          pc'[u] \in Releasing /\ IdOf[h] = Id(u) /\ held'[h] =>
            h = On[u] /\ pc'[u] \notin {"relGet", "relUpdate"}
    BY <2>1, <2>2, <2>3 DEF ContractInv
  <2>8. \A g, h \in Guard : held'[g] /\ held'[h] /\ IdOf[g] = IdOf[h] => g = h
    BY <2>2, Zenon DEF ContractInv
  <2> QED BY <2>4, <2>5, <2>6, <2>7, <2>8, Zenon DEF ContractInv, Id
<1>17. ASSUME NEW t \in Loop \cup Releaser, ReleaseGet(t) PROVE ContractInv'
  <2>1. PICK to \in {"relUpdate", "off"} :
          Goto(t, "relGet", to) /\ UNCHANGED <<clock, lease, held>>
    BY <1>17, Zenon DEF ReleaseGet, Get, NoWrite, Fault
  <2> QED BY <1>0, <2>1, MoveKeeps, Zenon DEF Releasing
<1>18. ASSUME NEW t \in Loop \cup Releaser, ReleaseUpdate(t) PROVE ContractInv'
  <2>1. /\ Goto(t, "relUpdate", "off") /\ UNCHANGED <<clock, held>>
        /\ UNCHANGED lease \/ (lease' = Cleared /\ t \in fresh)
    BY <1>18, Zenon DEF ReleaseUpdate, Write, NoWrite, Fault
  <2>2. CASE UNCHANGED lease
    BY <1>0, <2>1, <2>2, MoveKeeps, Zenon DEF Releasing
  <2>3. CASE lease' = Cleared /\ t \in fresh
    <3>1. pc[t] = "relUpdate" /\ \A g \in Guard : pc'[g] = pc[g]
      BY <1>0, <2>1, GotoMoves
    <3>2. \A g \in Guard : ~Owning(g)
      <4> SUFFICES ASSUME NEW g \in Guard, Owning(g) PROVE FALSE
        BY Zenon
      <4>1. Id(t) = IdOf[g]
        BY <1>0, <2>3, <3>1, OwnedIsSafe, Zenon
      <4> QED BY <1>0, <3>1, <4>1 DEF ContractInv, Owning, Releasing
    <3>3. \A g \in Guard : ~Owning(g)'
      BY <2>1, <3>1, <3>2, Zenon DEF Owning
    <3> QED BY <1>0, <2>1, <3>3, WriteKeeps, Zenon DEF Timed, Releasing
  <2> QED BY <2>1, <2>2, <2>3, Zenon
<1>19. ASSUME NEW p \in Peer, Crash(p) PROVE ContractInv'
  <2>1. /\ UNCHANGED <<clock, lease>>
        /\ \A u \in Thread : pc'[u] = "off" \/ (pc'[u] = pc[u] /\ now'[u] = now[u])
        /\ \A g \in Guard : held'[g] => held[g]
    BY <1>0, <1>19, Zenon DEF Crash
  <2>2. \A g \in Guard : Owning(g)' => lease'.holder = IdOf[g] /\ clock' <= lease'.renew + Validity
    BY <1>0, <2>1, Zenon DEF ContractInv, Owning
  <2>3. \A u \in Thread : pc'[u] \in Timed => clock' <= now'[u] + Validity
    BY <2>1, Zenon DEF ContractInv, Timed
  <2>4. /\ \A g \in Guard : pc'[g] # "off" => pc[g] # "off"
        /\ \A u \in Thread : pc'[u] \in Releasing => pc[u] \in Releasing
        /\ \A u \in Thread : pc'[u] \in {"relGet", "relUpdate"} => pc[u] \in {"relGet", "relUpdate"}
    BY <1>0, <2>1, Zenon DEF Releasing
  <2> QED BY <2>1, <2>2, <2>3, <2>4, ContractFrame, Zenon
<1>20. ASSUME Timely, Tick PROVE ContractInv'
  <2>1. clock' = clock + 1 /\ clock \in Nat /\ lease.renew \in Nat /\ now \in [Thread -> Nat]
        /\ UNCHANGED <<lease, held, pc, now>>
    BY <1>20, Zenon DEF Tick, TypeOK
  <2>2. \A g \in Guard : Owning(g)' => lease'.holder = IdOf[g] /\ clock' <= lease'.renew + Validity
    <3>1. \A g \in Guard : Owning(g)' => lease.holder = IdOf[g] /\ clock < lease.renew + Validity
      BY <1>20, <2>1, Zenon DEF ContractInv, Owning, Timely
    <3> QED BY <2>1, <3>1
  <2>3. \A u \in Thread : pc'[u] \in Timed => clock' <= now'[u] + Validity
    BY <1>20, <2>1 DEF Timely
  <2> QED BY <2>1, <2>2, <2>3, ContractFrame, Zenon
<1>21. CASE UNCHANGED vars
  BY <1>21, MoveNothing, Zenon DEF vars
<1> QED
  BY <1>1, <1>2, <1>3, <1>5, <1>6, <1>7, <1>8, <1>9, <1>10, <1>11, <1>12, <1>13, <1>14, <1>15,
     <1>16, <1>17, <1>18, <1>19, <1>20, <1>21, Zenon
    DEF ContractNext, Internal, AcquireStep, LoopStep, ReleaseStep

\* Under the contract of leaseguard.go:47-49 and timely renewals, a held guard is the
\* unexpired holder, and no two peers hold the fence together, for every instance.
THEOREM FencedUnderContract == ContractSpec => [](HeldIsHolder /\ FenceMutex)
<1>1. Init => TypeOK /\ Decided /\ ContractInv
  BY GuardAssumption, ValidityType
  DEF Init, TypeOK, Decided, ContractInv, Owning, Releasing, Thread, Id, NoLease, Timed,
      AcquirePC, LoopPC, ReleasePC
<1>2. TypeOK /\ Decided /\ ContractInv /\ [ContractNext]_vars
        => (TypeOK /\ Decided /\ ContractInv)'
  BY ContractNextIsNext, TypeStep, DecidedStep, ContractStep, Zenon
<1>3. TypeOK /\ ContractInv => HeldIsHolder /\ FenceMutex
  BY GuardAssumption, ValidityType
  DEF TypeOK, ContractInv, Owning, HeldIsHolder, FenceMutex, Expired
<1> QED
  BY <1>1, <1>2, <1>3, PTL DEF ContractSpec
=============================================================================
