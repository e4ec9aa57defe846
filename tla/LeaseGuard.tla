---------------------------- MODULE LeaseGuard ----------------------------
(***************************************************************************)
(* The fence of the sharded coordinator: leaseGuard objects of several     *)
(* peers contending for one coordination.k8s.io Lease                      *)
(* (pkg/manager/coordinator/sharded/leaseguard.go).                        *)
(*                                                                         *)
(* A guard is used by several goroutines: the caller of TryAcquire, the    *)
(* renew loop TryAcquire starts, and callers of Release.  Each is a thread *)
(* with a program counter; every API call is a step of its own, and so is  *)
(* every unsynchronised access to g.held and g.cancel, because the code    *)
(* takes no lock around them.                                              *)
(*                                                                         *)
(* The resourceVersion of the Lease is the set "fresh" of the threads      *)
(* whose last Get is still current: a Get puts the thread in, any write    *)
(* empties the set, and an Update is accepted only from a member.          *)
(***************************************************************************)
EXTENDS Naturals, FiniteSets

CONSTANTS
  Guard,          \* leaseGuard objects on this Lease; g is also its caller's thread
  Loop,           \* goroutines that can run renewLoop
  Releaser,       \* goroutines that can call Release from outside
  On,             \* On[t]: the guard thread t works on
  Peer,           \* holder identities
  IdOf,           \* IdOf[g]: g.id
  Nobody,         \* the empty HolderIdentity
  NoLoop,         \* the nil g.cancel
  LeaseDuration,  \* g.ldur, in clock units
  Second,         \* time.Second, in clock units
  MaxClock,       \* bound on the clock
  MaxFaults       \* bound on injected API errors and crashes

Thread == Guard \cup Loop \cup Releaser

ASSUME GuardAssumption ==
  /\ Guard \cap Loop = {} /\ Guard \cap Releaser = {} /\ Loop \cap Releaser = {}
  /\ On \in [Thread -> Guard] /\ \A g \in Guard : On[g] = g
  /\ IdOf \in [Guard -> Peer]
  /\ Nobody \notin Peer /\ NoLoop \notin Thread
  /\ LeaseDuration \in Nat /\ Second \in Nat \ {0}
  /\ MaxClock \in Nat /\ MaxFaults \in Nat

VARIABLES
  clock,      \* real time
  lease,      \* the Lease object: [created, holder, renew]
  fresh,      \* threads whose last read of the Lease is still its current version
  held,       \* g.held
  cancelOf,   \* the renew loop that g.cancel cancels
  cancelled,  \* loops whose context is cancelled
  pc,         \* program counter of each thread
  now,        \* the time a thread read before its API calls
  owns,       \* what the caller knows: TryAcquire said true, and neither
              \* onLost nor its own Release came since
  faults      \* injected failures so far

vars == <<clock, lease, fresh, held, cancelOf, cancelled, pc, now, owns, faults>>

Id(t) == IdOf[On[t]]

\* int32(g.ldur / time.Second): whole seconds are what the Lease records.
Validity == (LeaseDuration \div Second) * Second

NoLease == [created |-> FALSE, holder |-> Nobody, renew |-> 0]

\* Strictly after the end of the validity; the mutation is off by one.
ExpiredAtBoundary(l, t) == t >= l.renew + Validity
Expired(l, t) == t > l.renew + Validity

\* TryAcquire adopts a Lease that is free, ours or expired.
Adoptable(l, p, t) == l.holder \in {Nobody, p} \/ Expired(l, t)

\* renewOnce gives up on any other unexpired holder, the empty one included; the
\* mutation does not look at the holder.
RenewableAlways(l, p, t) == TRUE
Renewable(l, p, t) == l.holder = p \/ Expired(l, t)

Init ==
  /\ clock = 0
  /\ lease = NoLease
  /\ fresh = {}
  /\ held = [g \in Guard |-> FALSE]
  /\ cancelOf = [g \in Guard |-> NoLoop]
  /\ cancelled = {}
  /\ pc = [t \in Thread |-> "off"]
  /\ now = [t \in Thread |-> 0]
  /\ owns = [g \in Guard |-> FALSE]
  /\ faults = 0

\* A thread reads the time when it enters its API calls and uses it until its write.
Timed == {"acqGet", "acqCreate", "acqUpdate", "renewGet", "renewUpdate"}

Goto(t, from, to) ==
  /\ pc[t] = from
  /\ pc' = [pc EXCEPT ![t] = to]
  /\ now' = [now EXCEPT ![t] = IF to \notin Timed THEN 0
                               ELSE IF from \in Timed THEN @ ELSE clock]

\* A read of the Lease by t.
Get(t) == fresh' = fresh \cup {t} /\ UNCHANGED <<lease, faults>>

\* A write the API server accepts: every earlier read is now stale.  The mutation
\* updates without a resourceVersion.
BlindWrite(l) == lease' = l /\ UNCHANGED <<fresh, faults>>
Write(l) == lease' = l /\ fresh' = {} /\ UNCHANGED faults

\* A call of t that changes nothing and returns an error or is not needed.
NoWrite(t) == fresh' = fresh \ {t} /\ UNCHANGED <<lease, faults>>

\* The call of t fails on the way to the server.
Fault(t) ==
  /\ faults < MaxFaults /\ faults' = faults + 1
  /\ fresh' = fresh \ {t} /\ UNCHANGED lease

\* The server applies the write, and t sees an error: the answer is lost.
LostAnswer(l) ==
  /\ faults < MaxFaults /\ faults' = faults + 1
  /\ fresh' = {} /\ lease' = l

\* The Lease t writes when it acquires or renews; the mutation backdates it.
BackdatedBy(t) == [created |-> TRUE, holder |-> Id(t), renew |-> now[t] - Second]
TakenBy(t) == [created |-> TRUE, holder |-> Id(t), renew |-> now[t]]
Cleared == [lease EXCEPT !.holder = Nobody]

-----------------------------------------------------------------------------
\* TryAcquire, run by thread g.

\* A held guard answers true at once; otherwise the time is read first.
TryAcquire(g) ==
  /\ \/ /\ held[g]
        /\ pc[g] = "off"
        /\ owns' = [owns EXCEPT ![g] = TRUE]
        /\ UNCHANGED <<pc, now>>
     \/ /\ ~held[g]
        /\ Goto(g, "off", "acqGet")
        /\ owns' = [owns EXCEPT ![g] = FALSE]
  /\ UNCHANGED <<clock, lease, fresh, held, cancelOf, cancelled, faults>>

AcquireGet(g) ==
  /\ \/ /\ ~lease.created
        /\ Goto(g, "acqGet", "acqCreate") /\ NoWrite(g)
     \/ /\ lease.created /\ Adoptable(lease, Id(g), now[g])
        /\ Goto(g, "acqGet", "acqUpdate") /\ Get(g)
     \/ /\ lease.created /\ ~Adoptable(lease, Id(g), now[g])
        /\ Goto(g, "acqGet", "off") /\ NoWrite(g)
     \/ Goto(g, "acqGet", "off") /\ Fault(g)
  /\ UNCHANGED <<clock, held, cancelOf, cancelled, owns>>

AcquireCreate(g) ==
  /\ \/ /\ ~lease.created
        /\ Goto(g, "acqCreate", "acqInstall") /\ Write(TakenBy(g))
     \/ /\ lease.created            \* AlreadyExists
        /\ Goto(g, "acqCreate", "off") /\ NoWrite(g)
     \/ Goto(g, "acqCreate", "off") /\ Fault(g)
     \/ /\ ~lease.created
        /\ Goto(g, "acqCreate", "off") /\ LostAnswer(TakenBy(g))
  /\ UNCHANGED <<clock, held, cancelOf, cancelled, owns>>

AcquireUpdate(g) ==
  /\ \/ /\ g \in fresh
        /\ Goto(g, "acqUpdate", "acqInstall") /\ Write(TakenBy(g))
     \/ /\ g \notin fresh           \* Conflict
        /\ Goto(g, "acqUpdate", "off") /\ NoWrite(g)
     \/ Goto(g, "acqUpdate", "off") /\ Fault(g)
     \/ /\ g \in fresh
        /\ Goto(g, "acqUpdate", "off") /\ LostAnswer(TakenBy(g))
  /\ UNCHANGED <<clock, held, cancelOf, cancelled, owns>>

\* g.cancel is set to the new loop's cancel function ...
AcquireInstall(g) ==
  /\ Goto(g, "acqInstall", "acqMark")
  /\ \E l \in Loop :
       /\ On[l] = g /\ pc[l] = "off"
       /\ cancelOf' = [cancelOf EXCEPT ![g] = l]
       /\ cancelled' = cancelled \ {l}
  /\ UNCHANGED <<clock, lease, fresh, held, owns, faults>>

\* ... then g.held is set, the loop is started and the caller gets true.
AcquireMark(g) ==
  /\ pc[g] = "acqMark"
  /\ pc' = [pc EXCEPT ![g] = "off", ![cancelOf[g]] = "wait"]
  /\ held' = [held EXCEPT ![g] = TRUE]
  /\ owns' = [owns EXCEPT ![g] = TRUE]
  /\ UNCHANGED <<clock, lease, fresh, cancelOf, cancelled, now, faults>>

-----------------------------------------------------------------------------
\* renewLoop and renewOnce, run by thread l.

\* The select sees ctx.Done.
LoopDone(l) ==
  /\ l \in cancelled
  /\ Goto(l, "wait", "off")
  /\ cancelled' = cancelled \ {l}
  /\ UNCHANGED <<clock, lease, fresh, held, cancelOf, owns, faults>>

\* The select sees the ticker; a cancelled loop may still pick this branch.
LoopTick(l) ==
  /\ Goto(l, "wait", "renewGet")
  /\ UNCHANGED <<clock, lease, fresh, held, cancelOf, cancelled, owns, faults>>

RenewGet(l) ==
  /\ \/ /\ lease.created /\ Renewable(lease, Id(l), now[l])
        /\ Goto(l, "renewGet", "renewUpdate") /\ Get(l)
     \/ /\ ~lease.created \/ ~Renewable(lease, Id(l), now[l]) \/ l \in cancelled
        /\ Goto(l, "renewGet", "lost") /\ NoWrite(l)
     \/ Goto(l, "renewGet", "lost") /\ Fault(l)
  /\ UNCHANGED <<clock, held, cancelOf, cancelled, owns>>

RenewUpdate(l) ==
  /\ \/ /\ l \in fresh
        /\ Goto(l, "renewUpdate", "wait") /\ Write(TakenBy(l))
     \/ /\ l \notin fresh \/ l \in cancelled
        /\ Goto(l, "renewUpdate", "lost") /\ NoWrite(l)
     \/ Goto(l, "renewUpdate", "lost") /\ Fault(l)
     \/ /\ l \in fresh
        /\ Goto(l, "renewUpdate", "lost") /\ LostAnswer(TakenBy(l))
  /\ UNCHANGED <<clock, held, cancelOf, cancelled, owns>>

\* A failed renewal first tells the owner, then calls Release.
OnLost(l) ==
  /\ Goto(l, "lost", "relCheck")
  /\ owns' = [owns EXCEPT ![On[l]] = FALSE]
  /\ UNCHANGED <<clock, lease, fresh, held, cancelOf, cancelled, faults>>

-----------------------------------------------------------------------------
\* Release, run by a Releaser or by a renew loop that lost the Lease.

CallRelease(r) ==
  /\ Goto(r, "off", "relCheck")
  /\ owns' = [owns EXCEPT ![On[r]] = FALSE]
  /\ UNCHANGED <<clock, lease, fresh, held, cancelOf, cancelled, faults>>

ReleaseCheck(t) ==
  /\ \/ held[On[t]] /\ Goto(t, "relCheck", "relCancel")
     \/ ~held[On[t]] /\ Goto(t, "relCheck", "off")
  /\ UNCHANGED <<clock, lease, fresh, held, cancelOf, cancelled, owns, faults>>

ReleaseCancel(t) ==
  /\ Goto(t, "relCancel", "relUnheld")
  /\ cancelled' = cancelled \cup ({cancelOf[On[t]]} \ {NoLoop})
  /\ UNCHANGED <<clock, lease, fresh, held, cancelOf, owns, faults>>

\* The mutation forgets to clear g.held.
StaysHeld(t) ==
  /\ Goto(t, "relUnheld", "relGet")
  /\ UNCHANGED <<clock, lease, fresh, held, cancelOf, cancelled, owns, faults>>
ReleaseUnheld(t) ==
  /\ Goto(t, "relUnheld", "relGet")
  /\ held' = [held EXCEPT ![On[t]] = FALSE]
  /\ UNCHANGED <<clock, lease, fresh, cancelOf, cancelled, owns, faults>>

ReleaseGet(t) ==
  /\ \/ /\ lease.created /\ lease.holder = Id(t)
        /\ Goto(t, "relGet", "relUpdate") /\ Get(t)
     \/ /\ ~lease.created \/ lease.holder # Id(t)
        /\ Goto(t, "relGet", "off") /\ NoWrite(t)
     \/ Goto(t, "relGet", "off") /\ Fault(t)
  /\ UNCHANGED <<clock, held, cancelOf, cancelled, owns>>

\* Only the holder is cleared; the error of the update is ignored.
ReleaseUpdate(t) ==
  /\ Goto(t, "relUpdate", "off")
  /\ \/ t \in fresh /\ Write(Cleared)
     \/ t \notin fresh /\ NoWrite(t)
     \/ Fault(t)
  /\ UNCHANGED <<clock, held, cancelOf, cancelled, owns>>

-----------------------------------------------------------------------------
Tick ==
  /\ clock < MaxClock
  /\ clock' = clock + 1
  /\ UNCHANGED <<lease, fresh, held, cancelOf, cancelled, pc, now, owns, faults>>

\* The process of peer p dies and comes back with the same identity: its
\* guards and goroutines are gone, the Lease stays.
Crash(p) ==
  LET mine == {t \in Thread : Id(t) = p} IN
  /\ \E g \in Guard : IdOf[g] = p
  /\ faults < MaxFaults /\ faults' = faults + 1
  /\ held' = [g \in Guard |-> held[g] /\ g \notin mine]
  /\ owns' = [g \in Guard |-> owns[g] /\ g \notin mine]
  /\ cancelOf' = [g \in Guard |-> IF g \in mine THEN NoLoop ELSE cancelOf[g]]
  /\ cancelled' = cancelled \ mine
  /\ fresh' = fresh \ mine
  /\ pc' = [t \in Thread |-> IF t \in mine THEN "off" ELSE pc[t]]
  /\ now' = [t \in Thread |-> IF t \in mine THEN 0 ELSE now[t]]
  /\ UNCHANGED <<clock, lease>>

AcquireStep(g) ==
  \/ AcquireGet(g) \/ AcquireCreate(g) \/ AcquireUpdate(g)
  \/ AcquireInstall(g) \/ AcquireMark(g)

LoopStep(l) ==
  \/ LoopDone(l) \/ LoopTick(l) \/ RenewGet(l) \/ RenewUpdate(l) \/ OnLost(l)

ReleaseStep(t) ==
  \/ ReleaseCheck(t) \/ ReleaseCancel(t) \/ ReleaseUnheld(t)
  \/ ReleaseGet(t) \/ ReleaseUpdate(t)

\* What runs by itself once started, and what may fail.
Internal ==
  \/ \E g \in Guard : AcquireStep(g)
  \/ \E l \in Loop : LoopStep(l)
  \/ \E t \in Loop \cup Releaser : ReleaseStep(t)
  \/ \E p \in Peer : Crash(p)

\* Any goroutine calls anything at any time.
Next ==
  \/ \E g \in Guard : TryAcquire(g)
  \/ \E r \in Releaser : CallRelease(r)
  \/ Internal
  \/ Tick

Spec == Init /\ [][Next]_vars

-----------------------------------------------------------------------------
\* The contract of leaseguard.go:47-49 (calls on a guard are synchronised from
\* outside) and the timing a lease needs: what a peer must do to be fenced.

GivingUp == {"lost", "relCheck", "relCancel", "relUnheld", "relGet", "relUpdate"}

\* No call on p's guards is running, the Release of a renew loop included.
Quiet(p) ==
  \A t \in Thread : Id(t) = p =>
    /\ pc[t] \notin GivingUp
    /\ (t \in Guard => pc[t] = "off")

\* Renewals land before the Lease they renew expires, and a call's write lands
\* within the validity counted from the time the call read.
Timely ==
  /\ \A t \in Thread : pc[t] \in Timed => clock < now[t] + Validity
  /\ \A g \in Guard : held[g] \/ pc[g] \in {"acqInstall", "acqMark"} =>
       clock < lease.renew + Validity

ContractNext ==
  \/ \E g \in Guard : /\ Quiet(IdOf[g])
                      /\ \A h \in Guard : held[h] /\ IdOf[h] = IdOf[g] => h = g
                      /\ TryAcquire(g)
  \/ \E r \in Releaser : Quiet(Id(r)) /\ CallRelease(r)
  \/ Internal
  \/ Timely /\ Tick

ContractSpec == Init /\ [][ContractNext]_vars

-----------------------------------------------------------------------------
\* Properties.

AcquirePC == {"off", "acqGet", "acqCreate", "acqUpdate", "acqInstall", "acqMark"}
LoopPC == {"off", "wait", "renewGet", "renewUpdate"} \cup GivingUp
ReleasePC == {"off"} \cup (GivingUp \ {"lost"})

\* Type invariant of the guards, their threads and the Lease.
TypeOK ==
  /\ clock \in Nat
  /\ lease \in [created : BOOLEAN, holder : Peer \cup {Nobody}, renew : Nat]
  /\ fresh \subseteq Thread
  /\ held \in [Guard -> BOOLEAN]
  /\ cancelOf \in [Guard -> Loop \cup {NoLoop}]
  /\ cancelled \subseteq Loop
  /\ pc \in [Thread -> AcquirePC \cup LoopPC]
  /\ \A g \in Guard : pc[g] \in AcquirePC
  /\ \A l \in Loop : pc[l] \in LoopPC
  /\ \A r \in Releaser : pc[r] \in ReleasePC
  /\ now \in [Thread -> Nat]
  /\ owns \in [Guard -> BOOLEAN]
  /\ faults \in Nat

\* What a thread concluded from a read holds as long as the read is current, and
\* the time it compares with is never ahead of the clock.
Decided ==
  /\ ~lease.created => lease = NoLease
  /\ \A t \in Thread :
       /\ pc[t] \in Timed => now[t] <= clock
       /\ t \in fresh /\ pc[t] = "acqUpdate" => Adoptable(lease, Id(t), now[t])
       /\ t \in fresh /\ pc[t] = "renewUpdate" => Renewable(lease, Id(t), now[t])
       /\ t \in fresh /\ pc[t] = "relUpdate" => lease.holder = Id(t)

\* g has the Lease, whether or not TryAcquire has come to record it.
Owning(g) == held[g] \/ pc[g] \in {"acqInstall", "acqMark"}

Releasing == {"relCancel", "relUnheld", "relGet", "relUpdate"}

\* The inductive invariant behind FenceMutex: an owning guard's Lease is valid; a call
\* in flight is not too old; an acquisition runs alone; a Release past its check
\* is about the only held guard of its peer, and past g.held = false about none.
ContractInv ==
  /\ \A g \in Guard : Owning(g) =>
       lease.holder = IdOf[g] /\ clock <= lease.renew + Validity
  /\ \A t \in Thread : pc[t] \in Timed => clock <= now[t] + Validity
  /\ \A g \in Guard : pc[g] # "off" =>
       /\ \A h \in Guard : IdOf[h] = IdOf[g] => ~held[h] /\ (h # g => pc[h] = "off")
       /\ \A t \in Thread : Id(t) = IdOf[g] => pc[t] \notin Releasing
  /\ \A g, h \in Guard : held[g] /\ held[h] /\ IdOf[g] = IdOf[h] => g = h
  /\ \A t \in Thread, h \in Guard :
       pc[t] \in Releasing /\ IdOf[h] = Id(t) /\ held[h] =>
         h = On[t] /\ pc[t] \notin {"relGet", "relUpdate"}

\* Whoever calls what and when, with API errors, lost answers, crashes, stale
\* reads and delayed writes, the guards use the Lease as a fence: a Lease held by
\* another peer is overwritten only after it expired in real time, although the
\* guard compares with a time it read before its Get (leaseguard.go:83,109-112,160,166).
FenceRefinement == INSTANCE FenceLease WITH Validity <- Validity
ImplementsFence == FenceRefinement!Spec

\* Under the contract, a guard that believes it holds the Lease is its recorded,
\* unexpired holder until the moment Release has cleared g.held, whatever errors,
\* lost answers, late renewals and crashes come between (leaseguard.go:128-133,184-187).
HeldIsHolder ==
  \A g \in Guard : held[g] => lease.holder = IdOf[g] /\ ~Expired(lease, clock)

\* Under the contract, guards of two peers are never held together: "Fence ownership
\* so only one process is active per cluster at a time" (docs/designs).
FenceMutex ==
  \A g, h \in Guard : held[g] /\ held[h] => IdOf[g] = IdOf[h]

\* A guard that its caller gave up, or was told is lost, does not stay held, to be renewed
\* for ever with nobody using it: a Release that will see it held is on its way, also when
\* it crosses a TryAcquire (leaseguard.go:146-153,180-187).
NoOrphanedHold ==
  \A g \in Guard : held[g] /\ ~owns[g] =>
    \E t \in Loop \cup Releaser : On[t] = g /\ pc[t] \in {"relCheck", "relCancel", "relUnheld"}
=============================================================================
