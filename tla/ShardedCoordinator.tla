------------------------ MODULE ShardedCoordinator ------------------------
(***************************************************************************)
(* The sharded coordinator (pkg/manager/coordinator/sharded/coordinator.go) *)
(* of several peers, with the fences they contend for.                     *)
(*                                                                         *)
(* A provider engages clusters under contexts it later cancels; the peer   *)
(* registry changes the snapshot; recompute starts, stops and fences; and  *)
(* goroutines for cleanup, start, renewal and release run beside it.  The  *)
(* mutex c.mu makes recompute, onLost, the cleanup and the error path of   *)
(* startForCluster atomic, so each is one action.  A leaseGuard's local    *)
(* part and its API part are separate steps; LeaseGuard models it at the   *)
(* granularity of single API calls.  Time appears only as a Lease being    *)
(* valid or not and an engagement being throttled or not.                  *)
(***************************************************************************)
EXTENDS Naturals, FiniteSets

CONSTANTS
  Peer,         \* peer identities, as in snapshots and Leases
  Active,       \* the peers whose coordinators run in this model
  Cluster,      \* cluster names
  View,         \* the snapshots the peer registry may report
  Late,         \* the calls of recompute a refresh may overtake: 0 (Runnable's), t (Engage's)
  Ctx,          \* contexts a provider passes to Engage
  Removable,    \* the contexts in Ctx that the provider may cancel
  Run,          \* the context of Runnable
  Background,   \* context.Background()
  Fence,        \* fence Lease names
  FenceOf,      \* FenceOf[c]: fenceName(c)
  Score,        \* Score[c][p]: the weighted HRW score
  Nobody,       \* the empty HolderIdentity
  NoWork,       \* the nil engagement.cancel
  Replace,      \* whether providers engage a name that is still engaged
  MaxTokens,    \* bound on Engage calls per peer
  MaxRuns,      \* bound on starts per engagement
  MaxFlips,     \* bound on changes of the peer snapshots
  MaxFaults,    \* bound on API errors, crashes and errors of Aware.Engage
  AwareFails    \* whether Aware.Engage may return an error

\* Engagements of a peer, numbered, and the contexts their work is given.
Token == 1..MaxTokens
WorkId == [token : Token, n : 1..MaxRuns, parent : Ctx \cup {Run}]

ASSUME CoordinatorAssumption ==
  /\ Cluster # {} /\ NoWork \notin WorkId
  /\ FenceOf \in [Cluster -> Fence]
  /\ Score \in [Cluster -> [Peer -> Nat]]
  /\ \A c \in Cluster, p, q \in Peer : Score[c][p] = Score[c][q] => p = q
  /\ View \subseteq SUBSET Peer /\ Active \subseteq Peer /\ Nobody \notin Peer
  /\ Late \subseteq Token \cup {0}
  /\ Removable \subseteq Ctx /\ Run \notin Ctx /\ Background \notin Ctx /\ Run # Background
  /\ MaxTokens \in Nat /\ MaxRuns \in Nat /\ MaxFlips \in Nat
  /\ MaxFaults \in Nat /\ AwareFails \in BOOLEAN

VARIABLES
  snapshot,   \* snapshot[p]: the registry's view, empty before the first refresh
  live,       \* live[p]: provider contexts not yet cancelled
  next,       \* next[p]: engagements created so far
  engaged,    \* engaged[p][c]: c.engaged, 0 when absent
  eng,        \* eng[p][t]: the engagement object t
  cleanup,    \* cleanup[p]: engagements whose <-parent.Done() goroutine waits
  kicks,      \* kicks[p]: "go c.recompute(parent)" of Engage, not yet done
  overtaken,  \* overtaken[p]: recompute calls waiting for c.mu with an old snapshot
  stopping,   \* stopping[p]: contexts the recompute that holds c.mu has yet to cancel
  works,      \* works[p]: engagement contexts whose cancel was not called
  starting,   \* starting[p]: startForCluster goroutines
  held,       \* held[p]: guards with g.held; a guard is named by its first engagement
  fencing,    \* fencing[p]: bag of the goroutines of the guards
  lease,      \* lease[f]: [holder, valid]
  flips, faults

vars == <<snapshot, live, next, engaged, eng, cleanup, kicks, overtaken, stopping, works, starting,
          held, fencing, lease, flips, faults>>

\* Bags of goroutines, with the operators of module Bags that are needed here.  (The
\* prover's Bags extends the library's theorems, which every proof step would carry.)
IsABag(B) == B \in [DOMAIN B -> Nat \ {0}]
BagToSet(B) == DOMAIN B
SetToBag(S) == [r \in S |-> 1]
EmptyBag == SetToBag({})
Count(r, B) == IF r \in BagToSet(B) THEN B[r] ELSE 0
B (+) C == [r \in BagToSet(B) \cup BagToSet(C) |-> Count(r, B) + Count(r, C)]
B (-) C == [r \in {r \in BagToSet(B) : B[r] > Count(r, C)} |-> B[r] - Count(r, C)]

Unused == [cluster |-> CHOOSE c \in Cluster : TRUE, parent |-> Run, cancel |-> NoWork,
           started |-> FALSE, fence |-> 0, throttled |-> FALSE, runs |-> 0]

Init ==
  /\ snapshot = [p \in Active |-> {}]
  /\ live = [p \in Active |-> Ctx]
  /\ next = [p \in Active |-> 0]
  /\ engaged = [p \in Active |-> [c \in Cluster |-> 0]]
  /\ eng = [p \in Active |-> [t \in Token |-> Unused]]
  /\ cleanup = [p \in Active |-> {}]
  /\ kicks = [p \in Active |-> {}]
  /\ overtaken = [p \in Active |-> {}]
  /\ stopping = [p \in Active |-> {}]
  /\ works = [p \in Active |-> {}]
  /\ starting = [p \in Active |-> {}]
  /\ held = [p \in Active |-> {}]
  /\ fencing = [p \in Active |-> EmptyBag]
  /\ lease = [f \in Fence |-> [holder |-> Nobody, valid |-> FALSE]]
  /\ flips = 0 /\ faults = 0

CtxLive(p, x) == x \in live[p] \cup {Run, Background}

\* HRW.ShouldOwn: an empty snapshot makes everybody owner.
ShouldOwn(c, snap, p) ==
  snap = {} \/ (p \in snap /\ \A q \in snap : Score[c][q] <= Score[c][p])

\* The context recompute was called with: Runnable's, or an engagement's parent.
CallCtx(p, by) == IF by = 0 THEN Run ELSE eng[p][by].parent

Goroutine(at, g, x) == [at |-> at, guard |-> g, ctx |-> x]

\* Goroutine r of p becomes the goroutines new.
Become(p, r, new) ==
  fencing' = [fencing EXCEPT ![p] = (@ (-) SetToBag({r})) (+) SetToBag(new)]

-----------------------------------------------------------------------------
\* The provider and the peer registry.

CancelCtx(p, x) ==
  /\ x \in live[p] \cap Removable
  /\ live' = [live EXCEPT ![p] = @ \ {x}]
  /\ UNCHANGED <<snapshot, next, engaged, eng, cleanup, kicks, overtaken, stopping, works, starting,
                 held, fencing, lease, flips, faults>>

\* refreshPeers stores a new view; it always contains the peer itself.  recompute
\* reads the snapshot before it takes c.mu, so calls may be left with the old one:
\* those of Engage, and that of Runnable (0), which has one call at a time.
RefreshPeers(p, S, late) ==
  /\ p \in S /\ S # snapshot[p]
  /\ late \subseteq kicks[p] \cup {0}
  /\ 0 \in late => stopping[p] = {} /\ \A r \in overtaken[p] : r.by # 0
  /\ flips < MaxFlips /\ flips' = flips + 1
  /\ snapshot' = [snapshot EXCEPT ![p] = S]
  /\ kicks' = [kicks EXCEPT ![p] = @ \ late]
  /\ overtaken' = [overtaken EXCEPT ![p] =
                     @ \cup {[by |-> t, snap |-> snapshot[p]] : t \in late}]
  /\ UNCHANGED <<live, next, engaged, eng, cleanup, stopping, works, starting, held,
                 fencing, lease, faults>>

-----------------------------------------------------------------------------
\* Engage, its cleanup goroutine and the recompute it kicks.

\* What is left of an engagement out of c.engaged: the name and parent that
\* goroutines captured.
Discard(p, t) ==
  [u \in Token |-> IF u # t THEN eng[p][u]
                   ELSE [Unused EXCEPT !.cluster = eng[p][u].cluster,
                                       !.parent = eng[p][u].parent]]

\* Whether the engagement a cleanup goroutine captured is still the registered one,
\* and the mutation that only looks for some engagement of the name.
SomeEngaged(p, t) == engaged[p][eng[p][t].cluster] # 0
StillEngaged(p, t) == engaged[p][eng[p][t].cluster] = t

\* The context that calling t.cancel cancels, if there is a t, and the mutation that
\* forgets the call.
CancelsNothing(p, t) == {}
CancelOf(p, t) == IF t = 0 THEN {} ELSE {eng[p][t].cancel}

\* The fence a new engagement takes over from cur, and the mutation that drops it.
FreshFence(p, cur) == 0
KeptFence(p, cur) == IF cur = 0 THEN 0 ELSE eng[p][cur].fence

\* The Release spawned for a removed engagement, unless it has no fence; the mutation
\* lacks the test for nil.
UncheckedRelease(p, t) == {Goroutine("release", eng[p][t].fence, Background)}
RemovalRelease(p, t) ==
  IF eng[p][t].fence = 0 THEN {} ELSE {Goroutine("release", eng[p][t].fence, Background)}

\* An existing engagement of the name is replaced: its work is cancelled, its fence kept.
Engage(p, c, x) ==
  LET t == next[p] + 1
      cur == engaged[p][c]
  IN
  /\ stopping[p] = {}
  /\ x \in live[p]
  /\ cur # 0 => Replace
  /\ next[p] < MaxTokens
  /\ next' = [next EXCEPT ![p] = t]
  /\ engaged' = [engaged EXCEPT ![p][c] = t]
  /\ eng' = [eng EXCEPT ![p] = Discard(p, cur), ![p][t] =
       [Unused EXCEPT !.cluster = c, !.parent = x, !.fence = KeptFence(p, cur)]]
  /\ works' = [works EXCEPT ![p] = @ \ CancelOf(p, cur)]
  /\ cleanup' = [cleanup EXCEPT ![p] = @ \cup {t}]
  /\ kicks' = [kicks EXCEPT ![p] = @ \cup {t}]
  /\ UNCHANGED <<snapshot, live, overtaken, stopping, starting, held, fencing, lease, flips,
                 faults>>

\* The parent is done: only the current engagement is stopped, released and deleted.
Cleanup(p, t) ==
  LET c == eng[p][t].cluster IN
  /\ stopping[p] = {}
  /\ t \in cleanup[p] /\ ~CtxLive(p, eng[p][t].parent)
  /\ cleanup' = [cleanup EXCEPT ![p] = @ \ {t}]
  /\ IF StillEngaged(p, t)
     THEN /\ engaged' = [engaged EXCEPT ![p][c] = 0]
          /\ eng' = [eng EXCEPT ![p] = Discard(p, t)]
          /\ works' = [works EXCEPT ![p] =
                         IF eng[p][t].started THEN @ \ CancelOf(p, t) ELSE @]
          /\ fencing' = [fencing EXCEPT ![p] = @ (+) SetToBag(RemovalRelease(p, t))]
     ELSE UNCHANGED <<engaged, eng, works, fencing>>
  /\ UNCHANGED <<snapshot, live, next, kicks, overtaken, stopping, starting, held, lease, flips,
                 faults>>

-----------------------------------------------------------------------------
\* recompute.

\* TryAcquire adopts a Lease that is free, its own or expired.
Free(l, p) == l.holder \in {Nobody, p} \/ ~l.valid

\* The n-th context of engagement t, a child of the context of the recompute.
Work(t, n, x) == [token |-> t, n |-> n, parent |-> x]

\* The loop under c.mu.  A cluster that should be owned and is not started gets a
\* guard if it has none and, unless throttled, tries the fence: a held guard says
\* yes at once, otherwise the API is asked, and may fail before (failed) or after
\* (landed) the write.  A cluster that is started and should not be is marked
\* stopped and its Release is spawned with recompute's own context.
RecomputeLoop(p, r, failed, landed) ==
  LET mine == {c \in Cluster : engaged[p][c] # 0}
      e(c) == eng[p][engaged[p][c]]
      x == CallCtx(p, r.by)
      wants == {c \in mine : ShouldOwn(c, r.snap, p) /\ ~e(c).started}
      guard(c) == IF e(c).fence = 0 THEN engaged[p][c] ELSE e(c).fence
      tries == {c \in wants : ~e(c).throttled /\ e(c).runs < MaxRuns}
      holds == {c \in tries : guard(c) \in held[p]}
      can == {c \in tries \ holds : CtxLive(p, x) /\ Free(lease[FenceOf[c]], p)}
      got == can \ failed
      begins == holds \cup got
      ends == {c \in mine : ~ShouldOwn(c, r.snap, p) /\ e(c).started}
      work(c) == Work(engaged[p][c], e(c).runs + 1, x)
  IN
  /\ stopping[p] = {}
  /\ \/ /\ r \in overtaken[p]
        /\ overtaken' = [overtaken EXCEPT ![p] = @ \ {r}]
        /\ UNCHANGED kicks
     \/ /\ r.snap = snapshot[p]
        /\ \/ r.by \in kicks[p]
           \/ r.by = 0 /\ \A o \in overtaken[p] : o.by # 0
        /\ kicks' = [kicks EXCEPT ![p] = @ \ {r.by}]
        /\ UNCHANGED overtaken
  /\ failed \subseteq can /\ landed \subseteq failed
  /\ faults + Cardinality(failed) <= MaxFaults
  /\ faults' = faults + Cardinality(failed)
  /\ lease' = [f \in Fence |->
       IF \E c \in got \cup landed : FenceOf[c] = f
       THEN [holder |-> p, valid |-> TRUE] ELSE lease[f]]
  /\ held' = [held EXCEPT ![p] = @ \cup {guard(c) : c \in got}]
  /\ fencing' = [fencing EXCEPT ![p] = @ (+) SetToBag(
       {Goroutine("loop", guard(c), Background) : c \in got}
       \cup {Goroutine("release", e(c).fence, x) : c \in ends})]
  /\ eng' = [eng EXCEPT ![p] = [t \in Token |->
       LET c == eng[p][t].cluster IN
       IF engaged[p][c] # t THEN eng[p][t]
       ELSE IF c \in begins
       THEN [eng[p][t] EXCEPT !.fence = guard(c), !.started = TRUE,
                              !.cancel = work(c), !.runs = @ + 1]
       ELSE IF c \in wants
       THEN [eng[p][t] EXCEPT !.fence = guard(c), !.throttled = @ \/ c \in tries]
       ELSE IF c \in ends
       THEN [eng[p][t] EXCEPT !.cancel = NoWork, !.started = FALSE, !.throttled = FALSE]
       ELSE eng[p][t]]]
  /\ works' = [works EXCEPT ![p] = @ \cup {work(c) : c \in begins}]
  /\ stopping' = [stopping EXCEPT ![p] = {e(c).cancel : c \in ends}]
  /\ starting' = [starting EXCEPT ![p] = @ \cup {work(c) : c \in begins}]
  /\ UNCHANGED <<snapshot, live, next, engaged, cleanup, flips>>

\* The end of recompute: only now are the stopped contexts cancelled, before the
\* new ones are given to startForCluster; then c.mu is unlocked.
RecomputeEnd(p) ==
  /\ stopping[p] # {}
  /\ works' = [works EXCEPT ![p] = @ \ stopping[p]]
  /\ stopping' = [stopping EXCEPT ![p] = {}]
  /\ UNCHANGED <<snapshot, live, next, engaged, eng, cleanup, kicks, overtaken, starting,
                 held, fencing, lease, flips, faults>>

-----------------------------------------------------------------------------
\* startForCluster: every Aware is engaged, or one fails and the engagement the
\* name has by then is stopped.

\* The mutation: recompute forgets the starts it collected.
StartForgotten(p, w) == w \in starting[p] /\ UNCHANGED vars
StartDone(p, w) ==
  /\ stopping[p] = {}
  /\ w \in starting[p]
  /\ starting' = [starting EXCEPT ![p] = @ \ {w}]
  /\ UNCHANGED <<snapshot, live, next, engaged, eng, cleanup, kicks, overtaken, stopping, works,
                 held, fencing, lease, flips, faults>>

StartFailed(p, w) ==
  LET t == engaged[p][eng[p][w.token].cluster]
      stop == t # 0 /\ eng[p][t].cancel # NoWork
  IN
  /\ stopping[p] = {}
  /\ w \in starting[p]
  /\ starting' = [starting EXCEPT ![p] = @ \ {w}]
  /\ AwareFails /\ faults < MaxFaults /\ faults' = faults + 1
  /\ works' = [works EXCEPT ![p] = IF stop THEN @ \ CancelOf(p, t) ELSE @]
  /\ eng' = IF stop THEN [eng EXCEPT ![p][t].started = FALSE] ELSE eng
  /\ UNCHANGED <<snapshot, live, next, engaged, cleanup, kicks, overtaken, stopping, held, fencing,
                 lease, flips>>

-----------------------------------------------------------------------------
\* The goroutines of a guard: a renew loop with a live context ("loop"), a loop
\* about to call onLost ("lost"), a Release not yet begun ("release") and one that
\* has yet to clear the Lease ("clear").

FenceFor(p, g) == FenceOf[eng[p][g].cluster]

Running(p, r) == r \in BagToSet(fencing[p])

\* The last components of every step of a guard goroutine.
GuardFrame == UNCHANGED <<snapshot, live, next, engaged, cleanup, kicks, overtaken, stopping,
                          starting, flips>>

\* renewOnce: an expired Lease is taken back, a cleared unexpired one is a loss.
Renew(p, g) ==
  LET r == Goroutine("loop", g, Background)
      f == FenceFor(p, g)
      renewable == lease[f].holder = p \/ ~lease[f].valid
      renewed == [lease EXCEPT ![f] = [holder |-> p, valid |-> TRUE]]
  IN
  /\ Running(p, r)
  /\ \/ renewable /\ lease' = renewed /\ UNCHANGED <<fencing, faults>>
     \/ /\ ~renewable
        /\ Become(p, r, {Goroutine("lost", g, Background)})
        /\ UNCHANGED <<lease, faults>>
     \/ /\ faults < MaxFaults /\ faults' = faults + 1
        /\ Become(p, r, {Goroutine("lost", g, Background)})
        /\ lease' \in {lease, IF renewable THEN renewed ELSE lease}
  /\ UNCHANGED <<eng, works, held>> /\ GuardFrame

\* onLost stops whatever engagement the cluster has; then the loop calls Release.
OnLost(p, g) ==
  LET r == Goroutine("lost", g, Background)
      t == engaged[p][eng[p][g].cluster]
      stop == t # 0 /\ eng[p][t].started
  IN
  /\ stopping[p] = {}
  /\ Running(p, r)
  /\ works' = [works EXCEPT ![p] = IF stop THEN @ \ CancelOf(p, t) ELSE @]
  /\ eng' = IF stop THEN [eng EXCEPT ![p][t].started = FALSE] ELSE eng
  /\ Become(p, r, {Goroutine("release", g, Background)})
  /\ UNCHANGED <<held, lease, faults>> /\ GuardFrame

\* What Release ends: itself and the live renew loop of its guard; the mutation
\* forgets to call g.cancel.
KeepsLoop(r) == {r}
Ended(r) == {r, Goroutine("loop", r.guard, Background)}

\* Release, local part: nothing unless held; else the renew loop is cancelled, which
\* ends it, unless it is inside renewOnce and takes the error for a loss.
Release(p, r) ==
  LET g == r.guard
      loop == Goroutine("loop", g, Background)
      clear == Goroutine("clear", g, r.ctx)
      left == fencing[p] (-) SetToBag(Ended(r))
  IN
  /\ r.at = "release" /\ Running(p, r)
  /\ held' = [held EXCEPT ![p] = @ \ {g}]
  /\ IF g \notin held[p] THEN Become(p, r, {})
     ELSE \E new \in {{clear}} \cup (IF Running(p, loop)
                                   THEN {{clear, Goroutine("lost", g, Background)}} ELSE {}) :
            fencing' = [fencing EXCEPT ![p] = left (+) SetToBag(new)]
  /\ UNCHANGED <<eng, works, lease, faults>> /\ GuardFrame

\* Release, API part: the holder is cleared if it is still this peer; a dead
\* context or an API error leaves the Lease to expire.
Clear(p, r) ==
  LET f == FenceFor(p, r.guard) IN
  /\ r.at = "clear" /\ Running(p, r)
  /\ Become(p, r, {})
  /\ \/ /\ lease' = IF CtxLive(p, r.ctx) /\ lease[f].holder = p
                    THEN [lease EXCEPT ![f].holder = Nobody] ELSE lease
        /\ UNCHANGED faults
     \/ /\ faults < MaxFaults /\ faults' = faults + 1
        /\ UNCHANGED lease
  /\ UNCHANGED <<eng, works, held>> /\ GuardFrame

-----------------------------------------------------------------------------
\* Time, and the death of a process.

\* nextTry passes.
Unthrottle(p, t) ==
  /\ eng[p][t].throttled
  /\ eng' = [eng EXCEPT ![p][t].throttled = FALSE]
  /\ UNCHANGED <<works, held, fencing, lease, faults>> /\ GuardFrame

Expire(f) ==
  /\ lease[f].valid
  /\ lease' = [lease EXCEPT ![f].valid = FALSE]
  /\ UNCHANGED <<eng, works, held, fencing, faults>> /\ GuardFrame

\* The process comes back with the same identity and nothing in memory.
Crash(p) ==
  /\ faults < MaxFaults /\ faults' = faults + 1
  /\ snapshot' = [snapshot EXCEPT ![p] = {}]
  /\ live' = [live EXCEPT ![p] = Ctx]
  /\ next' = [next EXCEPT ![p] = 0]
  /\ engaged' = [engaged EXCEPT ![p] = [c \in Cluster |-> 0]]
  /\ eng' = [eng EXCEPT ![p] = [t \in Token |-> Unused]]
  /\ cleanup' = [cleanup EXCEPT ![p] = {}]
  /\ kicks' = [kicks EXCEPT ![p] = {}]
  /\ overtaken' = [overtaken EXCEPT ![p] = {}]
  /\ stopping' = [stopping EXCEPT ![p] = {}]
  /\ works' = [works EXCEPT ![p] = {}]
  /\ starting' = [starting EXCEPT ![p] = {}]
  /\ held' = [held EXCEPT ![p] = {}]
  /\ fencing' = [fencing EXCEPT ![p] = EmptyBag]
  /\ UNCHANGED <<lease, flips>>

\* A recompute by Engage or Runnable, whatever its calls return.
Recompute(p) ==
  \E r \in overtaken[p] \cup [by : kicks[p] \cup {0}, snap : {snapshot[p]}],
     failed, landed \in SUBSET Cluster : RecomputeLoop(p, r, failed, landed)

\* What goroutines that wait for nothing but the scheduler do.
Goroutines(p) ==
  \/ RecomputeEnd(p)
  \/ \E t \in Token : Cleanup(p, t) \/ Renew(p, t) \/ OnLost(p, t)
  \/ \E w \in starting[p] : StartDone(p, w) \/ StartFailed(p, w)
  \/ \E r \in BagToSet(fencing[p]) : Release(p, r) \/ Clear(p, r)

Throttle(p) == \E t \in Token : Unthrottle(p, t)

Internal(p) == Goroutines(p) \/ Recompute(p) \/ Throttle(p)

\* The provider, the registry and crashes.
External(p) ==
  \/ \E c \in Cluster, x \in Ctx : Engage(p, c, x)
  \/ \E x \in Ctx : CancelCtx(p, x)
  \/ \E S \in View, late \in SUBSET Late : RefreshPeers(p, S, late)
  \/ Crash(p)

Next ==
  \/ \E p \in Active : Internal(p) \/ External(p)
  \/ \E f \in Fence : Expire(f)

Spec == Init /\ [][Next]_vars

\* Renewals in time: a Lease does not expire while its holder's loop is alive.
Renewing(f) ==
  \E p \in Active : /\ lease[f].holder = p
                    /\ \E g \in Token : /\ Running(p, Goroutine("loop", g, Background))
                                        /\ FenceFor(p, g) = f

TimelyNext ==
  \/ \E p \in Active : Internal(p) \/ External(p)
  \/ \E f \in Fence : ~Renewing(f) /\ Expire(f)

\* Goroutines are scheduled and their calls return, the probe ticker ticks, and the
\* clock passes nextTry and the end of Leases nobody renews.
Fairness ==
  /\ \A p \in Active :
       WF_vars(Goroutines(p)) /\ WF_vars(Recompute(p)) /\ WF_vars(Throttle(p))
  /\ \A f \in Fence : WF_vars(~Renewing(f) /\ Expire(f))

TimelySpec == Init /\ [][TimelyNext]_vars

\* Only what a removal needs: recompute finishes and unlocks, and the goroutines that
\* wait for a parent to be done run.
CleanupSpec ==
  TimelySpec /\ \A p \in Active : WF_vars(RecomputeEnd(p) \/ \E t \in Token : Cleanup(p, t))
FairSpec == TimelySpec /\ Fairness

-----------------------------------------------------------------------------
\* Properties.

Engagement == [cluster : Cluster, parent : Ctx \cup {Run}, cancel : WorkId \cup {NoWork},
               started : BOOLEAN, fence : 0..MaxTokens, throttled : BOOLEAN, runs : 0..MaxRuns]
GuardGoroutine == [at : {"loop", "lost", "release", "clear"}, guard : Token,
                   ctx : Ctx \cup {Run, Background}]

\* Type invariant of the coordinators, their goroutines and the fences.
TypeOK ==
  /\ snapshot \in [Active -> SUBSET Peer]
  /\ live \in [Active -> SUBSET Ctx]
  /\ next \in [Active -> 0..MaxTokens]
  /\ engaged \in [Active -> [Cluster -> 0..MaxTokens]]
  /\ eng \in [Active -> [Token -> Engagement]]
  /\ cleanup \in [Active -> SUBSET Token] /\ kicks \in [Active -> SUBSET Token]
  /\ overtaken \in [Active -> SUBSET [by : 0..MaxTokens, snap : SUBSET Peer]]
  /\ stopping \in [Active -> SUBSET WorkId] /\ works \in [Active -> SUBSET WorkId]
  /\ starting \in [Active -> SUBSET WorkId] /\ held \in [Active -> SUBSET Token]
  /\ fencing = [p \in Active |-> fencing[p]]
  /\ \A p \in Active :
       IsABag(fencing[p]) /\ BagToSet(fencing[p]) \subseteq GuardGoroutine
  /\ lease \in [Fence -> [holder : Peer \cup {Nobody}, valid : BOOLEAN]]

Current(p, c) == engaged[p][c]

\* However Engage calls, cancellations and cleanup goroutines interleave, the last
\* engagement of a name stays registered while its own parent is live: a late
\* cleanup of an older engagement no-ops (coordinator.go:231,235,254).
NewestStaysEngaged ==
  \A p \in Active, t \in Token :
    (/\ t <= next[p] /\ CtxLive(p, eng[p][t].parent)
     /\ \A u \in Token : t < u /\ u <= next[p] => eng[p][u].cluster # eng[p][t].cluster)
      => Current(p, eng[p][t].cluster) = t

\* No work context is leaked and none is shared: the contexts still uncancelled are
\* those of the started engagements and those recompute is about to cancel
\* (coordinator.go:224,236,304,330,349,363).
StartedIsTheOnlyWork ==
  \A p \in Active :
    /\ \A c \in Cluster : Current(p, c) # 0 /\ eng[p][Current(p, c)].started =>
         eng[p][Current(p, c)].cancel \in works[p] \ stopping[p]
    /\ \A w \in works[p] \ stopping[p] :
         LET t == Current(p, eng[p][w.token].cluster) IN
         t = w.token /\ eng[p][t].started /\ eng[p][t].cancel = w

GivingUp(p, g) ==
  \E r \in BagToSet(fencing[p]) : r.guard = g /\ r.at \in {"lost", "release"}

\* A fence is never forgotten: a held guard belongs to a registered engagement, or a
\* goroutine is on its way to release it (coordinator.go:220-222,239,258,340).
NoForgottenFence ==
  \A p \in Active : \A g \in held[p] :
    (\E c \in Cluster : Current(p, c) # 0 /\ eng[p][Current(p, c)].fence = g)
      \/ GivingUp(p, g)

\* Releases, losses and re-acquisitions of a guard never leave two live renew loops,
\* nor a live loop behind a guard that is not held, nor a held guard that nobody
\* renews and nobody is about to release (leaseguard.go:129-132,146-151,184-187).
OneRenewerPerFence ==
  \A p \in Active, g \in Token :
    LET loops == Count(Goroutine("loop", g, Background), fencing[p]) IN
    /\ loops <= 1
    /\ loops = 1 => g \in held[p]
    /\ g \in held[p] => loops = 1 \/ GivingUp(p, g)

\* Awares of cluster c run at p: a live engagement context was given to them.
Working(p, c) ==
  \E w \in works[p] : /\ eng[p][w.token].cluster = c /\ CtxLive(p, w.parent)
                      /\ w \notin starting[p]

\* Once a cluster is removed (its parent is cancelled) its work stops, also work that
\* a recompute starts after the cancellation (coordinator.go:233-243).
RemovedStops ==
  \A p \in Active, t \in Token :
    (t <= next[p] /\ ~CtxLive(p, eng[p][t].parent))
      ~> (\A w \in works[p] : w.token # t)

\* All running peers see each other and have the cluster.
Agreed(c) ==
  \A p \in Active :
    /\ snapshot[p] = Active
    /\ Current(p, c) # 0 /\ CtxLive(p, eng[p][Current(p, c)].parent)

\* After the membership settles, exactly the HRW owner works on the cluster, whatever
\* contended fences, stale snapshots and late releases came before ("HRW reassigns and
\* fencing enforces single-writer", docs/designs/coordination.md:56).
Rebalanced ==
  \A c \in Cluster : <>[]Agreed(c) =>
    <>[](\A p \in Active : Working(p, c) <=> ShouldOwn(c, Active, p))

\* "uses the fence to guarantee single-writer semantics" (coordinator.go:97): no
\* cluster is worked on by two peers at a time.
SingleWriter ==
  \A c \in Cluster, p, q \in Active : Working(p, c) /\ Working(q, c) => p = q

\* "The given context is tied to the Cluster's lifecycle and will be cancelled when
\* the Cluster is removed or an error occurs" (multicluster.go): the context of a
\* started cluster is live as long as the cluster's own parent is.
WorkTiedToOwnCluster ==
  \A p \in Active, c \in Cluster :
    LET e == eng[p][Current(p, c)] IN
    Current(p, c) # 0 /\ e.started /\ CtxLive(p, e.parent) => CtxLive(p, e.cancel.parent)
=============================================================================
