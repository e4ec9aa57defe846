---------------------------- MODULE PeerRegistry ----------------------------
(***************************************************************************)
(* The Lease-based peer registry                                           *)
(* (pkg/manager/coordinator/sharded/peers/registry.go): every peer keeps   *)
(* one Lease alive and lists the Leases of the others.                     *)
(*                                                                         *)
(* Time is kept as ages, capped one past the ttl, so that it passes for    *)
(* ever in a finite model: the age of a Lease is the time since the        *)
(* RenewTime it records.  Weights, labels and names are left out.          *)
(***************************************************************************)
EXTENDS Naturals, FiniteSets

CONSTANTS
  Peer,             \* peer IDs, each with a Lease of its own
  Active,           \* those that run; the others ended and may have left a Lease
  Nobody,           \* the empty HolderIdentity
  Ttl,              \* r.ttl, in clock ticks
  ReleaseOnCancel,  \* r.releaseOnCancel
  MaxFaults,        \* bound on API errors
  MaxStops          \* bound on cancellations and crashes

ASSUME RegistryAssumption ==
  /\ Active \subseteq Peer /\ Nobody \notin Peer /\ Ttl \in Nat \ {0}
  /\ ReleaseOnCancel \in BOOLEAN /\ MaxFaults \in Nat /\ MaxStops \in Nat

VARIABLES
  pc,        \* where each peer's Run is
  done,      \* peers whose context is cancelled
  lease,     \* lease[p]: [created, holder, age]
  since,     \* since[p]: the time since renewSelfLease read the clock
  listed,    \* listed[p]: the Leases the List of refreshPeers returned, with their ages
  snapshot,  \* snapshot[p]: the keys of r.peers
  exited,    \* peers that have ended at least once, kept for the properties
  faults, stops

vars == <<pc, done, lease, since, listed, snapshot, exited, faults, stops>>

NoLease == [created |-> FALSE, holder |-> Nobody, age |-> Ttl + 1]
Held(q, age) == [created |-> TRUE, holder |-> q, age |-> age]
Nothing == [q \in Peer |-> NoLease]

Init ==
  /\ pc = [p \in Peer |-> "off"]
  /\ done = {}
  /\ \E left \in SUBSET (Peer \ Active) :
       lease = [q \in Peer |-> IF q \in left THEN Held(q, 0) ELSE NoLease]
  /\ since = [p \in Peer |-> 0]
  /\ listed = [p \in Peer |-> Nothing]
  /\ snapshot = [p \in Peer |-> {}]
  /\ exited = {} /\ faults = 0 /\ stops = 0

Goto(p, from, to) == pc[p] = from /\ pc' = [pc EXCEPT ![p] = to]

\* A call of p fails: its context is cancelled or the API server has an error.
Fails(p) ==
  \/ p \in done /\ UNCHANGED faults
  \/ faults < MaxFaults /\ faults' = faults + 1

\* A process starts with an empty registry.
Start(p) ==
  /\ p \in Active
  /\ Goto(p, "off", "renew")
  /\ UNCHANGED <<done, lease, since, listed, snapshot, exited, faults, stops>>

\* renewSelfLease reads the clock first ...
RenewSelf(p) ==
  /\ Goto(p, "renew", "upsert")
  /\ since' = [since EXCEPT ![p] = 0]
  /\ UNCHANGED <<done, lease, listed, snapshot, exited, faults, stops>>

\* ... and creates or updates the Lease later; an error is retried by the next round.
Upsert(p) ==
  /\ Goto(p, "upsert", "list")
  /\ since' = [since EXCEPT ![p] = 0]
  /\ \/ /\ lease' = [lease EXCEPT ![p] = Held(p, since[p])]
        /\ UNCHANGED faults
     \/ Fails(p) /\ UNCHANGED lease
  /\ UNCHANGED <<done, listed, snapshot, exited, stops>>

\* refreshPeers: List; on an error the old snapshot stays.
List(p) ==
  /\ \/ /\ Goto(p, "list", "store")
        /\ listed' = [listed EXCEPT ![p] = lease]
        /\ UNCHANGED faults
     \/ /\ Goto(p, "list", "wait") /\ Fails(p)
        /\ UNCHANGED listed
  /\ UNCHANGED <<done, lease, since, snapshot, exited, stops>>

\* Whether a listed Lease counts: it has a holder and its validity is not over.
\* The mutations: no test for the empty holder, a validity that ends a tick early,
\* and none at all.
CountsUnheld(l) == l.created /\ l.age <= Ttl
CountsBriefly(l) == l.created /\ l.holder # Nobody /\ l.age < Ttl
CountsForever(l) == l.created /\ l.holder # Nobody
Counts(l) == l.created /\ l.holder # Nobody /\ l.age <= Ttl

\* refreshPeers after List: expiry by the time it is now, then self, then the store.
Store(p) ==
  /\ Goto(p, "store", "wait")
  /\ snapshot' = [snapshot EXCEPT ![p] =
       {listed[p][q].holder : q \in {r \in Peer : Counts(listed[p][r])}} \cup {p}]
  /\ listed' = [listed EXCEPT ![p] = Nothing]
  /\ UNCHANGED <<done, lease, since, exited, faults, stops>>

\* The select: the ticker, or the cancelled context and with it the release.
NextRound(p) ==
  /\ Goto(p, "wait", "renew")
  /\ UNCHANGED <<done, lease, since, listed, snapshot, exited, faults, stops>>

StopRun(p) ==
  /\ p \in done
  /\ Goto(p, "wait", IF ReleaseOnCancel THEN "release" ELSE "gone")
  /\ UNCHANGED <<done, lease, since, listed, snapshot, exited, faults, stops>>

\* release, under a context of its own.
Release(p) ==
  /\ Goto(p, "release", "gone")
  /\ \/ /\ lease' = IF lease[p].created /\ lease[p].holder = p
                    THEN [lease EXCEPT ![p].holder = Nobody] ELSE lease
        /\ UNCHANGED faults
     \/ faults < MaxFaults /\ faults' = faults + 1 /\ UNCHANGED lease
  /\ UNCHANGED <<done, since, listed, snapshot, exited, stops>>

\* The manager cancels the context of Run.
Cancel(p) ==
  /\ pc[p] \notin {"off", "release", "gone"} /\ p \notin done
  /\ stops < MaxStops /\ stops' = stops + 1
  /\ done' = done \cup {p}
  /\ UNCHANGED <<pc, lease, since, listed, snapshot, exited, faults>>

\* A process ends, killed or after Run has returned; it may start again.
Exit(p) ==
  /\ pc[p] # "off"
  /\ \/ pc[p] = "gone" /\ UNCHANGED stops
     \/ pc[p] # "gone" /\ stops < MaxStops /\ stops' = stops + 1
  /\ pc' = [pc EXCEPT ![p] = "off"]
  /\ done' = done \ {p}
  /\ exited' = exited \cup {p}
  /\ since' = [since EXCEPT ![p] = 0]
  /\ listed' = [listed EXCEPT ![p] = Nothing]
  /\ snapshot' = [snapshot EXCEPT ![p] = {}]
  /\ UNCHANGED <<lease, faults>>

Older(n) == IF n > Ttl THEN n ELSE n + 1
OlderLeases(ls) ==
  [q \in Peer |-> IF ls[q].created THEN [ls[q] EXCEPT !.age = Older(@)] ELSE ls[q]]

Tick ==
  /\ lease' = OlderLeases(lease)
  /\ listed' = [p \in Peer |-> OlderLeases(listed[p])]
  /\ since' = [p \in Peer |-> IF pc[p] = "upsert" THEN Older(since[p]) ELSE 0]
  /\ UNCHANGED <<pc, done, snapshot, exited, faults, stops>>

\* One step of Run.
RunStep(p) ==
  \/ RenewSelf(p) \/ Upsert(p) \/ List(p) \/ Store(p)
  \/ NextRound(p) \/ StopRun(p) \/ Release(p)

Next ==
  \/ Tick
  \/ \E p \in Peer : RunStep(p) \/ Start(p) \/ Cancel(p) \/ Exit(p)

Spec == Init /\ [][Next]_vars

-----------------------------------------------------------------------------
\* Timing: a peer whose context is live renews well within the ttl, and acts on a
\* List before the Leases it returned run out.

Running(p) == pc[p] # "off" /\ p \notin done /\ pc[p] \notin {"release", "gone"}

Timely ==
  \A q \in Peer : Running(q) /\ lease[q].holder = q =>
    /\ lease[q].age < Ttl
    /\ pc[q] = "upsert" => since[q] < Ttl
    /\ \A p \in Peer : pc[p] = "store" /\ listed[p][q].holder = q /\ listed[p][q].age <= Ttl
         => listed[p][q].age < Ttl

TimelyNext ==
  \/ Timely /\ Tick
  \/ \E p \in Peer : RunStep(p) \/ Start(p) \/ Cancel(p) \/ Exit(p)

\* Run goes on by itself, sees a cancelled context in the end, and time passes.
Fairness ==
  /\ \A p \in Peer : WF_vars(RunStep(p)) /\ SF_vars(StopRun(p))
  /\ WF_vars(Timely /\ Tick)

TimelySpec == Init /\ [][TimelyNext]_vars
FairSpec == TimelySpec /\ Fairness

-----------------------------------------------------------------------------
\* Properties.

\* Type invariant of the peers, their Leases and their snapshots.
TypeOK ==
  /\ pc \in [Peer -> {"off", "renew", "upsert", "list", "store", "wait", "release", "gone"}]
  /\ done \subseteq Peer
  /\ LET L == [created : BOOLEAN, holder : Peer \cup {Nobody}, age : 0 .. Ttl + 1] IN
     lease \in [Peer -> L] /\ listed \in [Peer -> [Peer -> L]]
  /\ since \in [Peer -> 0 .. Ttl + 1]
  /\ snapshot \in [Peer -> SUBSET Peer] /\ exited \subseteq Peer

\* Renewing in time is enough to stay a member: a peer that has run without a break
\* since it first joined is never dropped from a snapshot that has it, whatever List
\* returned before it renewed (registry.go:144,268-276).
LivePeerNotDropped ==
  [][\A p, q \in Peer :
       q \in snapshot[p] /\ q \notin exited /\ Running(q)' /\ Running(p)'
         => q \in snapshot'[p]]_vars

\* Once peers stop coming and going, every running peer's snapshot becomes, and stays,
\* the set of running peers: those that crashed or were cancelled are dropped, with or
\* without release, although errors kept old snapshots alive (registry.go:141-194,244-296).
SnapshotsConverge ==
  \A S \in SUBSET Active : <>[](S = {p \in Peer : Running(p)}) =>
    <>[](\A p \in S : snapshot[p] = S)
=============================================================================
