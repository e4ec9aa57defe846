------------------------------ MODULE Clusters ------------------------------
(***************************************************************************)
(* The cluster map providers share (pkg/clusters/clusters.go), for one     *)
(* cluster name.  Every call of Add or AddOrReplace brings a cluster       *)
(* instance of its own, so an instance names the call, the goroutine that  *)
(* runs cl.Start, and the context and cancel function Add creates.         *)
(* What happens under one hold of c.lock is one action.                    *)
(***************************************************************************)
EXTENDS Naturals, FiniteSets

CONSTANTS
  Cl,          \* cluster instances
  Config,      \* Config[cl]: what cl.GetConfig() returns
  None,        \* no cluster
  Field,       \* indexes that can be registered
  Replacing,   \* whether providers call AddOrReplace (else Add)
  MaxRemoves,  \* bound on calls of Remove by the provider
  MaxFaults    \* bound on failing starts, syncs and engagements

ASSUME ClustersAssumption ==
  /\ None \notin Cl /\ DOMAIN Config = Cl /\ Replacing \in BOOLEAN
  /\ MaxRemoves \in Nat /\ MaxFaults \in Nat

VARIABLES
  stored,     \* c.clusters[name], with its cancel function in c.cancels
  pc,         \* where the call of Add or AddOrReplace with cl is
  running,    \* instances whose cl.Start has not returned
  returned,   \* instances whose goroutine has its deferred Remove to do
  cancelled,  \* instances whose context is cancelled
  indexers,   \* c.indexers
  applied,    \* applied[cl]: indexes the cache of cl has
  todo,       \* todo[f]: the clones IndexField has yet to index
  removes, faults

vars == <<stored, pc, running, returned, cancelled, indexers, applied, todo, removes, faults>>

Init ==
  /\ stored = None
  /\ pc = [cl \in Cl |-> "idle"]
  /\ running = {} /\ returned = {} /\ cancelled = {}
  /\ indexers = {}
  /\ applied = [cl \in Cl |-> {}]
  /\ todo = [f \in Field |-> {}]
  /\ removes = 0 /\ faults = 0

Goto(cl, from, to) == pc[cl] = from /\ pc' = [pc EXCEPT ![cl] = to]

Fault == faults < MaxFaults /\ faults' = faults + 1

\* What Remove cancels: the context of whatever is stored.  The mutation
\* deletes only.
CancelsNone == {}
CancelsStored == {stored} \ {None}

\* Remove, by name.
Remove == stored' = None /\ cancelled' = cancelled \cup CancelsStored

-----------------------------------------------------------------------------
\* Add and AddOrReplace.

\* AddOrReplace looks the name up first, under a lock of its own.
Call(cl) ==
  /\ Goto(cl, "idle", IF ~Replacing \/ stored = None THEN "add"
                      ELSE IF Config[stored] = Config[cl] THEN "kept"
                      ELSE "replace")
  /\ UNCHANGED <<stored, running, returned, cancelled, indexers, applied, todo, removes,
                 faults>>

Replace(cl) ==
  /\ Goto(cl, "replace", "add")
  /\ Remove
  /\ UNCHANGED <<running, returned, indexers, applied, todo, removes, faults>>

\* add, and the goroutine that runs the cluster.
AddEntry(cl) ==
  /\ \/ /\ stored # None                     \* already exists
        /\ Goto(cl, "add", "failed") /\ UNCHANGED <<stored, running>>
     \/ /\ stored = None
        /\ Goto(cl, "add", "sync")
        /\ stored' = cl /\ running' = running \cup {cl}
  /\ UNCHANGED <<returned, cancelled, indexers, applied, todo, removes, faults>>

\* WaitForCacheSync: false when it times out or the context is cancelled.
Sync(cl) ==
  /\ \/ Goto(cl, "sync", "index") /\ UNCHANGED faults
     \/ Goto(cl, "sync", "undo") /\ cl \in cancelled /\ UNCHANGED faults
     \/ Goto(cl, "sync", "undo") /\ Fault
  /\ UNCHANGED <<stored, running, returned, cancelled, indexers, applied, todo, removes>>

\* The indexes registered so far, and the mutation that leaves those an IndexField is
\* still working on to it.
SettledIndexers == {f \in indexers : todo[f] = {}}
KnownIndexers == indexers

\* The standard cache refuses an index it already has.
Index(cl) ==
  /\ \/ /\ applied[cl] \cap KnownIndexers = {}
        /\ Goto(cl, "index", "engage")
        /\ applied' = [applied EXCEPT ![cl] = @ \cup KnownIndexers]
     \/ /\ applied[cl] \cap KnownIndexers # {}
        /\ Goto(cl, "index", "undo")
        /\ \E some \in SUBSET KnownIndexers : applied' = [applied EXCEPT ![cl] = @ \cup some]
  /\ UNCHANGED <<stored, running, returned, cancelled, indexers, todo, removes, faults>>

\* aware.Engage; an aware may refuse a cancelled context, and the basic coordinator
\* does not look.
Engage(cl) ==
  /\ \/ Goto(cl, "engage", "done") /\ UNCHANGED faults
     \/ Goto(cl, "engage", "undo") /\ cl \in cancelled /\ UNCHANGED faults
     \/ Goto(cl, "engage", "undo") /\ Fault
  /\ UNCHANGED <<stored, running, returned, cancelled, indexers, applied, todo, removes>>

\* The deferred Remove of a failing Add.
Undo(cl) ==
  /\ Goto(cl, "undo", "failed")
  /\ Remove
  /\ UNCHANGED <<running, returned, indexers, applied, todo, removes, faults>>

-----------------------------------------------------------------------------
\* The goroutine of Add.

\* cl.Start returns: the context is cancelled, or it fails.
StartReturns(cl) ==
  /\ cl \in running
  /\ running' = running \ {cl}
  /\ returned' = returned \cup {cl}
  /\ \/ cl \in cancelled /\ UNCHANGED faults
     \/ Fault
  /\ UNCHANGED <<stored, pc, cancelled, indexers, applied, todo, removes>>

\* The deferred Remove, by name; the mutation lacks it.
NoRemove == UNCHANGED <<stored, cancelled>>
RemoveOnReturn == Remove

GoroutineEnds(cl) ==
  /\ cl \in returned
  /\ returned' = returned \ {cl}
  /\ RemoveOnReturn
  /\ UNCHANGED <<pc, running, indexers, applied, todo, removes, faults>>

-----------------------------------------------------------------------------
\* The other calls.

CallRemove ==
  /\ removes < MaxRemoves /\ removes' = removes + 1
  /\ Remove
  /\ UNCHANGED <<pc, running, returned, indexers, applied, todo, faults>>

\* IndexField registers the index and clones the map under the lock ...
IndexField(f) ==
  /\ f \notin indexers
  /\ indexers' = indexers \cup {f}
  /\ todo' = [todo EXCEPT ![f] = {stored} \ {None}]
  /\ UNCHANGED <<stored, pc, running, returned, cancelled, applied, removes, faults>>

\* ... and indexes the clones outside it; errors are only collected.
IndexClone(f, cl) ==
  /\ cl \in todo[f]
  /\ todo' = [todo EXCEPT ![f] = @ \ {cl}]
  /\ applied' = [applied EXCEPT ![cl] = @ \cup {f}]
  /\ UNCHANGED <<stored, pc, running, returned, cancelled, indexers, removes, faults>>

AddStep(cl) ==
  \/ Replace(cl) \/ AddEntry(cl) \/ Sync(cl) \/ Index(cl) \/ Engage(cl) \/ Undo(cl)

Next ==
  \/ \E cl \in Cl : Call(cl) \/ AddStep(cl) \/ StartReturns(cl) \/ GoroutineEnds(cl)
  \/ CallRemove
  \/ \E f \in Field : IndexField(f) \/ \E cl \in Cl : IndexClone(f, cl)

Spec == Init /\ [][Next]_vars

\* Started calls and goroutines go on; a cancelled cluster stops.
Fairness ==
  \A cl \in Cl : /\ WF_vars(AddStep(cl)) /\ WF_vars(GoroutineEnds(cl))
                 /\ WF_vars(cl \in cancelled /\ StartReturns(cl))

FairSpec == Spec /\ Fairness

-----------------------------------------------------------------------------
\* Properties.

\* Type invariant of the map, the calls and the goroutines.
TypeOK ==
  /\ stored \in Cl \cup {None}
  /\ pc \in [Cl -> {"idle", "replace", "add", "kept", "sync", "index", "engage", "undo",
                    "done", "failed"}]
  /\ running \subseteq Cl /\ returned \subseteq Cl /\ cancelled \subseteq Cl
  /\ indexers \subseteq Field
  /\ applied \in [Cl -> SUBSET Field] /\ todo \in [Field -> SUBSET Cl]

\* No orphan and no zombie: of the instances that run or were engaged, exactly the
\* stored one has a live context, however calls, failing starts and the by-name
\* removals of old goroutines interleave (clusters.go:115,127,135,143,159-161,170-174).
OnlyStoredIsLive ==
  \A cl \in Cl : cl \in running \cup returned \/ pc[cl] = "done" =>
    (cl \notin cancelled <=> stored = cl)

\* "Clusters engaged after this call will also have the index applied": an engaged
\* cluster in the map has every index whose IndexField is over, whichever of Add and
\* IndexField came first or in between (clusters.go:131-139,209-228).
EngagedIsIndexed ==
  \A cl \in Cl, f \in indexers :
    pc[cl] = "done" /\ stored = cl /\ cl \notin todo[f] => f \in applied[cl]

\* A cluster whose Start returned is taken out of the map and its context is
\* cancelled, so that the awares engaged with it stop (clusters.go:115).
DeadClusterIsRemoved ==
  \A cl \in Cl : cl \in returned ~> (cl \in cancelled /\ stored # cl)

\* "AddOrReplace adds or replaces a cluster with the given name" (clusters.go:184):
\* when no call is under way, nothing failed and nobody called Remove, a name that
\* was added is in the map.
NameStaysRegistered ==
  /\ faults = 0 /\ removes = 0
  /\ \A cl \in Cl : pc[cl] \in {"idle", "done", "kept"}
  /\ \E cl \in Cl : pc[cl] = "done"
  => stored # None
=============================================================================
