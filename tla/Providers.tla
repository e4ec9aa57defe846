------------------------------ MODULE Providers ------------------------------
(***************************************************************************)
(* The providers that keep their own map of clusters: kubeconfig (Secrets), *)
(* cluster-api, cluster-inventory-api (ClusterProfiles), kind and           *)
(* namespace.  Each watches an object per cluster, builds a cluster.Cluster *)
(* for it, starts it under a context of its own, remembers it, and engages  *)
(* the manager; when the object goes or its kubeconfig changes the context  *)
(* is cancelled.  IndexField runs concurrently with all of that.            *)
(*                                                                          *)
(* The module follows ONE cluster name of ONE provider, chosen in Init.     *)
(* The three reconcilers run one worker (MaxConcurrentReconciles is 1, set  *)
(* or by default), the kind provider one polling loop, the namespace        *)
(* provider one informer callback at a time.                                *)
(***************************************************************************)
EXTENDS Naturals, Sequences, FiniteSets

CONSTANTS Configs,      \* kubeconfigs the object may carry
          Fields,       \* fields that are indexed, each by one call
          MaxChanges,   \* bound on the changes of the object
          MaxErrors     \* bound on calls that fail

ASSUME ProvidersAssumption ==
    /\ MaxChanges \in Nat /\ MaxErrors \in Nat
    /\ Configs # {} /\ {"absent", "unready"} \cap Configs = {}

\* Every reconciliation that gets as far as a new cluster answers a change or
\* an error, so this many instances are enough.
Instances == 1 .. (MaxChanges + MaxErrors + 1)
None == 0

\* The providers that delete the entry first and cancel after it, outside the
\* lock, and that call the same function when Engage fails.
Removing == {"kubeconfig", "capi"}
Reconcilers == Removing \cup {"inventory"}
Kinds == Reconcilers \cup {"kind", "namespace"}

VARIABLES
    provider,   \* which provider this is
    object,     \* the watched object: absent, unready, or its kubeconfig
    changes,    \* how often it changed
    queued,     \* the workqueue of a reconciler holds the object's key
    events,     \* informer events not yet handled (namespace)
    pc,         \* where the worker is
    seen,       \* the kubeconfig the worker read
    cur,        \* the instance the worker is creating or cancelling
    created,    \* how many instances there are
    stored,     \* p.clusters[name]
    cancelFn,   \* the instance whose cancel function p.cancelFns[name] holds
    conf,       \* the kubeconfig an instance was built from
    live,       \* instances that were started and whose context is not cancelled
    engaged,    \* instances that Engage accepted
    failed,     \* instances that Engage refused
    indexers,   \* p.indexers
    applied,    \* the indexes of each instance
    call,       \* the IndexField call of each field
    target,     \* the clusters that call copied (cluster-api)
    errors      \* how many calls failed

objectVars == <<object, changes>>
mapVars == <<stored, cancelFn>>
instVars == <<created, conf, live>>
indexVars == <<indexers, call, target>>
vars == <<provider, objectVars, queued, events, pc, seen, cur, mapVars, instVars,
          engaged, failed, indexVars, applied, errors>>

Init ==
    /\ provider \in Kinds
    /\ object = "absent" /\ changes = 0
    /\ queued = FALSE /\ events = <<>>
    /\ pc = "idle" /\ seen = "absent" /\ cur = None
    /\ created = 0 /\ conf = [i \in Instances |-> "absent"] /\ live = {}
    /\ stored = None /\ cancelFn = None
    /\ engaged = {} /\ failed = {}
    /\ indexers = {} /\ applied = [i \in Instances |-> {}]
    /\ call = [f \in Fields |-> "none"] /\ target = [f \in Fields |-> None]
    /\ errors = 0

-----------------------------------------------------------------------------
\* The environment: the object and its events.

\* What each controller watches: a labelled Secret; a CAPI Cluster, whose existence
\* and readiness change it but whose kubeconfig Secret is not watched; a
\* ClusterProfile and what its strategy watches, the Secret.  kind is polled.
KubeconfigWatch == provider = "kubeconfig"
CapiWatch(o) == provider = "capi" /\ {object, o} \cap {"absent", "unready"} # {}
InventoryWatch == provider = "inventory"

Notifies(o) == KubeconfigWatch \/ CapiWatch(o) \/ InventoryWatch

\* A namespace has an Add and a Delete handler and no Update handler.
EventOf(o) ==
    IF provider # "namespace" THEN <<>>
    ELSE IF object = "absent" THEN <<"add">>
    ELSE IF o = "absent" THEN <<"delete">> ELSE <<>>

Change(o) ==
    /\ changes < MaxChanges /\ o # object
    /\ o = "unready" => provider \in Reconcilers
    /\ object' = o /\ changes' = changes + 1
    /\ queued' = (queued \/ Notifies(o))
    /\ events' = events \o EventOf(o)
    /\ UNCHANGED <<provider, pc, seen, cur, mapVars, instVars, engaged, failed,
                   indexVars, applied, errors>>

\* The informer resyncs from time to time and queues every object it has.
Resync ==
    /\ provider \in Reconcilers /\ ~queued /\ object # "absent"
    /\ queued' = TRUE
    /\ UNCHANGED <<provider, objectVars, events, pc, seen, cur, mapVars, instVars,
                   engaged, failed, indexVars, applied, errors>>

-----------------------------------------------------------------------------
\* Steps the providers share.

\* A worker takes the key; an error returned puts it back (rate limited).
Dequeue == queued /\ queued' = FALSE
Requeue == queued' = (provider \in Reconcilers)
Fails == errors < MaxErrors /\ errors' = errors + 1

Idle == pc' = "idle" /\ cur' = None

\* The calls of a reconciliation before it touches the map fail, or there is
\* nothing to do.
GetFails ==
    /\ Fails /\ UNCHANGED <<queued, pc, seen, cur, mapVars, live>>
Skip ==
    /\ Dequeue /\ UNCHANGED <<pc, seen, cur, mapVars, live, errors>>

KeepsEntry(next) ==
    /\ cur' = stored /\ pc' = next /\ UNCHANGED mapVars

\* removeCluster: the entry goes under the lock, its cancel is still to come.
RemoveCluster(next) ==
    /\ stored' = None /\ cancelFn' = None
    /\ cur' = stored /\ pc' = next

\* removeCluster once the lock is released: cancel the removed cluster, then
\* return, or go on to create its successor.
CancelRemoved ==
    /\ pc \in {"removed", "replace"}
    /\ live' = live \ {cur}
    /\ cur' = None
    /\ pc' = IF pc = "replace" THEN "create" ELSE "idle"
    /\ UNCHANGED <<provider, objectVars, queued, events, seen, mapVars, created,
                   conf, engaged, failed, indexVars, applied, errors>>

UnchangedIfStored == stored # None

\* The object is there, is ready (cluster-api, inventory) and has a kubeconfig.
ObjectExists == object # "absent"
HasKubeconfig == object \in Configs

\* What kubeconfig and cluster-api do with what they read: remove, skip, or
\* (re)create when the hash of the kubeconfig is not the remembered one.
Unchanged == stored # None /\ conf[stored] = object

ReconcileByHash ==
    \/ object = "absent" /\ Dequeue /\ RemoveCluster("removed")
       /\ UNCHANGED <<seen, live, errors>>
    \/ object = "unready" /\ Skip
    \/ HasKubeconfig /\ Unchanged /\ Skip
    \/ /\ HasKubeconfig /\ ~Unchanged
       /\ Dequeue /\ seen' = object
       /\ IF stored = None THEN pc' = "create" /\ UNCHANGED <<cur, mapVars>>
                           ELSE RemoveCluster("replace")
       /\ UNCHANGED <<live, errors>>

\* A new cluster for the kubeconfig that was read: built, given the indexes
\* known by now, started under its own context.  Parsing, options, building
\* and indexing may fail before anything is started.
NewCluster ==
    LET i == created + 1 IN
    /\ i \in Instances /\ created' = i /\ cur' = i
    /\ conf' = [conf EXCEPT ![i] = seen]
    /\ applied' = [applied EXCEPT ![i] = indexers]
    /\ live' = live \cup {i}
NoNewCluster == UNCHANGED <<instVars, cur, applied>>

CreateCluster ==
    /\ pc = "create"
    /\ \/ NewCluster /\ pc' = "sync" /\ UNCHANGED <<queued, errors>>
       \/ Fails /\ Requeue /\ pc' = "idle" /\ NoNewCluster
    /\ UNCHANGED <<provider, objectVars, events, seen, mapVars, engaged, failed, indexVars>>

\* WaitForCacheSync returns: the cluster is remembered, or cancelled.
SyncCluster ==
    /\ pc = "sync"
    /\ \/ /\ stored' = cur /\ cancelFn' = cur /\ pc' = "engage"
          /\ UNCHANGED <<queued, cur, live, errors>>
       \/ /\ Fails /\ Requeue /\ live' = live \ {cur} /\ Idle
          /\ UNCHANGED mapVars
    /\ UNCHANGED <<provider, objectVars, events, seen, created, conf, engaged, failed,
                   indexVars, applied>>

\* Engage accepts the cluster ...
Accepted ==
    /\ engaged' = engaged \cup {cur} /\ Idle
    /\ UNCHANGED <<queued, mapVars, failed, errors>>
\* ... or fails: kubeconfig and cluster-api remove it as any other cluster, the
\* others forget the entry and its cancel function without calling it.
RefusedAndRemoved ==
    /\ Fails /\ failed' = failed \cup {cur} /\ Requeue
    /\ RemoveCluster("removed") /\ UNCHANGED engaged
RefusedAndForgotten ==
    /\ Fails /\ failed' = failed \cup {cur} /\ Requeue
    /\ stored' = None /\ cancelFn' = None /\ Idle /\ UNCHANGED engaged

ForgottenByAll == RefusedAndForgotten
EngageUndo == IF provider \in Removing THEN RefusedAndRemoved ELSE RefusedAndForgotten

EngageCluster ==
    /\ pc = "engage"
    /\ Accepted \/ EngageUndo
    /\ UNCHANGED <<provider, objectVars, events, seen, instVars, indexVars, applied>>

-----------------------------------------------------------------------------
\* The Reconcile functions, the poll of kind and the handlers of namespace.

\* What the start of a reconciliation or of a poll never changes.
StartLeaves ==
    UNCHANGED <<provider, objectVars, events, created, conf, engaged, failed, indexVars, applied>>

KubeconfigReconcile ==
    /\ provider = "kubeconfig" /\ pc = "idle" /\ queued
    /\ GetFails \/ ReconcileByHash
    /\ StartLeaves

CapiReconcile ==
    /\ provider = "capi" /\ pc = "idle" /\ queued
    /\ GetFails \/ ReconcileByHash
    /\ StartLeaves

\* ClusterProfile not found: the cluster is forgotten and whatever cancel
\* function is there is called; it stays in p.cancelFns.
InventoryNotFound ==
    /\ object = "absent" /\ Dequeue
    /\ stored' = None /\ live' = live \ {cancelFn}
    /\ UNCHANGED <<cancelFn, pc, seen, cur, errors>>

\* All of Reconcile runs under p.lock; a profile that is not ready is looked at
\* again after 10 s.
InventoryReconcile ==
    /\ provider = "inventory" /\ pc = "idle" /\ queued
    /\ \/ GetFails
       \/ InventoryNotFound
       \/ HasKubeconfig /\ Unchanged /\ Skip
       \/ /\ HasKubeconfig /\ ~Unchanged
          /\ Dequeue /\ seen' = object /\ pc' = "create"
          /\ IF stored = None THEN UNCHANGED <<mapVars, live>>
             ELSE stored' = None /\ cancelFn' = None /\ live' = live \ {cancelFn}
          /\ UNCHANGED <<cur, errors>>
    /\ StartLeaves

\* One round of the kind provider: a listed cluster that is not known is
\* created, a known one that is not listed is stopped and forgotten.  A known
\* cluster is never compared with the listed one.
KindPoll ==
    /\ provider = "kind" /\ pc = "idle"
    /\ \/ /\ object # "absent" /\ stored = None
          /\ \/ seen' = object /\ pc' = "create" /\ UNCHANGED errors
             \/ Fails /\ UNCHANGED <<seen, pc>>
          /\ UNCHANGED <<mapVars, live>>
       \/ /\ object = "absent" /\ stored # None
          /\ stored' = None /\ cancelFn' = None /\ live' = live \ {cancelFn}
          /\ UNCHANGED <<seen, pc, errors>>
    /\ UNCHANGED <<queued, cur>> /\ StartLeaves

\* An index that cannot be applied to a new cluster ends Start of the kind
\* provider with an error.
KindIndexFails ==
    /\ provider = "kind" /\ pc = "create" /\ indexers # {}
    /\ Fails /\ pc' = "stopped"
    /\ UNCHANGED <<queued, seen, cur, mapVars, live>> /\ StartLeaves

\* AddFunc: a namespace not known yet becomes a cluster at once; its cache is
\* that of the host cluster.
NamespaceAdd ==
    /\ provider = "namespace" /\ pc = "idle"
    /\ events # <<>> /\ Head(events) = "add" /\ events' = Tail(events)
    /\ IF stored # None THEN UNCHANGED <<pc, cur, mapVars, instVars, applied>>
       ELSE NewCluster /\ stored' = created + 1 /\ cancelFn' = created + 1 /\ pc' = "engage"
    /\ UNCHANGED <<provider, objectVars, queued, seen, engaged, failed, indexVars, errors>>

\* DeleteFunc: cancel first, then forget under the lock.
NamespaceDelete ==
    /\ provider = "namespace" /\ pc = "idle"
    /\ events # <<>> /\ Head(events) = "delete" /\ events' = Tail(events)
    /\ live' = live \ {cancelFn}
    /\ pc' = IF cancelFn = None THEN "idle" ELSE "forget"
    /\ UNCHANGED <<provider, objectVars, queued, seen, cur, mapVars, created, conf,
                   engaged, failed, indexVars, applied, errors>>
NamespaceForget ==
    /\ pc = "forget"
    /\ stored' = None /\ cancelFn' = None /\ Idle
    /\ UNCHANGED <<provider, objectVars, queued, events, seen, instVars, engaged, failed,
                   indexVars, applied, errors>>

-----------------------------------------------------------------------------
\* IndexField: remember the index for future clusters, apply it to the known
\* ones.  A cluster refuses a field it has already indexed, and the call then
\* fails; so it may when the cluster's API does not answer.

IndexLeaves ==
    UNCHANGED <<provider, objectVars, queued, events, pc, seen, cur, mapVars, instVars,
                engaged, failed, errors>>

Apply(f, i) ==
    \/ /\ i = None
       /\ call' = [call EXCEPT ![f] = "ok"] /\ UNCHANGED applied
    \/ /\ i # None /\ f \notin applied[i]
       /\ applied' = [applied EXCEPT ![i] = @ \cup {f}]
       /\ call' = [call EXCEPT ![f] = "ok"]
    \/ /\ i # None
       /\ call' = [call EXCEPT ![f] = "failed"] /\ UNCHANGED applied

\* kubeconfig saves under the lock, releases it, and takes it again to apply.
KubeconfigIndexField(f) ==
    /\ provider = "kubeconfig" /\ call[f] = "none"
    /\ indexers' = indexers \cup {f}
    /\ call' = [call EXCEPT ![f] = "saved"]
    /\ UNCHANGED <<target, applied>> /\ IndexLeaves
KubeconfigIndexApply(f) ==
    /\ provider = "kubeconfig" /\ call[f] = "saved"
    /\ Apply(f, stored)
    /\ UNCHANGED <<indexers, target>> /\ IndexLeaves

\* cluster-api saves and copies the map under the lock, and applies to the copy.
CapiIndexField(f) ==
    /\ provider = "capi" /\ call[f] = "none"
    /\ indexers' = indexers \cup {f}
    /\ target' = [target EXCEPT ![f] = stored]
    /\ call' = [call EXCEPT ![f] = "saved"]
    /\ UNCHANGED applied /\ IndexLeaves
CapiIndexApply(f) ==
    /\ provider = "capi" /\ call[f] = "saved"
    /\ Apply(f, target[f])
    /\ UNCHANGED <<indexers, target>> /\ IndexLeaves

\* The inventory provider does both under the lock that Reconcile holds.
Unlocked == TRUE
LockFree == pc = "idle"
InventoryIndexField(f) ==
    /\ provider = "inventory" /\ call[f] = "none" /\ LockFree
    /\ indexers' = indexers \cup {f}
    /\ Apply(f, stored)
    /\ UNCHANGED target /\ IndexLeaves

\* kind does both under its lock; Start does not hold it while it indexes.
KindIndexField(f) ==
    /\ provider = "kind" /\ call[f] = "none"
    /\ indexers' = indexers \cup {f}
    /\ Apply(f, stored)
    /\ UNCHANGED target /\ IndexLeaves

\* All namespace clusters share the host cluster's cache and its indexes.
NamespaceIndexField(f) ==
    /\ provider = "namespace" /\ call[f] = "none"
    /\ indexers' = indexers \cup {f}
    /\ applied' = [i \in Instances |-> applied[i] \cup {f}]
    /\ call' = [call EXCEPT ![f] = "ok"]
    /\ UNCHANGED target /\ IndexLeaves

-----------------------------------------------------------------------------
Worker ==
    \/ KubeconfigReconcile \/ CapiReconcile \/ InventoryReconcile
    \/ KindPoll \/ KindIndexFails
    \/ NamespaceAdd \/ NamespaceDelete \/ NamespaceForget
    \/ CreateCluster \/ SyncCluster \/ EngageCluster \/ CancelRemoved

IndexField(f) ==
    \/ KubeconfigIndexField(f) \/ KubeconfigIndexApply(f)
    \/ CapiIndexField(f) \/ CapiIndexApply(f)
    \/ InventoryIndexField(f) \/ KindIndexField(f) \/ NamespaceIndexField(f)

Next ==
    \/ \E o \in Configs \cup {"absent", "unready"}: Change(o)
    \/ Resync \/ Worker
    \/ \E f \in Fields: IndexField(f)

Spec == Init /\ [][Next]_vars

\* The worker, the poll and the informer run on; an informer resyncs.  A
\* reachable cluster's cache syncs.
FairSpec == Spec /\ WF_vars(Worker) /\ WF_vars(Resync)

-----------------------------------------------------------------------------
\* Shapes of the state: p.clusters and p.cancelFns name instances that exist.
TypeOK ==
    /\ provider \in Kinds
    /\ object \in Configs \cup {"absent", "unready"} /\ changes \in 0 .. MaxChanges
    /\ queued \in BOOLEAN /\ events \in Seq({"add", "delete"})
    /\ pc \in {"idle", "removed", "replace", "create", "sync", "engage", "forget", "stopped"}
    /\ seen \in Configs \cup {"absent"}
    /\ created \in 0 .. (MaxChanges + MaxErrors + 1)
    /\ {cur, stored, cancelFn} \subseteq 0 .. created
    /\ conf \in [Instances -> Configs \cup {"absent"}]
    /\ live \subseteq 1 .. created /\ engaged \subseteq 1 .. created /\ failed \subseteq 1 .. created
    /\ indexers \subseteq Fields /\ applied \in [Instances -> SUBSET Fields]
    /\ call \in [Fields -> {"none", "saved", "ok", "failed"}]
    /\ target \in [Fields -> 0 .. created]
    /\ errors \in 0 .. MaxErrors

\* Every started cluster is accounted for: it is the one in the map, the one
\* the worker is about to store or to cancel, or - with the three providers
\* that forget without cancelling - one that Engage refused (kind/provider.go:187,
\* cluster-inventory-api/provider.go:272, namespace/provider.go:102).
NoLostCluster ==
    \A i \in live: \/ i \in {stored, cur}
                   \/ provider \notin Removing /\ i \in failed

\* Get hands out no cluster whose context is cancelled, except between the two
\* critical sections of the namespace provider's DeleteFunc (provider.go:119-126),
\* although every provider cancels and deletes in an order of its own.
StoredIsLive == stored # None /\ pc # "forget" => stored \in live

\* Providers whose index requests and engagements exclude each other (the
\* inventory provider's lock) or share one cache (namespace): once IndexField
\* has returned without error, the cluster in the map has the index.
StoredIsIndexed ==
    provider \in {"inventory", "namespace"} /\ stored # None =>
        \A f \in Fields: call[f] = "ok" => f \in applied[stored]

\* Providers follow their objects.  When the object keeps one kubeconfig, a
\* live cluster is stored and engaged in the end, and one of that kubeconfig if
\* the provider compares them; when it stays absent, nothing engaged is left
\* running.  Exempt are the namespace provider after a failed Engage, which it
\* never retries, and a kind provider whose Start has returned.
Follows(o) ==
    IF o = "absent" THEN stored = None /\ live \cap engaged = {}
    ELSE /\ stored \in live \cap engaged
         /\ provider \in Reconcilers => conf[stored] = o
GivenUp == pc = "stopped" \/ (provider = "namespace" /\ failed # {})
FollowsObject ==
    \A o \in Configs \cup {"absent"}:
        <>[](object = o) => <>[](Follows(o) \/ GivenUp)

\* multicluster.go:65-66: the provider cancels "the context used on engage when
\* a cluster is unregistered".
UnregisteredIsCancelled == pc = "idle" => live \subseteq {stored}

\* multicluster.go:81-82: "When indexing a field the index must be applied to
\* all existing and future clusters."
IndexedEverywhere ==
    stored # None => \A f \in Fields: call[f] = "ok" => f \in applied[stored]
=============================================================================
