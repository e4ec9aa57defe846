-------------------------- MODULE NamespaceProgram --------------------------
(***************************************************************************)
(* A whole program: a manager with the namespace provider and the basic     *)
(* coordinator, a controller made by the builder, and the reconciler of     *)
(* examples/namespace.  Only the manager starts the provider, as            *)
(* multicluster.go:93-95 demands.                                           *)
(*                                                                          *)
(* main builds the controller and starts the manager, which starts the      *)
(* provider.  A namespace that appears is made a cluster and engaged: the   *)
(* controller adds a handler to the shared informer for each source that    *)
(* wants it.  An event goes from the informer through the scoped handler    *)
(* and the predicates into the queue as a request of its cluster, where the *)
(* worker takes it, asks the manager for the cluster, and reads the object  *)
(* with the cluster's client, from the cache.                               *)
(*                                                                          *)
(* Every namespace has at most one object, which stands for the reconciled  *)
(* object with those it owns.  The steps inside Engage, and the ways it     *)
(* fails, are those of Engagements and Providers.                           *)
(***************************************************************************)
EXTENDS Builder, NamespacedCluster, FiniteSets

CONSTANTS
  Namespace,     \* namespaces of the shared cluster
  Programs,      \* the programs: whether there is a provider, the builder, and the bound on changes
  Callable,      \* operations the users of the clusters' clients call
  MaxChanges     \* bound on the writes, namespaces that come or go, and reads that fail

None == 0
LocalCluster == ""

ASSUME ProgramAssumption ==
  /\ IsFiniteSet(Namespace) /\ LocalCluster \notin Namespace
  /\ Callable \subseteq Operation \ Reads /\ MaxChanges \in Nat
  /\ \A p \in Programs :
       /\ p.bound \in 0 .. MaxChanges /\ p.provider \in BOOLEAN
       /\ \A i \in DOMAIN Inputs(p.builder) :
            /\ {Inputs(p.builder)[i].local, Inputs(p.builder)[i].provider}
                 \subseteq {<<>>, <<TRUE>>, <<FALSE>>}
            /\ Inputs(p.builder)[i].filter \in {<<>>, <<"own">>, <<"other">>}

Cache == {"local", "shared"}
Instance == 1 .. (Cardinality(Namespace) + MaxChanges)

\* An object, by the cluster that wrote it and the number of that write.
Absent == [by |-> LocalCluster, write |-> 0]
Unseen == [by |-> LocalCluster, write |-> MaxChanges + 1]
Request == [cluster : Namespace \cup {LocalCluster}, namespace : Namespace \cup {Default}]

VARIABLES
  prog,      \* the program that runs
  main,      \* where main is
  store,     \* the objects in the API server
  exists,    \* the namespaces in the API server
  cache,     \* the objects in the caches of the manager and of the shared cluster
  nsEvents,  \* events the provider's handler has yet to see
  clusters,  \* p.clusters, and the instance whose cancel function p.cancelFns holds
  name,      \* the namespace of each instance
  handling,  \* what the provider's handler is doing: engage or forget a namespace
  inbox,     \* handlers added to informers: <<input, instance>> to the events each has yet to see
  queue,     \* the controller's workqueue
  active,    \* the request the worker has, and the cluster it got for it
  seen,      \* what the last reconciliation of a request read
  changes    \* writes, namespaces that came or went and failed reads so far

apiVars == <<store, exists>>
providerVars == <<nsEvents, clusters, name, handling>>
workVars == <<active, seen>>
vars == <<prog, main, changes, apiVars, cache, providerVars, inbox, queue, workVars>>

Idle == [at |-> "idle", request |-> [cluster |-> LocalCluster, namespace |-> Default], instance |-> None]
Resting == [at |-> "idle", namespace |-> Default]

Init ==
  /\ prog \in Programs /\ main = "setup"
  /\ store = [n \in Namespace |-> IF n = Default THEN Absent ELSE [by |-> n, write |-> 0]]
  /\ exists = [n \in Namespace |-> TRUE]
  /\ cache = [c \in Cache |-> [n \in Namespace |-> Absent]]
  /\ nsEvents = <<>>
  /\ clusters = [n \in Namespace |-> None] /\ name = <<>> /\ handling = Resting
  /\ inbox = <<>> /\ queue = <<>>
  /\ active = Idle /\ seen = [r \in Request |-> Unseen]
  /\ changes = 0

builder == prog.builder
Watched == DOMAIN Inputs(builder)
LocalInputs == {i \in Watched : Local(Inputs(builder)[i], prog.provider)}
MultiInputs == {i \in Watched : Multi(Inputs(builder)[i], prog.provider)}

Counted == changes < prog.bound /\ changes' = changes + 1

\* The handlers, by input and instance; those of the local cluster have no instance.
ClusterOf(h) == IF h[2] = None THEN LocalCluster ELSE name[h[2]]
CacheOf(h) == IF h[2] = None THEN "local" ELSE "shared"

\* ScopedInformer shows a handler the events of its namespace only.
Scope(h) == {n \in Namespace : h[2] = None \/ InScope(ClusterOf(h), n)}

\* A handler added to an informer first sees every object in its cache.
InitialList(h) ==
  SetToSeq({[namespace |-> n, event |-> "create"] :
              n \in {m \in Scope(h) : cache[CacheOf(h)][m] # Absent}})
AddHandlers(hs) ==
  inbox' = [h \in DOMAIN inbox \cup hs |->
              IF h \in DOMAIN inbox THEN inbox[h] ELSE InitialList(h)]

-----------------------------------------------------------------------------
\* main: build the controller, and give up if that fails; then start the manager,
\* which starts the controller with its local watches and the provider.
BuildController ==
  /\ main = "setup"
  /\ main' = IF BuildError(builder) THEN "failed" ELSE "built"
  /\ UNCHANGED <<prog, changes, apiVars, cache, providerVars, inbox, queue, workVars>>

ListNamespaces ==
  SetToSeq({[namespace |-> n, event |-> "create"] : n \in {m \in Namespace : exists[m]}})

StartManager ==
  /\ main = "built" /\ main' = "running"
  /\ nsEvents' = IF prog.provider THEN ListNamespaces ELSE <<>>
  /\ AddHandlers(LocalInputs \X {None})
  /\ UNCHANGED <<prog, changes, apiVars, cache, clusters, name, handling, queue, workVars>>

-----------------------------------------------------------------------------
\* The provider's handler, one event at a time.

\* AddFunc: a namespace that is not known is remembered, then engaged.
AddNamespace ==
  LET n == Head(nsEvents).namespace
      i == Len(name) + 1
  IN  /\ handling = Resting /\ nsEvents # <<>> /\ Head(nsEvents).event = "create"
      /\ nsEvents' = Tail(nsEvents)
      /\ IF clusters[n] # None THEN UNCHANGED <<clusters, name, handling>>
         ELSE /\ clusters' = [clusters EXCEPT ![n] = i]
              /\ name' = Append(name, n)
              /\ handling' = [at |-> "engage", namespace |-> n]
      /\ UNCHANGED <<prog, main, changes, apiVars, cache, inbox, queue, workVars>>

\* WithClustersFromProvider: of this provider, or of another one that has no such
\* cluster.
Accepts(input, n) == input.filter = <<>> \/ (input.filter = <<"own">> /\ clusters[n] # None)

\* The manager hands the cluster to its coordinator, that to the controller, and that
\* to each source, unless the filter of the source does not want it.
Engage ==
  LET n == handling.namespace
      wanted == {i \in MultiInputs : Accepts(Inputs(builder)[i], n)}
  IN  /\ handling.at = "engage" /\ handling' = Resting
      /\ AddHandlers(wanted \X {clusters[n]})
      /\ UNCHANGED <<prog, main, changes, apiVars, cache, nsEvents, clusters, name, queue, workVars>>

\* DeleteFunc: cancel the context first, then forget the cluster.  From then on the
\* handlers of the instance drop their events, until they are removed.
DeleteNamespace ==
  LET n == Head(nsEvents).namespace
  IN  /\ handling = Resting /\ nsEvents # <<>> /\ Head(nsEvents).event = "delete"
      /\ nsEvents' = Tail(nsEvents)
      /\ IF clusters[n] = None THEN UNCHANGED <<inbox, handling>>
         ELSE /\ inbox' = Restrict(inbox, {h \in DOMAIN inbox : h[2] # clusters[n]})
              /\ handling' = [at |-> "forget", namespace |-> n]
      /\ UNCHANGED <<prog, main, changes, apiVars, cache, clusters, name, queue, workVars>>

ForgetNamespace ==
  /\ handling.at = "forget" /\ handling' = Resting
  /\ clusters' = [clusters EXCEPT ![handling.namespace] = None]
  /\ UNCHANGED <<prog, main, changes, apiVars, cache, nsEvents, name, inbox, queue, workVars>>

-----------------------------------------------------------------------------
\* Events on their way to the queue.

\* An informer takes in what has become of an object, and tells its handlers.
Change(old, new) ==
  CASE old = Absent -> "create" [] new = Absent -> "delete" [] OTHER -> "update"

Sync(c, n) ==
  /\ main = "running" /\ cache[c][n] # store[n]
  /\ IF c = "local" THEN LocalInputs # {} ELSE name # <<>>
  /\ cache' = [cache EXCEPT ![c][n] = store[n]]
  /\ inbox' = [h \in DOMAIN inbox |->
                 IF CacheOf(h) # c \/ n \notin Scope(h) THEN inbox[h]
                 ELSE Append(inbox[h],
                             [namespace |-> n, event |-> Change(cache[c][n], store[n])])]
  /\ UNCHANGED <<prog, main, changes, apiVars, providerVars, queue, workVars>>

\* Adding a request the queue has does nothing.
Enqueue(r) == queue' = IF r \in Range(queue) THEN queue ELSE Append(queue, r)

\* The event handler of the source drops what does not pass the predicates.
AllButDeletes(h, e) == e.event # "delete"
Relevant(h, e) == Passes(builder, Inputs(builder)[h[1]], e.event)

\* The handlers of pkg/handler put the name of the cluster into the request.
RequestOf(h, e) ==
  [cluster |-> ClusterOf(h),
   namespace |-> IF h[2] = None THEN e.namespace ELSE Shown(ClusterOf(h), e.namespace)]

Handle(h) ==
  LET e == Head(inbox[h])
  IN  /\ inbox[h] # <<>>
      /\ inbox' = [inbox EXCEPT ![h] = Tail(@)]
      /\ IF Relevant(h, e) THEN Enqueue(RequestOf(h, e)) ELSE UNCHANGED queue
      /\ UNCHANGED <<prog, main, changes, apiVars, cache, providerVars, workVars>>

-----------------------------------------------------------------------------
\* The worker.

Take ==
  /\ active = Idle /\ queue # <<>>
  /\ active' = [at |-> "get", request |-> Head(queue), instance |-> None]
  /\ queue' = Tail(queue)
  /\ UNCHANGED <<prog, main, changes, apiVars, cache, providerVars, inbox, seen>>

\* A reconciliation that fails is tried again, but for one the wrapper finds to have
\* failed for want of its cluster.
NeverWrapped == FALSE
DropsNotFound == Wrapped(builder)
Retry == active' = Idle /\ Enqueue(active.request)

\* manager.GetCluster.
GetCluster ==
  LET c == active.request.cluster
      i == IF c = LocalCluster THEN None ELSE clusters[c]
  IN  /\ active.at = "get"
      /\ IF c # LocalCluster /\ i = None
         THEN IF DropsNotFound THEN active' = Idle /\ UNCHANGED queue ELSE Retry
         ELSE active' = [active EXCEPT !.at = "read", !.instance = i] /\ UNCHANGED queue
      /\ UNCHANGED <<prog, main, changes, apiVars, cache, providerVars, inbox, seen>>

\* The reconciler reads the object; one that is not found is fine.
ReadBy(i, ns) ==
  IF i = None THEN cache["local"][ns] ELSE cache["shared"][Target(name[i], "Get", ns)]

Read ==
  LET r == active.request
      i == active.instance
  IN  /\ active.at = "read"
      /\ \/ /\ ~(i # None /\ Rejects("Get", r.namespace))
            /\ seen' = [seen EXCEPT ![r] = ReadBy(i, r.namespace)]
            /\ active' = Idle /\ UNCHANGED <<queue, changes>>
         \/ Counted /\ Retry /\ UNCHANGED seen
      /\ UNCHANGED <<prog, main, apiVars, cache, providerVars, inbox>>

-----------------------------------------------------------------------------
\* The users of the API server: those who have a cluster write through its client,
\* naming any namespace; namespaces come and go, with their objects, except the default one.

Written(by) == [by |-> by, write |-> changes + 1]

Call(i, op, ns) ==
  LET n == Target(name[i], op, ns)
  IN  /\ Counted /\ ~Rejects(op, ns)
      /\ exists[n]
      /\ op = "Create" => store[n] = Absent
      /\ op \in {"Update", "StatusUpdate", "Delete"} => store[n] # Absent
      /\ store' = [store EXCEPT ![n] = IF op \in {"Delete", "DeleteAllOf"} THEN Absent
                                        ELSE Written(name[i])]
      /\ UNCHANGED <<prog, main, exists, cache, providerVars, inbox, queue, workVars>>

\* The provider watches namespaces from its start on.
Notify(n, event) ==
  nsEvents' = IF main = "running" /\ prog.provider
              THEN Append(nsEvents, [namespace |-> n, event |-> event]) ELSE nsEvents

CreateNamespace(n) ==
  /\ ~exists[n] /\ Counted
  /\ exists' = [exists EXCEPT ![n] = TRUE] /\ Notify(n, "create")
  /\ UNCHANGED <<prog, main, store, cache, clusters, name, handling, inbox, queue,
                 workVars>>
RemoveNamespace(n) ==
  /\ exists[n] /\ n # Default /\ Counted
  /\ exists' = [exists EXCEPT ![n] = FALSE] /\ Notify(n, "delete")
  /\ store' = [store EXCEPT ![n] = Absent]
  /\ UNCHANGED <<prog, main, cache, clusters, name, handling, inbox, queue, workVars>>

-----------------------------------------------------------------------------
Main == BuildController \/ StartManager
Provider == AddNamespace \/ Engage \/ DeleteNamespace \/ ForgetNamespace
Informers ==
  \/ \E c \in Cache, n \in Namespace : Sync(c, n)
  \/ \E h \in DOMAIN inbox : Handle(h)

Requests == Range(queue) \cup (IF active = Idle THEN {} ELSE {active.request})
Worker == Take \/ GetCluster \/ Read
Users ==
  \/ \E i \in DOMAIN name, op \in Callable, ns \in Namespace : Call(i, op, ns)
  \/ \E n \in Namespace : CreateNamespace(n) \/ RemoveNamespace(n)

Next == Main \/ Provider \/ Informers \/ Worker \/ (main = "running" /\ Users)

Spec == Init /\ [][Next]_vars

\* Goroutines run on.  The worker may be busy for ever with a request that fails, so
\* that the others have a fairness of their own.
FairSpec == Spec /\ WF_vars(Main \/ Provider \/ Informers) /\ WF_vars(Worker)

-----------------------------------------------------------------------------
\* Properties.

\* Clusters made of namespaces are kept apart from end to end: what a namespace and the
\* shared cache hold under it was written by the cluster of that namespace, and what a
\* reconciliation of a cluster read is the object of that cluster, whichever way events,
\* clients and caches map the one "default" namespace they all show
\* (namespace/client.go, namespace/cache.go).
TenantsApart ==
  /\ \A n \in Namespace : {store[n].by, cache["shared"][n].by} \subseteq {n, LocalCluster}
  /\ \A r \in Request : r.cluster # LocalCluster => seen[r].by \in {r.cluster, LocalCluster}

\* Requests come only from where the calls of the builder say: from the local cluster if
\* there is no provider or some input asks for it, and from clusters of the provider if
\* some input does not refuse them and has no filter against them, whichever events the
\* informers of both have (builder/multicluster_options.go:46-77).
OnlyWhereAsked ==
  \A r \in Requests :
    IF r.cluster = LocalCluster
    THEN ~prog.provider \/ \E i \in Watched : Inputs(builder)[i].local = <<TRUE>>
    ELSE /\ prog.provider
         /\ \E i \in Watched : /\ Inputs(builder)[i].provider # <<FALSE>>
                               /\ Inputs(builder)[i].filter # <<"other">>

\* No update is lost between the API server and the reconciler: in the end the last
\* reconciliation of every object that is watched has read its last state, although the
\* queue merges requests, events overtake engagements and contexts end with events
\* pending.  An object that went while its cluster was not engaged is not reconciled.
Heard(i) == \A e \in Event : Passes(builder, Inputs(builder)[i], e)
UpToDate(r, n, excused) ==
  \/ seen[r] = store[n]
  \/ store[n] = Absent /\ (seen[r] = Unseen \/ excused)
AllUpToDate ==
  \A n \in Namespace :
    /\ (\E i \in LocalInputs : Heard(i)) =>
         UpToDate([cluster |-> LocalCluster, namespace |-> n], n, FALSE)
    /\ exists[n] /\ (\E i \in MultiInputs : Heard(i) /\ Accepts(Inputs(builder)[i], n)) =>
         UpToDate([cluster |-> n, namespace |-> Default], n,
                  Cardinality({i \in DOMAIN name : name[i] = n}) > 1)
LatestIsReconciled == <>[](main = "running" => AllUpToDate)

\* A request for a cluster that is gone does not go round for ever: unless its wrapper is
\* disabled, the queue is rid of the requests of a namespace that was deleted for good
\* (builder/forked_controller.go:472-475, reconcile/wrapper.go:40-49).
GoneIsDropped ==
  <>[](Wrapped(builder) => \A r \in Requests : r.cluster = LocalCluster \/ exists[r.cluster])
=============================================================================
