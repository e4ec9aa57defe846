---------------------------- MODULE Engagements ----------------------------
(***************************************************************************)
(* What happens to an engagement behind the manager, for one cluster name: *)
(* the basic coordinator hands it to its Awares one after the other, here  *)
(* a multi-cluster controller (pkg/controller) with the Kind sources it    *)
(* watches (pkg/source), then the registry of clusters (ClusterRegistry).  *)
(*                                                                         *)
(* The controller keeps one engagement per name under c.lock, which Engage *)
(* and MultiClusterWatch hold while they start sources.  Watch starts a    *)
(* source at once when the controller runs, or keeps it for its Start.  A  *)
(* source adds an event handler to an informer of the cluster, waits for   *)
(* the cache, and leaves a goroutine that removes the handler when the     *)
(* context of the engagement, or that of the controller, is done.          *)
(***************************************************************************)
EXTENDS ClusterRegistry

CONSTANTS
  Source,     \* the Kind sources given to MultiClusterWatch
  Unwanted,   \* <<source, instance>> pairs that the source's cluster filter rejects
  MaxWatches, \* bound on calls of MultiClusterWatch
  MaxErrors   \* bound on ForCluster, Watch and Start calls that fail

ASSUME EngagementsAssumption ==
  /\ Unwanted \subseteq Source \X Cl
  /\ None \notin Engagement \cup Source /\ Engagement \cap Source = {}
  /\ MaxWatches \in Nat /\ MaxErrors \in Nat

VARIABLES
  ctl,       \* the controller: new, running, failed or stopped
  sources,   \* c.sources
  entry,     \* c.clusters[name]: an engagement, or None
  cancelled, \* engagements whose own context the controller has cancelled
  reaping,   \* engagements whose <-ctx.Done() goroutine has yet to run
  holder,    \* who holds c.lock: an engagement, a source being watched, or None
  todo,      \* the sources its holder has yet to start
  watch,     \* watch[e][s]: the state of the source made of s for engagement e
  passed,    \* engagements the controller accepted and the registry has yet to see
  newest,    \* the engagement the controller stored last, unless a later one failed
  watches, errors \* calls so far

controllerVars == <<ctl, sources, entry, cancelled, reaping, holder, todo, watch, passed,
                    newest, watches, errors>>
vars == <<registryVars, controllerVars>>

Init ==
  /\ RegistryInit
  /\ ctl = "new" /\ sources = {} /\ entry = None
  /\ cancelled = {} /\ reaping = {} /\ holder = None /\ todo = {}
  /\ watch = [e \in Engagement |-> [s \in Source |-> "none"]]
  /\ passed = {} /\ newest = None /\ watches = 0 /\ errors = 0

\* engCtx is a child of the context passed to Engage; the context a source is
\* started with ends with it or with the controller.
EngCtx(e) == e \in live \ cancelled
WatchCtx(e) == EngCtx(e) /\ ctl \in {"new", "running"}

Wanted(S, cl) == {s \in S : <<s, cl>> \notin Unwanted}
Fails == errors < MaxErrors /\ errors' = errors + 1
Set(e, s, state) == watch' = [watch EXCEPT ![e][s] = state]

-----------------------------------------------------------------------------
\* clusterKind.Start, by its states: its handler is added and it waits for the cache,
\* it is on, it is off.  With a context that is done the wait may end either way.
Synced(e, s) == watch[e][s] = "added" /\ Set(e, s, "on")
NotSynced(e, s) == watch[e][s] = "added" /\ ~WatchCtx(e) /\ Set(e, s, "off")

\* Controller.Watch: started at once, or kept until the controller starts.
Watch(e, s) == Set(e, s, IF ctl = "new" THEN "pending" ELSE "added")

\* The source's goroutine removes the handler.
NeverDone(e) == FALSE
HandlerDone(e) == ~WatchCtx(e)
RemoveHandler(e, s) ==
  /\ watch[e][s] = "on" /\ HandlerDone(e) /\ Set(e, s, "off")
  /\ UNCHANGED <<registryVars, ctl, sources, entry, cancelled, reaping, holder, todo, passed,
                 newest, watches, errors>>

-----------------------------------------------------------------------------
\* mcController.Engage.

\* Nothing to do for an instance that is engaged and live; otherwise the old
\* engagement is cancelled and dropped before the sources are started.
SameLive(e) == entry # None /\ Of[entry] = Of[e] /\ EngCtx(entry)

\* The mutation leaves the old engagement running.
DropsOnly == cancelled
CancelsOld == cancelled \cup ({entry} \ {None})

EngageController(e) ==
  /\ e \in pending \ passed /\ holder = None
  /\ IF SameLive(e)
     THEN passed' = passed \cup {e} /\ UNCHANGED <<cancelled, entry, holder, todo>>
     ELSE /\ cancelled' = CancelsOld /\ entry' = None
          /\ holder' = e /\ todo' = Wanted(sources, Of[e])
          /\ UNCHANGED passed
  /\ UNCHANGED <<registryVars, ctl, sources, reaping, watch, newest, watches, errors>>

\* A source fails, or its cache does not sync: the engagement is cancelled, and the
\* coordinator returns without calling its other Awares.
EngageFailed(e) ==
  /\ cancelled' = cancelled \cup {e} /\ newest' = None
  /\ holder' = None /\ todo' = {}
  /\ pending' = pending \ {e}
  /\ UNCHANGED <<stored, fresh, live, watching, last, calls, ctl, sources, entry, reaping, passed,
                 watches>>

EngageSource(e, s) ==
  /\ holder = e /\ s \in todo
  /\ \/ /\ watch[e][s] = "none" /\ Watch(e, s)
        /\ todo' = IF ctl = "new" THEN todo \ {s} ELSE todo
        /\ UNCHANGED <<registryVars, ctl, sources, entry, cancelled, reaping, holder, passed,
                       newest, watches, errors>>
     \/ /\ Synced(e, s) /\ todo' = todo \ {s}
        /\ UNCHANGED <<registryVars, ctl, sources, entry, cancelled, reaping, holder, passed,
                       newest, watches, errors>>
     \/ watch[e][s] = "none" /\ Fails /\ EngageFailed(e) /\ UNCHANGED watch
     \/ NotSynced(e, s) /\ EngageFailed(e) /\ UNCHANGED errors

EngageStored(e) ==
  /\ holder = e /\ todo = {}
  /\ entry' = e /\ newest' = e
  /\ reaping' = reaping \cup {e} /\ passed' = passed \cup {e}
  /\ holder' = None
  /\ UNCHANGED <<registryVars, ctl, sources, cancelled, todo, watch, watches, errors>>

\* The goroutine of an engagement drops it if it is still the current one.  The
\* mutation drops whatever is there.
IsAny(e) == TRUE
IsCurrent(e) == entry = e
Reap(e) ==
  /\ e \in reaping /\ ~EngCtx(e) /\ holder = None
  /\ reaping' = reaping \ {e}
  /\ entry' = IF IsCurrent(e) THEN None ELSE entry
  /\ UNCHANGED <<registryVars, ctl, sources, cancelled, holder, todo, watch, passed, newest,
                 watches, errors>>

\* The coordinator goes on to the next Aware.
EngageRegistry(e) ==
  /\ e \in passed /\ Engage(e)
  /\ passed' = passed \ {e}
  /\ UNCHANGED <<ctl, sources, entry, cancelled, reaping, holder, todo, watch, newest, watches,
                 errors>>

-----------------------------------------------------------------------------
\* mcController.MultiClusterWatch: start the source for the cluster engaged, then
\* remember it for later ones; an error leaves it out.

WatchDone(s) == holder' = None /\ sources' = sources \cup {s}
WatchFailed == holder' = None /\ UNCHANGED sources

NotEngaged(s) == {}
Engaged(s) == IF entry = None THEN {} ELSE Wanted({s}, Of[entry])

MultiClusterWatch(s) ==
  /\ holder = None /\ s \notin sources
  /\ watches < MaxWatches /\ watches' = watches + 1
  /\ IF Engaged(s) = {} THEN WatchDone(s) ELSE holder' = s /\ UNCHANGED sources
  /\ UNCHANGED <<registryVars, ctl, entry, cancelled, reaping, todo, watch, passed, newest, errors>>

WatchSource(s) ==
  /\ holder = s
  /\ LET e == entry IN
     \/ /\ watch[e][s] \in {"none", "off"} /\ Watch(e, s)
        /\ IF ctl = "new" THEN WatchDone(s) ELSE UNCHANGED <<holder, sources>>
        /\ UNCHANGED errors
     \/ Synced(e, s) /\ WatchDone(s) /\ UNCHANGED errors
     \/ watch[e][s] \in {"none", "off"} /\ Fails /\ WatchFailed /\ UNCHANGED watch
     \/ NotSynced(e, s) /\ WatchFailed /\ UNCHANGED errors
  /\ UNCHANGED <<registryVars, ctl, entry, cancelled, reaping, todo, passed, newest, watches>>

-----------------------------------------------------------------------------
\* The controller starts, and with it the sources kept for its Start; it fails when
\* one of them does.  It stops when its context is done.

StartController ==
  /\ ctl = "new" /\ ctl' = "running"
  /\ UNCHANGED <<registryVars, sources, entry, cancelled, reaping, holder, todo, watch, passed,
                 newest, watches, errors>>

Waiting(e, s) == (holder = e /\ s \in todo) \/ (holder = s /\ entry = e)

StartPending(e, s) ==
  /\ ctl # "new" /\ ~Waiting(e, s)
  /\ \/ /\ watch[e][s] = "pending" /\ ctl = "running"
        /\ \/ Set(e, s, "added") /\ UNCHANGED <<ctl, errors>>
           \/ Fails /\ ctl' = "failed" /\ Set(e, s, "off")
     \/ Synced(e, s) /\ UNCHANGED <<ctl, errors>>
     \/ NotSynced(e, s) /\ UNCHANGED errors
        /\ ctl' = IF ctl = "running" THEN "failed" ELSE ctl
  /\ UNCHANGED <<registryVars, sources, entry, cancelled, reaping, holder, todo, passed, newest,
                 watches>>

StopController ==
  /\ ctl = "running" /\ ctl' = "stopped"
  /\ UNCHANGED <<registryVars, sources, entry, cancelled, reaping, holder, todo, watch, passed,
                 newest, watches, errors>>

-----------------------------------------------------------------------------
\* A provider engages a name from one goroutine: its worker, poll or callback.
Environment ==
  /\ \/ \E e \in Engagement : (pending = {} /\ NewContext(e)) \/ ContextDone(e)
     \/ RegistryStep
  /\ UNCHANGED controllerVars

Goroutine ==
  \/ \E e \in Engagement :
       \/ EngageController(e) \/ EngageStored(e) \/ Reap(e) \/ EngageRegistry(e)
       \/ \E s \in Source : EngageSource(e, s) \/ StartPending(e, s) \/ RemoveHandler(e, s)
  \/ \E s \in Source : WatchSource(s)

Next ==
  \/ Environment \/ Goroutine
  \/ \E s \in Source : MultiClusterWatch(s)
  \/ StartController \/ StopController

Spec == Init /\ [][Next]_vars

\* Calls and goroutines under way run on; every behaviour has finitely many of their
\* steps, so that fairness of their disjunction is fairness of each.
FairSpec == Spec /\ WF_vars(Goroutine)

-----------------------------------------------------------------------------
\* Properties.

\* Shapes of the state of the controller, its sources and the registry.
TypeOK ==
  /\ stored \in Cl \cup {None} /\ last \in Engagement \cup {None}
  /\ fresh \subseteq Engagement /\ pending \subseteq Engagement \ fresh
  /\ live \subseteq Engagement \ fresh /\ watching \subseteq Engagement \ fresh
  /\ ctl \in {"new", "running", "failed", "stopped"} /\ sources \subseteq Source
  /\ entry \in Engagement \cup {None} /\ newest \in Engagement \cup {None}
  /\ cancelled \subseteq Engagement \ fresh /\ reaping \subseteq Engagement \ fresh
  /\ holder \in Engagement \cup Source \cup {None} /\ todo \subseteq Source
  /\ watch \in [Engagement -> [Source -> {"none", "pending", "added", "on", "off"}]]
  /\ passed \subseteq pending
  /\ calls \in 0 .. MaxCalls /\ watches \in 0 .. MaxWatches /\ errors \in 0 .. MaxErrors

\* No source is missed: whichever way Engage and MultiClusterWatch interleave, before
\* or after the controller starts, the engagement the controller has, while live, has
\* every source that wants its cluster started or kept for the start
\* (controller.go:145-159, 185-198).
EngagedIsWatched ==
  holder = None /\ entry # None /\ WatchCtx(entry) =>
    \A s \in Wanted(sources, Of[entry]) : watch[entry][s] \in {"pending", "added", "on"}

\* No event is handled twice: of all engagements of the name, at most one has a source
\* under a live context, also while an instance replaces another that is still live
\* (controller.go:124-133).
OneLiveHandler ==
  \A s \in Source : \A e, f \in Engagement :
    /\ WatchCtx(e) /\ watch[e][s] \in {"pending", "added", "on"}
    /\ WatchCtx(f) /\ watch[f][s] \in {"pending", "added", "on"}
    => e = f

\* The late goroutine of an older engagement does not drop a newer one: the engagement
\* stored last stays the controller's while its context is live (controller.go:168-176).
NewestStays == holder = None /\ newest \in live => entry = newest

\* Handlers do not pile up in the informers of a cluster: once an engagement is over,
\* or was given up halfway, the handlers added for it are removed (kind.go:204-230).
HandlersGo ==
  LET left == {e \in Engagement :
                 ~EngCtx(e) /\ \E s \in Source : watch[e][s] \in {"added", "on"}}
  IN  left # {} ~> left = {}
=============================================================================
