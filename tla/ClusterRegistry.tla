-------------------------- MODULE ClusterRegistry --------------------------
(***************************************************************************)
(* The registry of engaged clusters (pkg/clusters/registry.go), for one    *)
(* cluster name: an Aware that stores what it is engaged with and drops it *)
(* when the context of the engagement is done.                             *)
(*                                                                         *)
(* An engagement is one call of Engage with its own context; several       *)
(* engagements may bring the same cluster instance, as the sharded         *)
(* coordinator does when it stops and starts a cluster.                    *)
(***************************************************************************)
EXTENDS Naturals, FiniteSets

CONSTANTS
  Engagement,  \* calls of Engage, each with a context
  Cl,          \* cluster instances
  Of,          \* Of[e]: the instance engagement e brings
  Config,      \* Config[cl]: what cl.GetConfig() returns
  None,        \* no cluster
  MaxCalls     \* bound on direct calls of Add and Remove

ASSUME RegistryAssumption ==
  /\ Of \in [Engagement -> Cl] /\ DOMAIN Config = Cl /\ None \notin Cl
  /\ MaxCalls \in Nat

VARIABLES
  stored,   \* r.clusters[name]
  fresh,    \* engagements whose context does not exist yet
  pending,  \* engagements that have a context and have not reached the registry
  live,     \* engagements whose context exists and is not done
  watching, \* engagements whose <-ctx.Done() goroutine has yet to run
  last,     \* the engagement that reached the registry last, or None
  calls     \* direct calls so far

registryVars == <<stored, fresh, pending, live, watching, last, calls>>

RegistryInit ==
  /\ stored = None
  /\ fresh = Engagement /\ pending = {} /\ live = {} /\ watching = {}
  /\ last = None /\ calls = 0

\* A provider or a coordinator makes the context of an engagement.
NewContext(e) ==
  /\ e \in fresh /\ fresh' = fresh \ {e}
  /\ pending' = pending \cup {e} /\ live' = live \cup {e}
  /\ UNCHANGED <<stored, watching, last, calls>>

\* AddOrReplace keeps an instance with the same configuration.
AddOrReplace(cl) ==
  stored' = IF stored # None /\ Config[stored] = Config[cl] THEN stored ELSE cl

\* Engage stores the cluster and starts the goroutine that waits for the context,
\* whether or not it is done already.
Engage(e) ==
  /\ e \in pending /\ pending' = pending \ {e}
  /\ AddOrReplace(Of[e])
  /\ watching' = watching \cup {e}
  /\ last' = e
  /\ UNCHANGED <<fresh, live, calls>>

\* The context is cancelled by whoever made it.
ContextDone(e) ==
  /\ e \in live
  /\ live' = live \ {e}
  /\ UNCHANGED <<stored, fresh, pending, watching, last, calls>>

\* RemoveIfEqual removes that very instance only.  The mutations remove whatever is
\* stored under the name, and nothing.
RemoveAny(cl) == stored' = None
RemoveNothing(cl) == UNCHANGED stored
RemoveIfEqual(cl) == stored' = IF stored = cl THEN None ELSE stored

Forget(e) ==
  /\ e \in watching \ live
  /\ watching' = watching \ {e}
  /\ RemoveIfEqual(Of[e])
  /\ UNCHANGED <<fresh, pending, live, last, calls>>

\* Direct calls: Add refuses a name that exists, Remove goes by name.
Add(cl) ==
  /\ calls < MaxCalls /\ calls' = calls + 1
  /\ stored = None /\ stored' = cl
  /\ UNCHANGED <<fresh, pending, live, watching, last>>

Remove ==
  /\ calls < MaxCalls /\ calls' = calls + 1
  /\ stored' = None
  /\ UNCHANGED <<fresh, pending, live, watching, last>>

\* The steps of the registry and of its direct callers.  Engagements come from the
\* coordinator: see module Engagements.
RegistryStep ==
  \/ \E e \in Engagement : Forget(e)
  \/ \E cl \in Cl : Add(cl)
  \/ Remove

-----------------------------------------------------------------------------
\* Properties.

\* The registry never keeps a cluster nobody will take out: without direct calls, the
\* stored instance has an engagement whose goroutine is still to run, also when an
\* equal one was kept in place of the instance engaged later (registry.go:69-72,147).
StoredIsWatched ==
  calls = 0 /\ stored # None => \E e \in watching : Of[e] = stored

\* The end of an older engagement does not take out a newer instance: if every
\* engaged instance has its own configuration and is engaged once, the last one stays
\* registered while its context is live (registry.go:64-74,132).
NewestIsStored ==
  (/\ calls = 0 /\ last # None /\ last \in live
   /\ \A e \in Engagement \ (fresh \cup pending \cup {last}) : Config[Of[e]] # Config[Of[last]])
    => stored = Of[last]
=============================================================================
