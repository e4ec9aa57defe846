-------------------------- MODULE FilteredProviders --------------------------
(***************************************************************************)
(* Providers with a controller that was built with the option              *)
(* WithClustersFromProvider of the same provider: on its way through       *)
(* Engage, every new cluster is looked up with the provider's Get, and is  *)
(* wanted if that returns it.                                              *)
(***************************************************************************)
EXTENDS Providers

\* Get takes p.lock for reading.  The inventory provider holds it for writing during all
\* of Reconcile, the others not while they engage.
GetReturns == provider = "inventory" => LockFree

\* The filter is called by the goroutine that engages, before Engage returns.
FilteredWorker == (pc = "engage" => GetReturns) /\ Worker

FilteredNext ==
    \/ \E o \in Configs \cup {"absent", "unready"}: Change(o)
    \/ Resync \/ FilteredWorker
    \/ \E f \in Fields: IndexField(f)

FilteredSpec == Init /\ [][FilteredNext]_vars /\ WF_vars(FilteredWorker) /\ WF_vars(Resync)

\* multicluster_options.go:73-74: the option makes the controller "only engage with the
\* clusters provided by the given provider": a cluster that the provider has to offer for
\* good is engaged.
OwnClustersEngaged == <>[](object \in Configs) => <>(engaged # {} \/ GivenUp)
=============================================================================
