------------------------------ MODULE Builder ------------------------------
(***************************************************************************)
(* The controller builder (pkg/builder): what the calls of a builder leave  *)
(* in it, and what Build makes of that: an error, or a controller with      *)
(* watches on the local cluster and sources for the clusters of the         *)
(* provider.                                                                *)
(*                                                                          *)
(* A pointer or slice that may be nil is a sequence of at most one value.   *)
(* An option is a record of such fields; a call of For, Owns or Watches has *)
(* a sequence of options, applied in order.                                 *)
(***************************************************************************)
EXTENDS Naturals, Sequences, SequencesExt

Deref(x, default) == IF x = <<>> THEN default ELSE x[1]

Event == {"create", "update", "delete"}

\* The fields options set: where to engage, which clusters, and the predicates (here
\* the events they let pass).
NoOption == [local |-> <<>>, provider |-> <<>>, filter |-> <<>>, passes |-> <<>>]
WithEngageWithLocalCluster(engage) == [NoOption EXCEPT !.local = <<engage>>]
WithEngageWithProviderClusters(engage) == [NoOption EXCEPT !.provider = <<engage>>]
WithClusterFilter(filter) == [NoOption EXCEPT !.filter = <<filter>>]
WithPredicates(passed) == [NoOption EXCEPT !.passes = <<passed>>]

\* ApplyToFor, ApplyToOwns, ApplyToWatches: an option overrides the fields it sets.
ApplyTo(input, w) == [f \in DOMAIN input |-> IF w[f] = <<>> THEN input[f] ELSE w[f]]
Input(opts) == FoldLeft(ApplyTo, NoOption, opts)

-----------------------------------------------------------------------------
\* The calls of the builder.
NewBuilder ==
  [for |-> <<>>, twice |-> FALSE, owns |-> <<>>, watches |-> <<>>, raw |-> 0,
   filters |-> <<>>, wrapper |-> <<>>, named |-> FALSE]

For(b, opts) ==
  IF b.for # <<>> THEN [b EXCEPT !.twice = TRUE] ELSE [b EXCEPT !.for = <<Input(opts)>>]
Owns(b, opts) == [b EXCEPT !.owns = Append(@, Input(opts))]
Watches(b, opts) == [b EXCEPT !.watches = Append(@, Input(opts))]
WatchesRawSource(b) == [b EXCEPT !.raw = @ + 1]
WithEventFilter(b, passed) == [b EXCEPT !.filters = Append(@, passed)]
WithClusterNotFoundWrapper(b, enabled) == [b EXCEPT !.wrapper = <<enabled>>]
Named(b) == [b EXCEPT !.named = TRUE]

-----------------------------------------------------------------------------
\* Build.  The inputs are watched in this order, each on the local cluster and on
\* those of the provider as its options or the defaults say.
Inputs(b) == b.for \o b.owns \o b.watches

EngageLocally(provider) == TRUE
LocalDefault(provider) == ~provider
Local(input, provider) == Deref(input.local, LocalDefault(provider))
Multi(input, provider) == Deref(input.provider, provider)

\* An event must pass all predicates, the global ones and those of the input.
Passes(b, input, event) ==
  /\ \A i \in DOMAIN b.filters : event \in b.filters[i]
  /\ event \in Deref(input.passes, Event)

\* Errors that Build finds whatever the cluster: For called twice, no name, Owns
\* without For, nothing to watch.
BuildError(b) ==
  \/ b.twice
  \/ ~b.named /\ b.for = <<>>
  \/ b.owns # <<>> /\ b.for = <<>>
  \/ b.for = <<>> /\ b.watches = <<>> /\ b.raw = 0

Wrapped(b) == Deref(b.wrapper, TRUE)
=============================================================================
