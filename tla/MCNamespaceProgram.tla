------------------------ MODULE MCNamespaceProgram ------------------------
(* Programs for NamespaceProgram: the one of examples/namespace, with and without *)
(* the provider, and others that use the options of the builder, or misuse them.  *)
EXTENDS NamespaceProgram

Program(provider, b, bound) == [provider |-> provider, builder |-> b, bound |-> bound]

Plain == For(Named(NewBuilder), <<>>)
Both == For(NewBuilder, <<WithEngageWithLocalCluster(FALSE), WithEngageWithLocalCluster(TRUE)>>)
LocalOnly == For(NewBuilder, <<WithEngageWithLocalCluster(TRUE), WithEngageWithProviderClusters(FALSE)>>)
Filtered == Owns(For(NewBuilder, <<WithClusterFilter("own")>>), <<WithClusterFilter("other")>>)
Unwrapped == WithClusterNotFoundWrapper(Plain, FALSE)
Selective == Watches(WithEventFilter(Named(NewBuilder), Event \ {"update"}),
                     <<WithPredicates({"create"}), WithPredicates(Event)>>)
Broken == {For(Plain, <<>>), Owns(Named(NewBuilder), <<>>), Named(NewBuilder), WatchesRawSource(NewBuilder)}

\* Events of the local cluster multiply with those of the others, so that programs that
\* watch it have fewer changes.
MCPrograms ==
  {Program(TRUE, b, 3) : b \in {Filtered, Unwrapped, Selective} \cup Broken}
    \cup {Program(TRUE, Plain, 4), Program(TRUE, LocalOnly, 2), Program(TRUE, Both, 1), Program(FALSE, Plain, 2)}
=============================================================================
