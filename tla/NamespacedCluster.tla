------------------------- MODULE NamespacedCluster -------------------------
(***************************************************************************)
(* The clusters of the namespace provider (providers/namespace): a         *)
(* NamespacedCluster shows one namespace of a shared cluster as the        *)
(* namespace "default" of a cluster of its own.  Its client and cache map  *)
(* keys and objects from the one to the other, and its informers pass on   *)
(* the events of that namespace only.                                      *)
(***************************************************************************)
EXTENDS Naturals

Default == "default"

\* Operations of NamespacedClient and of its subresource client.  Most rewrite the
\* namespace of their key or object; Apply hands its configuration on as it is, and
\* DeleteAllOf rewrites the object but not the options that select the namespace.
Reads == {"Get", "List"}
Rewriting == Reads \cup {"Create", "Update", "Delete", "StatusUpdate"}
PassedOn == {"Apply", "DeleteAllOf"}
Operation == Rewriting \cup PassedOn

\* The namespace that a caller names must be the only one there is.
Rejects(op, ns) == op \in Rewriting /\ ns # Default

\* The namespace of the shared cluster that an operation of cluster name works on.
TargetUnscoped(name, op, ns) == ns
Target(name, op, ns) == IF op \in Rewriting THEN name ELSE ns

\* ScopedInformer: events of other namespaces are dropped, the others show the object
\* in the default namespace.
InScope(name, ns) == ns = name
Shown(name, ns) == Default
=============================================================================
