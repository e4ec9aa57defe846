--------------------------- MODULE ProvidersProofs ---------------------------
(***************************************************************************)
(* Proofs about Providers, for every set of kubeconfigs and fields and any *)
(* number of changes and errors: no provider loses track of a cluster it   *)
(* started, none hands out a cancelled one, and the two whose IndexField   *)
(* excludes engagements, or that share one cache, lose no index.           *)
(***************************************************************************)
EXTENDS Providers, TLAPS

\* The disjuncts of Next, flat.
LEMMA NextCases ==
  ASSUME Next
  PROVE  \/ \E o \in Configs \cup {"absent", "unready"} : Change(o)
         \/ Resync
         \/ KubeconfigReconcile \/ CapiReconcile \/ InventoryReconcile
         \/ KindPoll \/ KindIndexFails
         \/ NamespaceAdd \/ NamespaceDelete \/ NamespaceForget
         \/ CreateCluster \/ SyncCluster \/ EngageCluster \/ CancelRemoved
         \/ \E f \in Fields :
              \/ KubeconfigIndexField(f) \/ KubeconfigIndexApply(f)
              \/ CapiIndexField(f) \/ CapiIndexApply(f)
              \/ InventoryIndexField(f) \/ KindIndexField(f) \/ NamespaceIndexField(f)
BY Zenon DEF Next, Worker, IndexField

-----------------------------------------------------------------------------
\* Types.  Only the objects of reconcilers can be unready, and the worker has a cluster
\* to wait for and to engage.

Pc == {"idle", "removed", "replace", "create", "sync", "engage", "forget", "stopped"}
TypeInv ==
  /\ TypeOK
  /\ object = "unready" => provider \in Reconcilers
  /\ pc \in {"sync", "engage"} => cur # None

LEMMA NewClusterTyped ==
  ASSUME TypeOK, NewCluster
  PROVE  /\ created' \in 0 .. (MaxChanges + MaxErrors + 1) /\ created' = created + 1
         /\ cur' = created'
         /\ conf' \in [Instances -> Configs \cup {"absent"}]
         /\ applied' \in [Instances -> SUBSET Fields]
         /\ live' \subseteq 1 .. created'
<1> USE ProvidersAssumption DEF TypeOK, NewCluster, Instances
<1>1. created' \in 0 .. (MaxChanges + MaxErrors + 1) /\ created' = created + 1 /\ cur' = created'
  OBVIOUS
<1>2. conf' \in [Instances -> Configs \cup {"absent"}] /\ applied' \in [Instances -> SUBSET Fields]
  BY Zenon
<1>3. live' \subseteq 1 .. created'
  OBVIOUS
<1> QED
  BY <1>1, <1>2, <1>3, Zenon

\* IndexField leaves all but the indexes alone.
LEMMA IndexTyped ==
  ASSUME TypeInv, NEW f \in Fields,
         \/ KubeconfigIndexField(f) \/ KubeconfigIndexApply(f)
         \/ CapiIndexField(f) \/ CapiIndexApply(f)
         \/ InventoryIndexField(f) \/ KindIndexField(f) \/ NamespaceIndexField(f)
  PROVE  TypeInv'
<1>1. /\ indexers' \subseteq Fields /\ call' \in [Fields -> {"none", "saved", "ok", "failed"}]
      /\ target' \in [Fields -> 0 .. created]
  BY ZenonT(30)
    DEF TypeInv, TypeOK, KubeconfigIndexField, KubeconfigIndexApply, CapiIndexField,
        CapiIndexApply, InventoryIndexField, KindIndexField, NamespaceIndexField, Apply
<1>2. applied' \in [Instances -> SUBSET Fields]
  <2>1. applied \in [Instances -> SUBSET Fields]
    BY Zenon DEF TypeInv, TypeOK
  <2>2. ASSUME NEW i, Apply(f, i) PROVE applied' \in [Instances -> SUBSET Fields]
    BY <2>1, <2>2 DEF Apply
  <2>3. CASE NamespaceIndexField(f)
    BY <2>1, <2>3, Zenon DEF NamespaceIndexField
  <2> QED
    BY <2>1, <2>2, <2>3, Zenon
      DEF KubeconfigIndexField, KubeconfigIndexApply, CapiIndexField, CapiIndexApply,
          InventoryIndexField, KindIndexField
<1>3. IndexLeaves
  BY Zenon
    DEF KubeconfigIndexField, KubeconfigIndexApply, CapiIndexField, CapiIndexApply,
        InventoryIndexField, KindIndexField, NamespaceIndexField
<1> QED
  BY <1>1, <1>2, <1>3 DEF TypeInv, TypeOK, IndexLeaves, objectVars, mapVars, instVars

\* A step of the worker that creates nothing.
LEMMA WorkerTyped ==
  ASSUME TypeInv,
         UNCHANGED <<provider, object, changes, created, conf, indexers, call, target, applied>>,
         events' \in Seq({"add", "delete"}), queued' \in BOOLEAN,
         pc' \in Pc, pc' = "sync" => pc = "sync", pc' = "engage" => pc \in {"sync", "engage"} /\ cur' = cur,
         seen' \in {seen, object}, seen' # "unready",
         cur' \in {cur, stored, None}, pc' = "sync" => cur' = cur,
         stored' \in {stored, cur, None}, cancelFn' \in {cancelFn, cur, None},
         live' \subseteq live, errors' \in 0 .. MaxErrors,
         engaged' \in {engaged, engaged \cup {cur}}, failed' \in {failed, failed \cup {cur}},
         engaged' # engaged \/ failed' # failed => pc = "engage"
  PROVE  TypeInv'
<1> USE ProvidersAssumption
<1>1. created \in Nat /\ None \in 0 .. created /\ {cur, stored, cancelFn} \subseteq 0 .. created
  BY DEF TypeInv, TypeOK, None
<1>2. {cur', stored', cancelFn'} \subseteq 0 .. created
  BY <1>1, Zenon
<1>3. engaged' \subseteq 1 .. created /\ failed' \subseteq 1 .. created
  BY <1>1 DEF TypeInv, TypeOK, None
<1>4. seen' \in Configs \cup {"absent"}
  BY Zenon DEF TypeInv, TypeOK
<1>5. pc' \in {"sync", "engage"} => cur' # None
  BY Zenon DEF TypeInv
<1> QED
  BY <1>2, <1>3, <1>4, <1>5, Zenon DEF TypeInv, TypeOK, Pc

LEMMA TypeStep ==
  ASSUME TypeInv, [Next]_vars
  PROVE  TypeInv'
<1> USE ProvidersAssumption
<1>a. queued \in BOOLEAN /\ events \in Seq({"add", "delete"}) /\ pc \in Pc /\ errors \in 0 .. MaxErrors
      /\ seen # "unready" /\ provider \in Kinds
  BY Zenon DEF TypeInv, TypeOK, Pc
<1>b. Fails => errors' \in 0 .. MaxErrors
  BY <1>a DEF Fails
<1>c. Requeue => queued' \in BOOLEAN
  BY DEF Requeue
<1>0. CASE UNCHANGED vars
  BY <1>0 DEF vars, TypeInv, TypeOK, objectVars, mapVars, instVars, indexVars
<1>1. ASSUME NEW o \in Configs \cup {"absent", "unready"}, Change(o) PROVE TypeInv'
  <2>1. queued' \in BOOLEAN
    BY <1>1, Zenon DEF Change
  <2>2. events' \in Seq({"add", "delete"})
    <3>1. /\ <<>> \in Seq({"add", "delete"})
          /\ <<"add">> \in Seq({"add", "delete"}) /\ <<"delete">> \in Seq({"add", "delete"})
      OBVIOUS
    <3>2. EventOf(o) \in Seq({"add", "delete"})
      BY <3>1, Zenon DEF EventOf
    <3> QED
      BY <1>1, <1>a, <3>2 DEF Change
  <2> QED
    BY <1>1, <2>1, <2>2 DEF Change, TypeInv, TypeOK, mapVars, instVars, indexVars
<1>2. CASE Resync
  BY <1>2, Zenon DEF Resync, TypeInv, TypeOK, objectVars, mapVars, instVars, indexVars
<1>3. CASE KubeconfigReconcile \/ CapiReconcile
  BY <1>3, <1>a, <1>b, WorkerTyped, Zenon
    DEF KubeconfigReconcile, CapiReconcile, StartLeaves, GetFails, ReconcileByHash, Dequeue,
        RemoveCluster, Skip, HasKubeconfig, objectVars, mapVars, indexVars, Pc
<1>4. CASE InventoryReconcile
  BY <1>4, <1>a, <1>b, WorkerTyped, Zenon
    DEF InventoryReconcile, StartLeaves, GetFails, InventoryNotFound, Dequeue, Skip,
        HasKubeconfig, objectVars, mapVars, indexVars, Pc
<1>5. CASE KindPoll \/ KindIndexFails
  <2>1. object # "unready"
    BY <1>5, Zenon DEF KindPoll, KindIndexFails, TypeInv, Reconcilers, Removing
  <2> QED
    BY <1>5, <1>a, <1>b, <2>1, WorkerTyped, Zenon
      DEF KindPoll, KindIndexFails, StartLeaves, objectVars, mapVars, indexVars, Pc
<1>6. CASE NamespaceAdd
  <2>1. events' \in Seq({"add", "delete"})
    BY <1>6, <1>a DEF NamespaceAdd
  <2>2. CASE NewCluster
    BY <1>6, <2>1, <2>2, NewClusterTyped
    DEF NamespaceAdd, TypeInv, TypeOK, objectVars, mapVars, indexVars, None
  <2>3. CASE UNCHANGED <<pc, cur, mapVars, instVars, applied>>
    BY <1>6, <2>1, <2>3, Zenon
      DEF NamespaceAdd, TypeInv, TypeOK, objectVars, mapVars, instVars, indexVars
  <2> QED
    BY <1>6, <2>2, <2>3, Zenon DEF NamespaceAdd
<1>7. CASE NamespaceDelete
  <2>1. events' \in Seq({"add", "delete"})
    BY <1>7, <1>a DEF NamespaceDelete
  <2> QED
    BY <1>7, <1>a, <2>1, WorkerTyped, Zenon DEF NamespaceDelete, objectVars, mapVars, indexVars, Pc
<1>8. CASE NamespaceForget
  BY <1>8, <1>a, WorkerTyped, Zenon DEF NamespaceForget, Idle, objectVars, instVars, indexVars, Pc
<1>9. CASE CreateCluster
  <2>1. CASE NewCluster /\ pc' = "sync" /\ UNCHANGED <<queued, errors>>
    BY <1>9, <2>1, NewClusterTyped
      DEF CreateCluster, TypeInv, TypeOK, objectVars, mapVars, indexVars, None
  <2>2. CASE Fails /\ Requeue /\ pc' = "idle" /\ NoNewCluster
    BY <1>9, <2>2, <1>a, <1>b, <1>c, WorkerTyped, Zenon
      DEF CreateCluster, NoNewCluster, objectVars, mapVars, instVars, indexVars, Pc
  <2> QED
    BY <1>9, <2>1, <2>2, Zenon DEF CreateCluster
<1>10. CASE SyncCluster
  BY <1>10, <1>a, <1>b, <1>c, WorkerTyped, Zenon
    DEF SyncCluster, Idle, objectVars, mapVars, indexVars, Pc
<1>11. CASE EngageCluster
  BY <1>11, <1>a, <1>b, <1>c, WorkerTyped, Zenon
    DEF EngageCluster, Accepted, EngageUndo, RefusedAndRemoved, RefusedAndForgotten,
        RemoveCluster, Idle, objectVars, mapVars, instVars, indexVars, Pc
<1>12. CASE CancelRemoved
  BY <1>12, <1>a, WorkerTyped, Zenon DEF CancelRemoved, objectVars, mapVars, indexVars, Pc
<1> QED
  BY <1>0, <1>1, <1>2, <1>3, <1>4, <1>5, <1>6, <1>7, <1>8, <1>9, <1>10, <1>11, <1>12, NextCases,
     IndexTyped, Zenon

-----------------------------------------------------------------------------
\* The worker.

\* What the worker holds at each of its steps, and that the cancel function registered
\* is the one of the cluster in the map.
WorkerInv ==
  /\ pc \in {"idle", "create", "forget", "stopped"} => cur = None
  /\ pc \in {"removed", "replace", "create", "sync", "stopped"} => stored = None
  /\ pc = "sync" => cur \in live
  /\ pc = "engage" => stored = cur
  /\ stored # None => cancelFn = stored
  /\ pc = "forget" => stored \notin live
  /\ pc = "forget" => provider = "namespace"

AccountInv == WorkerInv /\ NoLostCluster /\ StoredIsLive

LEMMA AccountStep ==
  ASSUME TypeInv, AccountInv, [Next]_vars
  PROVE  AccountInv'
<1> USE ProvidersAssumption DEF AccountInv
<1>a. None \notin live /\ created \in Nat
  BY DEF TypeInv, TypeOK, None
<1>0. ASSUME UNCHANGED <<provider, pc, cur, mapVars, live, failed>> PROVE AccountInv'
  BY <1>0, Zenon DEF mapVars, WorkerInv, NoLostCluster, StoredIsLive
<1>1. CASE KubeconfigReconcile \/ CapiReconcile
  BY <1>1, <1>a, Zenon
    DEF KubeconfigReconcile, CapiReconcile, StartLeaves, GetFails, ReconcileByHash,
        RemoveCluster, Skip, mapVars, WorkerInv, NoLostCluster, StoredIsLive
<1>2. CASE InventoryReconcile
  BY <1>2, <1>a, Zenon
    DEF InventoryReconcile, StartLeaves, GetFails, InventoryNotFound, Skip, mapVars, WorkerInv,
        NoLostCluster, StoredIsLive
<1>3. CASE KindPoll \/ KindIndexFails
  BY <1>3, <1>a, Zenon
    DEF KindPoll, KindIndexFails, StartLeaves, mapVars, WorkerInv, NoLostCluster, StoredIsLive
<1>4. CASE NamespaceAdd
  BY <1>4, <1>a
    DEF NamespaceAdd, NewCluster, mapVars, instVars, WorkerInv, NoLostCluster, StoredIsLive,
        None
<1>5. CASE NamespaceDelete
  BY <1>5, <1>a, Zenon DEF NamespaceDelete, mapVars, WorkerInv, NoLostCluster, StoredIsLive
<1>6. CASE NamespaceForget
  BY <1>6, <1>a, Zenon DEF NamespaceForget, Idle, instVars, WorkerInv, NoLostCluster, StoredIsLive
<1>7. CASE CreateCluster
  BY <1>7, <1>a, Zenon
    DEF CreateCluster, NewCluster, NoNewCluster, mapVars, instVars, WorkerInv, NoLostCluster,
        StoredIsLive
<1>8. CASE SyncCluster
  BY <1>8, <1>a, Zenon DEF SyncCluster, Idle, mapVars, WorkerInv, NoLostCluster, StoredIsLive
<1>9. CASE EngageCluster
  BY <1>9, <1>a, Zenon
    DEF EngageCluster, Accepted, EngageUndo, RefusedAndRemoved, RefusedAndForgotten,
        RemoveCluster, Idle, mapVars, instVars, WorkerInv, NoLostCluster, StoredIsLive
<1>10. CASE CancelRemoved
  BY <1>10, <1>a, Zenon DEF CancelRemoved, mapVars, WorkerInv, NoLostCluster, StoredIsLive
<1>11. ASSUME NEW f \in Fields,
              \/ KubeconfigIndexField(f) \/ KubeconfigIndexApply(f)
              \/ CapiIndexField(f) \/ CapiIndexApply(f)
              \/ InventoryIndexField(f) \/ KindIndexField(f) \/ NamespaceIndexField(f)
       PROVE  UNCHANGED <<provider, pc, cur, mapVars, live, failed>>
  BY <1>11, Zenon
    DEF KubeconfigIndexField, KubeconfigIndexApply, CapiIndexField, CapiIndexApply,
        InventoryIndexField, KindIndexField, NamespaceIndexField, IndexLeaves, instVars
<1>12. \A o : Change(o) => UNCHANGED <<provider, pc, cur, mapVars, live, failed>>
  BY Zenon DEF Change, instVars
<1>13. Resync \/ UNCHANGED vars => UNCHANGED <<provider, pc, cur, mapVars, live, failed>>
  BY Zenon DEF Resync, vars, instVars
<1> QED
  BY <1>0, <1>1, <1>2, <1>3, <1>4, <1>5, <1>6, <1>7, <1>8, <1>9, <1>10, <1>11, <1>12, <1>13,
     NextCases, Zenon

-----------------------------------------------------------------------------
\* The indexes of the inventory and the namespace provider.

\* The instance that the inventory provider has created and not yet stored has every
\* index: no IndexField comes in between.  All namespace clusters have the same ones.
IndexInv ==
  /\ \A f \in Fields : call[f] \in {"saved", "ok"} => f \in indexers
  /\ provider = "inventory" =>
       /\ pc = "sync" => indexers \subseteq applied[cur]
       /\ stored # None => \A f \in Fields : call[f] = "ok" => f \in applied[stored]
  /\ provider = "namespace" =>
       \A i \in Instances, f \in Fields : call[f] = "ok" => f \in applied[i]

LEMMA IndexStep ==
  ASSUME TypeInv, TypeInv', AccountInv, IndexInv, [Next]_vars
  PROVE  IndexInv'
<1> USE ProvidersAssumption
<1>a. /\ call \in [Fields -> {"none", "saved", "ok", "failed"}]
      /\ applied \in [Instances -> SUBSET Fields] /\ indexers \subseteq Fields
      /\ \A i \in 0 .. created : i # None => i \in Instances
      /\ {cur, stored} \subseteq 0 .. created /\ created \in Nat
  BY DEF TypeInv, TypeOK, Instances, None
<1>0. ASSUME UNCHANGED <<provider, indexVars, applied>>,
             stored' \in {stored, None},
             pc' = "sync" => pc = "sync" /\ cur' = cur
      PROVE  IndexInv'
  BY <1>0, Zenon DEF IndexInv, indexVars
<1>1. CASE NamespaceAdd \/ CreateCluster
  <2>1. CASE NewCluster
    <3>1. /\ applied' = [applied EXCEPT ![created + 1] = indexers] /\ cur' = created + 1
          /\ created + 1 \in Instances /\ UNCHANGED <<provider, indexers, call>>
      BY <1>1, <2>1, Zenon DEF NewCluster, NamespaceAdd, CreateCluster, indexVars
    <3>2. /\ applied'[cur'] = indexers
          /\ \A i \in Instances : applied'[i] \in {applied[i], indexers}
      BY <1>a, <3>1, Zenon
    <3>3. provider = "inventory" => stored' = None
      BY <1>1, Zenon DEF NamespaceAdd, CreateCluster, mapVars, AccountInv, WorkerInv
    <3> QED
      BY <3>1, <3>2, <3>3, Zenon DEF IndexInv
  <2>2. CASE ~NewCluster
    BY <1>1, <2>2, <1>0, Zenon DEF NamespaceAdd, CreateCluster, NoNewCluster, mapVars, instVars
  <2> QED
    BY <2>1, <2>2, Zenon
<1>2. CASE SyncCluster
  <2>1. CASE stored' = cur /\ pc' = "engage"
    BY <1>2, <2>1, <1>a, Zenon DEF SyncCluster, IndexInv, indexVars
  <2>2. CASE pc' = "idle" /\ UNCHANGED mapVars
    BY <1>2, <2>2, <1>0, Zenon DEF SyncCluster, mapVars
  <2> QED
    BY <1>2, <2>1, <2>2, Zenon DEF SyncCluster, Idle
<1>3. ASSUME NEW f \in Fields, InventoryIndexField(f) PROVE IndexInv'
  <2>1. /\ provider = "inventory" /\ pc = "idle" /\ indexers' = indexers \cup {f} /\ Apply(f, stored)
        /\ UNCHANGED <<provider, pc, cur, stored>>
    BY <1>3, Zenon DEF InventoryIndexField, LockFree, IndexLeaves, mapVars
  <2>2. \A g \in Fields : g = f \/ call'[g] = call[g]
    BY <1>a, <2>1, Zenon DEF Apply
  <2>3. ASSUME stored # None
        PROVE  /\ applied[stored] \subseteq applied'[stored]
               /\ call'[f] = "ok" => f \in applied'[stored]
    BY <1>a, <2>1, <2>3 DEF Apply
  <2> QED
    BY <2>1, <2>2, <2>3, Zenon DEF IndexInv
<1>4. ASSUME NEW f \in Fields, NamespaceIndexField(f) PROVE IndexInv'
  BY <1>4, <1>a, Zenon DEF NamespaceIndexField, IndexInv, IndexLeaves
<1>5. ASSUME NEW f \in Fields,
             \/ KubeconfigIndexField(f) \/ KubeconfigIndexApply(f)
             \/ CapiIndexField(f) \/ CapiIndexApply(f) \/ KindIndexField(f)
      PROVE  IndexInv'
  <2>1. provider' \notin {"inventory", "namespace"}
    BY <1>5, Zenon
      DEF KubeconfigIndexField, KubeconfigIndexApply, CapiIndexField, CapiIndexApply,
          KindIndexField, IndexLeaves
  <2>2. \A g \in Fields : call[g] = "saved" => g \in indexers
    BY Zenon DEF IndexInv
  <2>3. \A g \in Fields : call'[g] = "ok" => g \in indexers'
    BY <1>5, <1>a, <2>2, Zenon
      DEF KubeconfigIndexField, KubeconfigIndexApply, CapiIndexField, CapiIndexApply,
          KindIndexField, Apply, IndexInv
  <2>4. \A g \in Fields : call'[g] = "saved" => g \in indexers'
    BY <1>5, <1>a, <2>2, Zenon
      DEF KubeconfigIndexField, KubeconfigIndexApply, CapiIndexField, CapiIndexApply,
          KindIndexField, Apply, IndexInv
  <2> QED
    BY <2>1, <2>3, <2>4, Zenon DEF IndexInv
<1>6. CASE Resync \/ UNCHANGED vars \/ \E o : Change(o)
  BY <1>6, <1>0, Zenon DEF Resync, Change, vars, indexVars, mapVars
<1>7. CASE KubeconfigReconcile \/ CapiReconcile
  BY <1>7, <1>0, Zenon
    DEF KubeconfigReconcile, CapiReconcile, StartLeaves, GetFails, ReconcileByHash,
        RemoveCluster, Skip, mapVars
<1>8. CASE InventoryReconcile \/ KindPoll \/ KindIndexFails
  BY <1>8, <1>0, Zenon
    DEF InventoryReconcile, InventoryNotFound, KindPoll, KindIndexFails, StartLeaves, GetFails,
        Skip, mapVars
<1>9. CASE NamespaceDelete \/ NamespaceForget \/ CancelRemoved
  BY <1>9, <1>0, Zenon DEF NamespaceDelete, NamespaceForget, CancelRemoved, Idle, mapVars
<1>10. CASE EngageCluster
  BY <1>10, <1>0, Zenon
    DEF EngageCluster, Accepted, EngageUndo, RefusedAndRemoved, RefusedAndForgotten,
        RemoveCluster, Idle, mapVars
<1> QED
  BY <1>1, <1>2, <1>3, <1>4, <1>5, <1>6, <1>7, <1>8, <1>9, <1>10, NextCases, Zenon

-----------------------------------------------------------------------------
Inv == TypeInv /\ AccountInv /\ IndexInv

LEMMA InvHolds == Spec => []Inv
<1>1. Init => Inv
  <2> SUFFICES ASSUME Init PROVE Inv
    BY Zenon
  <2>1. conf \in [Instances -> Configs \cup {"absent"}] /\ applied \in [Instances -> SUBSET Fields]
        /\ call \in [Fields -> {"none", "saved", "ok", "failed"}]
    BY Zenon DEF Init
  <2>2. target \in [Fields -> 0 .. created] /\ events \in Seq({"add", "delete"})
    BY DEF Init, None
  <2>a. changes \in 0 .. MaxChanges /\ errors \in 0 .. MaxErrors
        /\ created \in 0 .. (MaxChanges + MaxErrors + 1) /\ {cur, stored, cancelFn} \subseteq 0 .. created
    BY ProvidersAssumption DEF Init, None
  <2>3. TypeInv
    BY <2>1, <2>2, <2>a, Zenon DEF Init, TypeInv, TypeOK
  <2>4. AccountInv /\ IndexInv
    BY <2>1, Zenon DEF Init, AccountInv, WorkerInv, NoLostCluster, StoredIsLive, IndexInv
  <2> QED
    BY <2>3, <2>4, Zenon DEF Inv
<1>2. Inv /\ [Next]_vars => Inv'
  BY TypeStep, AccountStep, IndexStep, Zenon DEF Inv
<1> QED
  BY <1>1, <1>2, PTL DEF Spec

\* The maps name instances that exist, and so do the worker and every IndexField call.
THEOREM TypeCorrect == Spec => []TypeOK
<1>1. Inv => TypeOK
  BY Zenon DEF Inv, TypeInv
<1> QED
  BY <1>1, InvHolds, PTL

\* Every started cluster is the one in the map, the one in the worker's hands or, with
\* the three providers that forget without cancelling, one that Engage refused.
THEOREM NoClusterLost == Spec => []NoLostCluster
<1>1. Inv => NoLostCluster
  BY Zenon DEF Inv, AccountInv
<1> QED
  BY <1>1, InvHolds, PTL

\* Get hands out no cluster whose context is cancelled, whichever order a provider
\* cancels and deletes in, except within the namespace provider's DeleteFunc.
THEOREM StoredLive == Spec => []StoredIsLive
<1>1. Inv => StoredIsLive
  BY Zenon DEF Inv, AccountInv
<1> QED
  BY <1>1, InvHolds, PTL

\* The inventory and the namespace provider lose no index.
THEOREM StoredIndexed == Spec => []StoredIsIndexed
<1>1. Inv => StoredIsIndexed
  <2>1. TypeInv /\ stored # None => stored \in Instances
    BY ProvidersAssumption DEF TypeInv, TypeOK, Instances, None
  <2> QED
    BY <2>1, Zenon DEF Inv, IndexInv, StoredIsIndexed
<1> QED
  BY <1>1, InvHolds, PTL
=============================================================================
