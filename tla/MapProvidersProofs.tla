------------------------- MODULE MapProvidersProofs -------------------------
(***************************************************************************)
(* Proofs about the cluster map, for every set of instances,               *)
(* configurations and indexes: types, that only the stored instance has a  *)
(* live context, and that no index is lost.  They are shown first for the  *)
(* map under its own callers (Clusters), then under the file and the       *)
(* clusters provider: a provider only calls the map, prunes a name or      *)
(* leaves the map alone.                                                   *)
(***************************************************************************)
EXTENDS MapProviders, TLAPS

\* The disjuncts of Next, flat.
LEMMA NextCases ==
  ASSUME Next
  PROVE  \/ \E cl \in Cl : \/ Call(cl) \/ Replace(cl) \/ AddEntry(cl) \/ Sync(cl)
                           \/ Index(cl) \/ Engage(cl) \/ Undo(cl)
                           \/ StartReturns(cl) \/ GoroutineEnds(cl)
         \/ CallRemove
         \/ \E f \in Field : IndexField(f) \/ \E cl \in Cl : IndexClone(f, cl)
BY DEF Next, AddStep

\* Every step keeps the types.
LEMMA TypeStep ==
  ASSUME TypeOK, [Next]_vars
  PROVE  TypeOK'
<1> USE ClustersAssumption DEF TypeOK
<1>1. CASE UNCHANGED vars
  BY <1>1 DEF vars
<1>2. ASSUME NEW cl \in Cl, Call(cl) PROVE TypeOK'
  BY <1>2 DEF Call, Goto
<1>3. ASSUME NEW cl \in Cl, Replace(cl) PROVE TypeOK'
  BY <1>3 DEF Replace, Goto, Remove, CancelsStored
<1>4. ASSUME NEW cl \in Cl, AddEntry(cl) PROVE TypeOK'
  BY <1>4 DEF AddEntry, Goto
<1>5. ASSUME NEW cl \in Cl, Sync(cl) PROVE TypeOK'
  BY <1>5 DEF Sync, Goto, Fault
<1>6. ASSUME NEW cl \in Cl, Index(cl) PROVE TypeOK'
  BY <1>6 DEF Index, Goto, KnownIndexers
<1>7. ASSUME NEW cl \in Cl, Engage(cl) PROVE TypeOK'
  BY <1>7 DEF Engage, Goto, Fault
<1>8. ASSUME NEW cl \in Cl, Undo(cl) PROVE TypeOK'
  BY <1>8 DEF Undo, Goto, Remove, CancelsStored
<1>9. ASSUME NEW cl \in Cl, StartReturns(cl) PROVE TypeOK'
  BY <1>9 DEF StartReturns, Fault
<1>10. ASSUME NEW cl \in Cl, GoroutineEnds(cl) PROVE TypeOK'
  BY <1>10 DEF GoroutineEnds, RemoveOnReturn, Remove, CancelsStored
<1>11. CASE CallRemove
  BY <1>11 DEF CallRemove, Remove, CancelsStored
<1>12. ASSUME NEW f \in Field, IndexField(f) PROVE TypeOK'
  BY <1>12 DEF IndexField
<1>13. ASSUME NEW f \in Field, NEW cl \in Cl, IndexClone(f, cl) PROVE TypeOK'
  BY <1>13 DEF IndexClone
<1>14. QED
  BY NextCases, <1>1, <1>2, <1>3, <1>4, <1>5, <1>6, <1>7, <1>8, <1>9, <1>10, <1>11,
     <1>12, <1>13

\* The map, the calls and the goroutines keep their types.
THEOREM TypeCorrect == Spec => []TypeOK
<1>1. Init => TypeOK
  BY ClustersAssumption DEF Init, TypeOK
<1>2. TypeOK /\ [Next]_vars => TypeOK'
  BY TypeStep
<1>3. QED
  BY <1>1, <1>2, PTL DEF Spec

-----------------------------------------------------------------------------
\* An instance has entered the map once its add has succeeded.
Entered(cl) ==
  cl \in running \cup returned \/ pc[cl] \in {"sync", "index", "engage", "undo", "done"}

\* The inductive invariant: an instance that entered is stored exactly as long as
\* its context is live, and one that did not yet is in no part of the state.
LiveInv ==
  \A cl \in Cl :
    /\ Entered(cl) => (cl \notin cancelled <=> stored = cl)
    /\ pc[cl] \in {"idle", "replace", "add"} =>
         cl \notin running \cup returned \cup cancelled /\ stored # cl

\* Removing by name keeps the invariant, whoever does it, as long as no instance
\* enters by the same step.
LEMMA RemoveKeepsLive ==
  ASSUME TypeOK, LiveInv, Remove,
         \A cl \in Cl : Entered(cl)' => Entered(cl),
         \A cl \in Cl : pc'[cl] \in {"idle", "replace", "add"} =>
           /\ pc[cl] \in {"idle", "replace", "add"}
           /\ cl \notin running' \cup returned'
  PROVE  LiveInv'
BY ClustersAssumption DEF TypeOK, LiveInv, Remove, CancelsStored

\* Every step keeps the invariant.
LEMMA LiveStep ==
  ASSUME TypeOK, LiveInv, [Next]_vars
  PROVE  LiveInv'
<1> USE ClustersAssumption
<1>1. CASE UNCHANGED vars
  BY <1>1 DEF vars, LiveInv, Entered
<1>2. ASSUME NEW cl \in Cl, Call(cl) PROVE LiveInv'
  BY <1>2 DEF Call, Goto, TypeOK, LiveInv, Entered
<1>3. ASSUME NEW cl \in Cl, Replace(cl) PROVE LiveInv'
  BY <1>3, RemoveKeepsLive DEF Replace, Goto, TypeOK, LiveInv, Entered
<1>4. ASSUME NEW cl \in Cl, AddEntry(cl) PROVE LiveInv'
  BY <1>4 DEF AddEntry, Goto, TypeOK, LiveInv, Entered
<1>5. ASSUME NEW cl \in Cl, Sync(cl) PROVE LiveInv'
  BY <1>5 DEF Sync, Goto, Fault, TypeOK, LiveInv, Entered
<1>6. ASSUME NEW cl \in Cl, Index(cl) PROVE LiveInv'
  BY <1>6 DEF Index, Goto, TypeOK, LiveInv, Entered
<1>7. ASSUME NEW cl \in Cl, Engage(cl) PROVE LiveInv'
  BY <1>7 DEF Engage, Goto, Fault, TypeOK, LiveInv, Entered
<1>8. ASSUME NEW cl \in Cl, Undo(cl) PROVE LiveInv'
  BY <1>8, RemoveKeepsLive DEF Undo, Goto, TypeOK, LiveInv, Entered
<1>9. ASSUME NEW cl \in Cl, StartReturns(cl) PROVE LiveInv'
  BY <1>9 DEF StartReturns, Fault, TypeOK, LiveInv, Entered
<1>10. ASSUME NEW cl \in Cl, GoroutineEnds(cl) PROVE LiveInv'
  BY <1>10, RemoveKeepsLive DEF GoroutineEnds, RemoveOnReturn, TypeOK, LiveInv, Entered
<1>11. CASE CallRemove
  BY <1>11, RemoveKeepsLive DEF CallRemove, TypeOK, LiveInv, Entered
<1>12. ASSUME NEW f \in Field, IndexField(f) PROVE LiveInv'
  BY <1>12 DEF IndexField, LiveInv, Entered
<1>13. ASSUME NEW f \in Field, NEW cl \in Cl, IndexClone(f, cl) PROVE LiveInv'
  BY <1>13 DEF IndexClone, LiveInv, Entered
<1>14. QED
  BY NextCases, <1>1, <1>2, <1>3, <1>4, <1>5, <1>6, <1>7, <1>8, <1>9, <1>10, <1>11,
     <1>12, <1>13

\* However many calls, goroutines and removals by name interleave, an instance that
\* runs or was engaged has a live context exactly while it is the stored one: no
\* orphan keeps running outside the map and none is dead inside it (clusters.go:108-175).
THEOREM OnlyStoredLive == Spec => []OnlyStoredIsLive
<1>1. Init => LiveInv
  BY ClustersAssumption DEF Init, LiveInv, Entered
<1>2. TypeOK /\ LiveInv /\ [Next]_vars => LiveInv'
  BY LiveStep
<1>3. LiveInv => OnlyStoredIsLive
  BY DEF LiveInv, Entered, OnlyStoredIsLive
<1>4. QED
  BY TypeCorrect, <1>1, <1>2, <1>3, PTL DEF Spec

-----------------------------------------------------------------------------
\* The inductive invariant: from the moment Add has applied the indexers it read, the
\* stored instance has every index, or is a clone some IndexField has yet to index.
IndexedInv ==
  \A cl \in Cl : \A f \in indexers :
    pc[cl] \in {"engage", "done"} /\ stored = cl /\ cl \notin todo[f] => f \in applied[cl]

\* Removing by name establishes the invariant: nothing is stored.
LEMMA RemoveKeepsIndexed ==
  ASSUME Remove
  PROVE  IndexedInv'
BY ClustersAssumption DEF Remove, IndexedInv

\* Every step keeps the invariant.
LEMMA IndexedStep ==
  ASSUME TypeOK, IndexedInv, [Next]_vars
  PROVE  IndexedInv'
<1> USE ClustersAssumption
<1>1. CASE UNCHANGED vars
  BY <1>1 DEF vars, IndexedInv
<1>2. ASSUME NEW cl \in Cl, Call(cl) PROVE IndexedInv'
  BY <1>2 DEF Call, Goto, TypeOK, IndexedInv
<1>3. ASSUME NEW cl \in Cl, Replace(cl) PROVE IndexedInv'
  BY <1>3, RemoveKeepsIndexed DEF Replace
<1>4. ASSUME NEW cl \in Cl, AddEntry(cl) PROVE IndexedInv'
  BY <1>4 DEF AddEntry, Goto, TypeOK, IndexedInv
<1>5. ASSUME NEW cl \in Cl, Sync(cl) PROVE IndexedInv'
  BY <1>5 DEF Sync, Goto, TypeOK, IndexedInv
<1>6. ASSUME NEW cl \in Cl, Index(cl) PROVE IndexedInv'
  BY <1>6 DEF Index, Goto, KnownIndexers, TypeOK, IndexedInv
<1>7. ASSUME NEW cl \in Cl, Engage(cl) PROVE IndexedInv'
  BY <1>7 DEF Engage, Goto, TypeOK, IndexedInv
<1>8. ASSUME NEW cl \in Cl, Undo(cl) PROVE IndexedInv'
  BY <1>8, RemoveKeepsIndexed DEF Undo
<1>9. ASSUME NEW cl \in Cl, StartReturns(cl) PROVE IndexedInv'
  BY <1>9 DEF StartReturns, IndexedInv
<1>10. ASSUME NEW cl \in Cl, GoroutineEnds(cl) PROVE IndexedInv'
  BY <1>10, RemoveKeepsIndexed DEF GoroutineEnds, RemoveOnReturn
<1>11. CASE CallRemove
  BY <1>11, RemoveKeepsIndexed DEF CallRemove
<1>12. ASSUME NEW f \in Field, IndexField(f) PROVE IndexedInv'
  BY <1>12 DEF IndexField, TypeOK, IndexedInv
<1>13. ASSUME NEW f \in Field, NEW cl \in Cl, IndexClone(f, cl) PROVE IndexedInv'
  BY <1>13 DEF IndexClone, TypeOK, IndexedInv
<1>14. QED
  BY NextCases, <1>1, <1>2, <1>3, <1>4, <1>5, <1>6, <1>7, <1>8, <1>9, <1>10, <1>11,
     <1>12, <1>13

\* Whichever of Add and IndexField comes first, and however their critical sections
\* alternate, an engaged instance in the map lacks no index whose IndexField is over
\* (clusters.go:131-139,209-228).
THEOREM NoIndexLost == Spec => []EngagedIsIndexed
<1>1. Init => IndexedInv
  BY DEF Init, IndexedInv
<1>2. TypeOK /\ IndexedInv /\ [Next]_vars => IndexedInv'
  BY IndexedStep
<1>3. IndexedInv => EngagedIsIndexed
  BY DEF IndexedInv, EngagedIsIndexed
<1>4. QED
  BY TypeCorrect, <1>1, <1>2, <1>3, PTL DEF Spec

-----------------------------------------------------------------------------
\* The map under its providers.

\* The variables of the map that the invariants are about.
entryVars == <<stored, pc, running, returned, cancelled, indexers, applied, todo>>

\* A step of the map itself is a step of Clusters.
LEMMA MapStepIsNext ==
  ASSUME MapStep
  PROVE  Next
BY MapAssumption DEF MapStep, Next

\* Every step of a provider is a step of Clusters for the map, a removal by name, or
\* leaves the map as it is.
LEMMA ProviderCases ==
  ASSUME [MapNext]_mapVars, current \in Cl \cup {None}, at = "call" => current \in Cl
  PROVE  \/ [Next]_vars
         \/ Remove /\ UNCHANGED <<pc, running, returned, indexers, applied, todo>>
         \/ UNCHANGED entryVars
<1>1. CASE UNCHANGED mapVars
  BY <1>1 DEF mapVars
<1>2. CASE MapStep
  BY <1>2, MapStepIsNext
<1>3. CASE Load
  BY <1>3 DEF Load, Move, vars, entryVars
<1>4. CASE Prune
  BY <1>4 DEF Prune, entryVars
<1>5. CASE CallAddOrReplace
  BY <1>5 DEF CallAddOrReplace, Next
<1>6. CASE Names \/ Watch \/ FileEvent \/ Range \/ ClearWaiting \/ Receive \/ Added
           \/ StartFile \/ StartOnce
  BY <1>6 DEF Names, Watch, FileEvent, Range, ClearWaiting, Receive, Added, StartFile, StartOnce,
              Move
<1>7. CASE Send \/ (\E c \in Content : ChangeFile(c)) \/ (\E cl \in Cl : Add(cl))
  BY <1>7 DEF Send, ChangeFile, Add
<1>8. QED
  BY <1>1, <1>2, <1>3, <1>4, <1>5, <1>6, <1>7 DEF MapNext, StartStep

-----------------------------------------------------------------------------
\* What the goroutine of Start hands to AddOrReplace is a cluster, wherever it came from.
Handed ==
  /\ current \in Cl \cup {None} /\ waiting \in Cl \cup {None} /\ sender \in Cl \cup {None}
  /\ input \in Seq(Cl)
  /\ at = "call" => current \in Cl

LEMMA HandedStep ==
  ASSUME Handed, [MapNext]_mapVars
  PROVE  Handed'
<1> USE DEF Handed
<1>1. CASE UNCHANGED mapVars
  BY <1>1 DEF mapVars, addVars
<1>2. CASE MapStep /\ UNCHANGED <<provider, at, current, fileVars, addVars>>
  BY <1>2 DEF addVars
<1>3. CASE Load
  BY <1>3 DEF Load, Move, Unused, addVars
<1>4. CASE Names
  BY <1>4 DEF Names, Move, addVars
<1>5. CASE Prune \/ Watch \/ FileEvent \/ StartFile \/ CallAddOrReplace \/ Added
  BY <1>5 DEF Prune, Watch, FileEvent, StartFile, CallAddOrReplace, Added, Move, addVars
<1>6. CASE StartOnce \/ Range \/ ClearWaiting
  BY <1>6 DEF StartOnce, Range, NextWaiting, ClearWaiting, Move, addVars
<1>7. CASE Receive
  BY <1>7 DEF Receive, Move
<1>8. CASE Send
  BY <1>8 DEF Send
<1>9. ASSUME NEW c \in Content, ChangeFile(c) PROVE Handed'
  BY <1>9 DEF ChangeFile, addVars
<1>10. ASSUME NEW cl \in Cl, Add(cl) PROVE Handed'
  BY <1>10 DEF Add
<1>11. QED
  BY <1>1, <1>2, <1>3, <1>4, <1>5, <1>6, <1>7, <1>8, <1>9, <1>10 DEF MapNext, StartStep

\* The invariant of the map and of its users together.
MapInv == TypeOK /\ LiveInv /\ IndexedInv /\ Handed

LEMMA MapInvStep ==
  ASSUME MapInv, [MapNext]_mapVars
  PROVE  MapInv'
<1>1. Handed'
  BY HandedStep DEF MapInv
<1>2. CASE [Next]_vars
  BY <1>1, <1>2, TypeStep, LiveStep, IndexedStep DEF MapInv
<1>3. CASE Remove /\ UNCHANGED <<pc, running, returned, indexers, applied, todo>>
  <2>1. TypeOK'
    BY <1>3, ClustersAssumption DEF MapInv, TypeOK, Remove, CancelsStored
  <2>2. LiveInv'
    <3>1. \A cl \in Cl : Entered(cl)' => Entered(cl)
      BY <1>3 DEF Entered
    <3>2. \A cl \in Cl : pc'[cl] \in {"idle", "replace", "add"} =>
             pc[cl] \in {"idle", "replace", "add"} /\ cl \notin running' \cup returned'
      BY <1>3 DEF MapInv, LiveInv
    <3>3. QED
      BY <1>3, <3>1, <3>2, RemoveKeepsLive DEF MapInv
  <2>3. IndexedInv'
    BY <1>3, RemoveKeepsIndexed
  <2>4. QED
    BY <1>1, <2>1, <2>2, <2>3 DEF MapInv
<1>4. CASE UNCHANGED entryVars
  BY <1>1, <1>4 DEF MapInv, TypeOK, LiveInv, Entered, IndexedInv, entryVars
<1>5. QED
  BY <1>2, <1>3, <1>4, ProviderCases DEF MapInv, Handed

\* Whichever provider uses the map, with any number of clusters, files that come, go
\* and break, and clusters waiting or in the channel: the stored instance is the only
\* live one, and it lacks no index (clusters.go:108-230, file/provider.go:197-223,
\* clusters/provider.go:83-130).
THEOREM ProvidersKeepMap == MapSpec => [](TypeOK /\ OnlyStoredIsLive /\ EngagedIsIndexed)
<1>1. MapInit => MapInv
  <2>1. Init => TypeOK /\ LiveInv /\ IndexedInv
    BY ClustersAssumption DEF Init, TypeOK, LiveInv, Entered, IndexedInv
  <2>2. MapInit => Handed
    BY DEF MapInit, Handed
  <2>3. QED
    BY <2>1, <2>2 DEF MapInit, MapInv
<1>2. MapInv /\ [MapNext]_mapVars => MapInv'
  BY MapInvStep
<1>3. MapInv => TypeOK /\ OnlyStoredIsLive /\ EngagedIsIndexed
  BY DEF MapInv, LiveInv, Entered, IndexedInv, OnlyStoredIsLive, EngagedIsIndexed
<1>4. QED
  BY <1>1, <1>2, <1>3, PTL DEF MapSpec
=============================================================================
