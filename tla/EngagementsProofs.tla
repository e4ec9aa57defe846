-------------------------- MODULE EngagementsProofs --------------------------
(***************************************************************************)
(* Proofs about Engagements, for any number of engagements, instances and  *)
(* sources: the invariants of the controller and those of the registry.    *)
(***************************************************************************)
EXTENDS Engagements, TLAPS

State == {"none", "pending", "added", "on", "off"}
Active == {"pending", "added", "on"}

\* One source changes its state.
LEMMA SetWatch ==
  ASSUME watch \in [Engagement -> [Source -> State]],
         NEW e \in Engagement, NEW s \in Source, NEW state \in State, Set(e, s, state)
  PROVE  /\ watch' \in [Engagement -> [Source -> State]]
         /\ watch'[e][s] = state
         /\ \A f \in Engagement, r \in Source :
              f # e \/ r # s => watch'[f][r] = watch[f][r]
<1>1. watch' = [watch EXCEPT ![e] = [watch[e] EXCEPT ![s] = state]]
  BY Zenon DEF Set
<1>2. [watch[e] EXCEPT ![s] = state] \in [Source -> State]
  BY Zenon
<1> QED
  BY <1>1, <1>2, Zenon

\* The disjuncts of Next, flat.
LEMMA NextCases ==
  ASSUME Next
  PROVE  \/ \E e \in Engagement :
              \/ UNCHANGED controllerVars /\ (NewContext(e) \/ ContextDone(e) \/ Forget(e))
              \/ EngageController(e) \/ EngageStored(e) \/ Reap(e) \/ EngageRegistry(e)
              \/ \E s \in Source : EngageSource(e, s) \/ StartPending(e, s) \/ RemoveHandler(e, s)
         \/ UNCHANGED controllerVars /\ ((\E cl \in Cl : Add(cl)) \/ Remove)
         \/ \E s \in Source : WatchSource(s) \/ MultiClusterWatch(s)
         \/ StartController \/ StopController
BY Zenon DEF Next, Environment, Goroutine, RegistryStep

-----------------------------------------------------------------------------
\* Types, and what the holder of c.lock says of the engagements.

TypeInv ==
  /\ TypeOK
  /\ entry \notin fresh /\ newest \notin fresh
  /\ holder \in Engagement => holder \in pending \ passed /\ entry = None
  /\ holder \in Source => entry # None

LEMMA TypeStep ==
  ASSUME TypeInv, [Next]_vars
  PROVE  TypeInv'
<1> USE RegistryAssumption, EngagementsAssumption DEF TypeInv, TypeOK, State
<1>1. CASE UNCHANGED vars
  BY <1>1 DEF vars, registryVars, controllerVars
<1>2. ASSUME NEW e \in Engagement, UNCHANGED controllerVars,
             NewContext(e) \/ ContextDone(e) \/ Forget(e)
      PROVE  TypeInv'
  BY <1>2 DEF controllerVars, NewContext, ContextDone, Forget, RemoveIfEqual
<1>3. ASSUME UNCHANGED controllerVars, (\E cl \in Cl : Add(cl)) \/ Remove PROVE TypeInv'
  BY <1>3 DEF controllerVars, Add, Remove
<1>4. ASSUME NEW e \in Engagement, EngageController(e) PROVE TypeInv'
  BY <1>4, ZenonT(30) DEF EngageController, registryVars, CancelsOld, Wanted
<1>5. ASSUME NEW e \in Engagement, EngageStored(e) PROVE TypeInv'
  BY <1>5, Zenon DEF EngageStored, registryVars
<1>6. ASSUME NEW e \in Engagement, Reap(e) PROVE TypeInv'
  BY <1>6, Zenon DEF Reap, registryVars
<1>7. ASSUME NEW e \in Engagement, EngageRegistry(e) PROVE TypeInv'
  BY <1>7, Zenon DEF EngageRegistry, Engage, AddOrReplace
<1>8. ASSUME NEW e \in Engagement, NEW s \in Source, EngageSource(e, s) PROVE TypeInv'
  <2>1. watch' \in [Engagement -> [Source -> State]]
    BY <1>8, SetWatch, Zenon DEF EngageSource, Watch, Synced, NotSynced
  <2> QED
    BY <1>8, <2>1 DEF EngageSource, EngageFailed, Fails, registryVars
<1>9. ASSUME NEW e \in Engagement, NEW s \in Source, StartPending(e, s) PROVE TypeInv'
  <2>1. watch' \in [Engagement -> [Source -> State]]
    BY <1>9, SetWatch, Zenon DEF StartPending, Synced, NotSynced
  <2> QED
    BY <1>9, <2>1 DEF StartPending, Fails, registryVars
<1>10. ASSUME NEW e \in Engagement, NEW s \in Source, RemoveHandler(e, s) PROVE TypeInv'
  <2>1. watch' \in [Engagement -> [Source -> State]]
    BY <1>10, SetWatch, Zenon DEF RemoveHandler
  <2> QED
    BY <1>10, <2>1, Zenon DEF RemoveHandler, registryVars
<1>11. ASSUME NEW s \in Source, WatchSource(s) PROVE TypeInv'
  <2>1. entry \in Engagement
    BY <1>11, Zenon DEF WatchSource
  <2>2. watch' \in [Engagement -> [Source -> State]]
    BY <1>11, <2>1, SetWatch, Zenon DEF WatchSource, Watch, Synced, NotSynced
  <2> QED
    BY <1>11, <2>2 DEF WatchSource, WatchDone, WatchFailed, Fails, registryVars
<1>12. ASSUME NEW s \in Source, MultiClusterWatch(s) PROVE TypeInv'
  BY <1>12 DEF MultiClusterWatch, Engaged, WatchDone, registryVars
<1>13. ASSUME StartController \/ StopController PROVE TypeInv'
  BY <1>13 DEF StartController, StopController, registryVars
<1> QED
  BY <1>1, <1>2, <1>3, <1>4, <1>5, <1>6, <1>7, <1>8, <1>9, <1>10, <1>11, <1>12, <1>13,
     NextCases, Zenon

LEMMA TypeInit == ASSUME Init PROVE TypeInv
BY RegistryAssumption, EngagementsAssumption DEF Init, RegistryInit, TypeInv, TypeOK

\* The shapes of the state hold in every behaviour of the controller and the registry;
\* among them that the coordinator passes on only engagements that are still pending.
THEOREM TypeCorrect == Spec => []TypeOK
<1>1. Init => TypeInv
  BY TypeInit, Zenon
<1>2. TypeInv /\ [Next]_vars => TypeInv'
  BY TypeStep, Zenon
<1>3. TypeInv => TypeOK
  BY Zenon DEF TypeInv
<1> QED
  BY <1>1, <1>2, <1>3, PTL DEF Spec

-----------------------------------------------------------------------------
\* The controller.

\* An engagement that has not been through the controller left no trace in it.
Untouched ==
  \A e \in fresh \cup (pending \ passed) :
    /\ e \notin cancelled /\ e # entry
    /\ e # holder => \A s \in Source : watch[e][s] = "none"

\* The engagement stored last is the controller's, unless another one is on its way in.
NewestInv == newest \in live /\ holder \notin Engagement => entry = newest /\ newest \notin cancelled

\* Sources under a live context belong to the engagement stored or on its way in.
HandlerInv ==
  \A e \in Engagement, s \in Source :
    EngCtx(e) /\ watch[e][s] \in Active => e \in {entry, holder}

\* That engagement has every source that wants its cluster, or has it ahead.
WatchedInv ==
  /\ holder \notin Engagement /\ entry # None /\ WatchCtx(entry) =>
       \A s \in Wanted(sources, Of[entry]) : watch[entry][s] \in Active
  /\ holder \in Engagement /\ WatchCtx(holder) =>
       \A s \in Wanted(sources, Of[holder]) \ todo : watch[holder][s] \in Active

ControlInv == Untouched /\ NewestInv /\ HandlerInv /\ WatchedInv

\* A source that is on its way to a handler, or loses it because its context is done or
\* because its failure ends the controller.
LEMMA MoveKeeps ==
  ASSUME TypeInv, ControlInv,
         NEW e \in Engagement, NEW s \in Source, NEW state \in State, Set(e, s, state),
         watch[e][s] # "none",
         state \in Active => watch[e][s] \in Active,
         state \notin Active => ~WatchCtx(e) \/ ctl' = "failed",
         ctl' \in {ctl, "failed"},
         UNCHANGED <<fresh, pending, live, sources, entry, cancelled, holder, todo, passed, newest>>
  PROVE  ControlInv'
<1> USE RegistryAssumption, EngagementsAssumption
<1>a. watch \in [Engagement -> [Source -> State]] /\ entry \in Engagement \cup {None}
      /\ fresh \subseteq Engagement /\ pending \subseteq Engagement
  BY Zenon DEF TypeInv, TypeOK, State
<1>b. /\ watch'[e][s] = state
      /\ \A f \in Engagement, r \in Source : f # e \/ r # s => watch'[f][r] = watch[f][r]
  BY <1>a, SetWatch
<1>c. \A f \in Engagement : (EngCtx(f)' <=> EngCtx(f)) /\ (WatchCtx(f)' => WatchCtx(f))
  BY Zenon DEF EngCtx, WatchCtx
<1>1. Untouched'
  BY <1>a, <1>b DEF ControlInv, Untouched
<1>2. NewestInv'
  BY Zenon DEF ControlInv, NewestInv
<1>3. HandlerInv'
  BY <1>a, <1>b, <1>c, Zenon DEF ControlInv, HandlerInv
<1>4. state \notin Active => ~WatchCtx(e)'
  BY <1>c, Zenon DEF WatchCtx
<1>5. WatchedInv'
  <2>1. \A f \in Engagement, r \in Source :
          WatchCtx(f)' /\ watch[f][r] \in Active => watch'[f][r] \in Active
    BY <1>b, <1>4, Zenon
  <2>2. Wanted(sources, Of[entry])' = Wanted(sources, Of[entry])
        /\ Wanted(sources, Of[holder])' = Wanted(sources, Of[holder])
        /\ \A cl \in Cl : Wanted(sources, cl) \subseteq Source
    BY Zenon DEF Wanted, TypeInv, TypeOK
  <2>3. ASSUME holder \notin Engagement, entry # None, WatchCtx(entry)', NEW r \in Wanted(sources, Of[entry])
        PROVE  watch'[entry][r] \in Active
    BY <1>a, <1>c, <2>1, <2>2, <2>3, Zenon DEF ControlInv, WatchedInv
  <2>4. ASSUME holder \in Engagement, WatchCtx(holder)', NEW r \in Wanted(sources, Of[holder]) \ todo
        PROVE  watch'[holder][r] \in Active
    BY <1>c, <2>1, <2>2, <2>4, Zenon DEF ControlInv, WatchedInv
  <2> QED
    BY <2>2, <2>3, <2>4, Zenon DEF WatchedInv
<1> QED
  BY <1>1, <1>2, <1>3, <1>5, Zenon DEF ControlInv

\* Contexts come and go; the registry does not touch the controller.
LEMMA ContextKeeps ==
  ASSUME TypeInv, ControlInv,
         UNCHANGED <<ctl, sources, entry, cancelled, holder, todo, watch, newest>>,
         NEW e \in Engagement, live' \in {live, live \ {e}, live \cup ({e} \cap fresh)},
         (fresh \cup (pending \ passed))' \subseteq fresh \cup (pending \ passed)
  PROVE  ControlInv'
<1> USE RegistryAssumption, EngagementsAssumption
<1>a. watch \in [Engagement -> [Source -> State]] /\ entry \in Engagement \cup {None}
      /\ fresh \subseteq Engagement /\ pending \subseteq Engagement /\ live \subseteq Engagement
      /\ entry \notin fresh /\ (holder \in Engagement => holder \notin fresh)
      /\ newest \in (Engagement \cup {None}) \ fresh
  BY Zenon DEF TypeInv, TypeOK, State
<1>b. \A f \in Engagement : f \notin fresh =>
         (EngCtx(f)' => EngCtx(f)) /\ (WatchCtx(f)' => WatchCtx(f))
  BY Zenon DEF EngCtx, WatchCtx
<1>1. Untouched'
  BY <1>a, Zenon DEF ControlInv, Untouched
<1>2. NewestInv'
  BY <1>a, Zenon DEF ControlInv, NewestInv
<1>3. HandlerInv'
  <2> SUFFICES ASSUME NEW f \in Engagement, NEW s \in Source, EngCtx(f)', watch[f][s] \in Active
               PROVE  f \in {entry, holder}
    BY Zenon DEF HandlerInv
  <2>1. CASE f \in fresh
    BY <2>1 DEF ControlInv, Untouched, Active
  <2>2. CASE f \notin fresh
    BY <2>2, <1>b, Zenon DEF ControlInv, HandlerInv
  <2> QED
    BY <2>1, <2>2, Zenon
<1>5. WatchedInv'
  BY <1>a, <1>b, Zenon DEF ControlInv, WatchedInv, Wanted
<1> QED
  BY <1>1, <1>2, <1>3, <1>5, Zenon DEF ControlInv

\* Engage, from the cancellation of the old engagement to the new one being stored.
LEMMA EngageKeeps ==
  ASSUME TypeInv, ControlInv, NEW e \in Engagement,
         \/ EngageController(e) \/ EngageStored(e) \/ Reap(e)
         \/ \E s \in Source : EngageSource(e, s)
  PROVE  ControlInv'
<1> USE RegistryAssumption, EngagementsAssumption
<1>a. /\ watch \in [Engagement -> [Source -> State]] /\ entry \in Engagement \cup {None}
      /\ fresh \subseteq Engagement /\ pending \subseteq Engagement /\ live \subseteq Engagement
      /\ newest \in Engagement \cup {None} /\ sources \subseteq Source /\ fresh \cap pending = {}
      /\ Of[e] \in Cl /\ None \notin live
  BY Zenon DEF TypeInv, TypeOK, State
<1>1. CASE EngageController(e)
  <2>1. CASE SameLive(e)
    <3>1. /\ passed' = passed \cup {e}
          /\ UNCHANGED <<fresh, pending, live, ctl, sources, entry, cancelled, holder, todo, watch,
                         newest>>
      BY <1>1, <2>1, Zenon DEF EngageController, registryVars
    <3>2. Untouched'
      BY <3>1, Zenon DEF ControlInv, Untouched
    <3>3. NewestInv' /\ HandlerInv' /\ WatchedInv'
      BY <3>1, Zenon DEF ControlInv, NewestInv, HandlerInv, WatchedInv, EngCtx, WatchCtx, Wanted
    <3> QED
      BY <3>2, <3>3, Zenon DEF ControlInv
  <2>2. CASE ~SameLive(e)
    <3>1. /\ holder = None /\ holder' = e /\ entry' = None /\ e \in pending \ passed
          /\ cancelled' = cancelled \cup ({entry} \ {None}) /\ todo' = Wanted(sources, Of[e])
          /\ UNCHANGED <<fresh, pending, passed, live, ctl, sources, watch, newest>>
      BY <1>1, <2>2, Zenon DEF EngageController, registryVars, CancelsOld
    <3>2. Untouched'
      BY <1>a, <3>1 DEF ControlInv, Untouched
    <3>3. NewestInv' /\ WatchedInv'
      BY <1>a, <3>1, Zenon DEF NewestInv, WatchedInv, Wanted
    <3>4. HandlerInv'
      BY <1>a, <3>1, Zenon DEF ControlInv, HandlerInv, EngCtx
    <3> QED
      BY <3>2, <3>3, <3>4, Zenon DEF ControlInv
  <2> QED
    BY <2>1, <2>2, Zenon
<1>2. CASE EngageStored(e)
  <2>1. /\ holder = e /\ holder' = None /\ entry' = e /\ newest' = e /\ todo = {}
        /\ passed' = passed \cup {e}
        /\ UNCHANGED <<fresh, pending, live, cancelled, ctl, sources, watch>>
    BY <1>2, Zenon DEF EngageStored, registryVars
  <2>2. e \in pending \ passed /\ entry = None
    BY <2>1, Zenon DEF TypeInv
  <2>3. Untouched' /\ NewestInv'
    BY <1>a, <2>1, <2>2 DEF ControlInv, Untouched, NewestInv
  <2>4. HandlerInv'
    BY <1>a, <2>1, <2>2, Zenon DEF ControlInv, HandlerInv, EngCtx
  <2>5. WatchedInv'
    BY <1>a, <2>1, <2>2, Zenon DEF ControlInv, WatchedInv, WatchCtx, EngCtx, Wanted
  <2> QED
    BY <2>3, <2>4, <2>5, Zenon DEF ControlInv
<1>3. CASE Reap(e)
  <2>1. /\ holder = None /\ ~EngCtx(e) /\ entry' = IF entry = e THEN None ELSE entry
        /\ UNCHANGED <<fresh, pending, passed, live, cancelled, holder, ctl, sources, watch, newest, todo>>
    BY <1>3, Zenon DEF Reap, registryVars, IsCurrent
  <2>2. Untouched' /\ NewestInv'
    BY <1>a, <2>1, Zenon DEF ControlInv, Untouched, NewestInv, EngCtx
  <2>3. HandlerInv'
    BY <1>a, <2>1, Zenon DEF ControlInv, HandlerInv, EngCtx
  <2>4. WatchedInv'
    BY <1>a, <2>1, Zenon DEF ControlInv, WatchedInv, WatchCtx, EngCtx, Wanted
  <2> QED
    BY <2>2, <2>3, <2>4, Zenon DEF ControlInv
<1>4. ASSUME NEW s \in Source, EngageSource(e, s) PROVE ControlInv'
  <2>a. holder = e /\ s \in todo /\ e \in pending \ passed /\ entry = None
    BY <1>4, Zenon DEF EngageSource, TypeInv
  <2>1. CASE EngageFailed(e)
    <3>1. \A f \in Engagement \ {e} : \A r \in Source : watch'[f][r] = watch[f][r]
      BY <1>4, <2>1, <1>a, SetWatch DEF EngageSource, NotSynced, Watch, Synced, State
    <3>2. /\ holder' = None /\ newest' = None /\ cancelled' = cancelled \cup {e}
          /\ pending' = pending \ {e} /\ UNCHANGED <<fresh, live, passed, sources, entry>>
      BY <2>1, Zenon DEF EngageFailed
    <3>3. Untouched'
      BY <1>a, <2>a, <3>1, <3>2 DEF ControlInv, Untouched
    <3>4. HandlerInv'
      BY <1>a, <2>a, <3>1, <3>2, Zenon DEF ControlInv, HandlerInv, EngCtx
    <3>5. NewestInv' /\ WatchedInv'
      BY <1>a, <2>a, <3>2, Zenon DEF NewestInv, WatchedInv
    <3> QED
      BY <3>3, <3>4, <3>5, Zenon DEF ControlInv
  <2>2. CASE ~EngageFailed(e)
    <3>1. /\ UNCHANGED <<fresh, pending, live, passed, sources, entry, holder, newest, cancelled, ctl>>
          /\ \E state \in Active : Set(e, s, state)
          /\ todo' \in {todo, todo \ {s}}
      BY <1>4, <2>2, Zenon DEF EngageSource, registryVars, Watch, Synced, Active
    <3>2. PICK state \in Active : Set(e, s, state)
      BY <3>1, Zenon
    <3>3. /\ watch'[e][s] \in Active
          /\ \A f \in Engagement, r \in Source : f # e \/ r # s => watch'[f][r] = watch[f][r]
      BY <1>a, <3>2, SetWatch DEF Active, State
    <3>4. Untouched' /\ NewestInv'
      <4>1. Untouched'
        <5>1. \A f \in fresh \cup (pending \ passed) : f \in Engagement
          BY <1>a, Zenon
        <5> QED
          BY <2>a, <3>1, <3>3, <5>1 DEF ControlInv, Untouched
      <4>2. NewestInv'
        BY <3>1, Zenon DEF ControlInv, NewestInv
      <4> QED
        BY <4>1, <4>2, Zenon
    <3>5. HandlerInv'
      BY <1>a, <2>a, <3>1, <3>3, Zenon DEF ControlInv, HandlerInv, EngCtx
    <3>6. WatchedInv'
      BY <1>a, <2>a, <3>1, <3>3, Zenon DEF ControlInv, WatchedInv, EngCtx, WatchCtx, Wanted
    <3> QED
      BY <3>4, <3>5, <3>6, Zenon DEF ControlInv
  <2> QED
    BY <2>1, <2>2, Zenon
<1> QED
  BY <1>1, <1>2, <1>3, <1>4, Zenon

\* MultiClusterWatch, for the engagement the controller has.
LEMMA WatchKeeps ==
  ASSUME TypeInv, ControlInv, NEW s \in Source, MultiClusterWatch(s) \/ WatchSource(s)
  PROVE  ControlInv'
<1> USE RegistryAssumption, EngagementsAssumption
<1>a. /\ watch \in [Engagement -> [Source -> State]] /\ entry \in Engagement \cup {None}
      /\ fresh \subseteq Engagement /\ pending \subseteq Engagement /\ live \subseteq Engagement
      /\ newest \in Engagement \cup {None} /\ sources \subseteq Source
  BY Zenon DEF TypeInv, TypeOK, State
<1>1. CASE MultiClusterWatch(s)
  <2>1. /\ holder = None /\ holder' \in {None, s}
        /\ UNCHANGED <<fresh, pending, live, passed, entry, newest, cancelled, ctl, todo, watch>>
        /\ sources' = sources \/ (sources' = sources \cup {s} /\ Engaged(s) = {})
    BY <1>1, Zenon DEF MultiClusterWatch, WatchDone, registryVars
  <2>2. Untouched' /\ NewestInv' /\ HandlerInv'
    BY <1>a, <2>1 DEF ControlInv, Untouched, NewestInv, HandlerInv, EngCtx
  <2>3. entry # None => Wanted(sources, Of[entry])' = Wanted(sources, Of[entry])
    BY <2>1, Zenon DEF Engaged, Wanted
  <2>4. WatchedInv'
    BY <1>a, <2>1, <2>3, Zenon DEF ControlInv, WatchedInv, WatchCtx, EngCtx
  <2> QED
    BY <2>2, <2>4, Zenon DEF ControlInv
<1>2. CASE WatchSource(s)
  <2>a. holder = s /\ entry \in Engagement /\ holder' \in {None, s}
        /\ UNCHANGED <<fresh, pending, live, passed, entry, newest, cancelled, ctl, todo>>
    BY <1>2, <1>a, Zenon DEF WatchSource, WatchDone, WatchFailed, registryVars, TypeInv
  <2>1. CASE UNCHANGED watch /\ WatchFailed
    BY <1>a, <2>a, <2>1
      DEF WatchFailed, ControlInv, Untouched, NewestInv, HandlerInv, WatchedInv, WatchCtx,
          EngCtx, Wanted
  <2>2. ASSUME NEW state \in State, Set(entry, s, state), state \in Active \/ ~WatchCtx(entry),
               state \in Active \/ sources' = sources, sources' \in {sources, sources \cup {s}}
        PROVE  ControlInv'
    <3>1. /\ watch'[entry][s] = state
          /\ \A f \in Engagement, r \in Source : f # entry \/ r # s => watch'[f][r] = watch[f][r]
      BY <1>a, <2>a, <2>2, SetWatch
    <3>2. Untouched' /\ NewestInv'
      <4>1. Untouched'
        BY <1>a, <2>a, <3>1 DEF ControlInv, Untouched
      <4>2. NewestInv'
        BY <2>a, Zenon DEF ControlInv, NewestInv
      <4> QED
        BY <4>1, <4>2, Zenon
    <3>3. HandlerInv'
      BY <1>a, <2>a, <3>1, Zenon DEF ControlInv, HandlerInv, EngCtx
    <3>4. WatchedInv'
      <4>1. holder \notin Engagement /\ holder' \notin Engagement /\ WatchCtx(entry)' = WatchCtx(entry)
        BY <2>a, Zenon DEF WatchCtx, EngCtx
      <4>2. ASSUME WatchCtx(entry), NEW r \in Wanted(sources', Of[entry])
            PROVE  watch'[entry][r] \in Active
        <5>1. CASE r = s
          BY <2>2, <3>1, <4>2, <5>1, Zenon
        <5>2. CASE r # s
          <6>1. r \in Wanted(sources, Of[entry]) /\ r \in Source
            BY <1>a, <2>2, <4>2, <5>2, Zenon DEF Wanted
          <6>2. watch[entry][r] \in Active
            BY <2>a, <4>1, <4>2, <6>1, Zenon DEF ControlInv, WatchedInv
          <6> QED
            BY <2>a, <3>1, <5>2, <6>1, <6>2, Zenon
        <5> QED
          BY <5>1, <5>2, Zenon
      <4> QED
        BY <2>a, <4>1, <4>2, Zenon DEF WatchedInv, Wanted
    <3> QED
      BY <3>2, <3>3, <3>4, Zenon DEF ControlInv
  <2>3. \/ UNCHANGED watch /\ WatchFailed
        \/ \E state \in State :
             /\ Set(entry, s, state) /\ (state \in Active \/ ~WatchCtx(entry))
             /\ state \in Active \/ sources' = sources
             /\ sources' \in {sources, sources \cup {s}}
    BY <1>2, Zenon DEF WatchSource, Watch, Synced, NotSynced, WatchDone, WatchFailed, Active, State
  <2> QED
    BY <2>1, <2>2, <2>3, Zenon
<1> QED
  BY <1>1, <1>2, Zenon

LEMMA ControlStep ==
  ASSUME TypeInv, ControlInv, [Next]_vars
  PROVE  ControlInv'
<1>1. ASSUME UNCHANGED <<fresh, pending, live, ctl, sources, entry, cancelled, holder, todo, watch,
                         passed, newest>>
      PROVE  ControlInv'
  BY <1>1, Zenon
    DEF ControlInv, Untouched, NewestInv, HandlerInv, WatchedInv, WatchCtx, EngCtx, Wanted
<1>2. ASSUME NEW e \in Engagement, UNCHANGED controllerVars,
             NewContext(e) \/ ContextDone(e) \/ Forget(e)
      PROVE  ControlInv'
  <2>1. /\ live' \in {live, live \ {e}, live \cup ({e} \cap fresh)}
        /\ fresh' \cup (pending' \ passed') \subseteq fresh \cup (pending \ passed)
        /\ UNCHANGED <<ctl, sources, entry, cancelled, holder, todo, watch, newest>>
    BY <1>2, Zenon DEF controllerVars, NewContext, ContextDone, Forget
  <2> QED
    BY <2>1, ContextKeeps, Zenon
<1>3. ASSUME NEW e \in Engagement, EngageRegistry(e) PROVE ControlInv'
  <2>1. /\ live' = live
        /\ fresh' \cup (pending' \ passed') \subseteq fresh \cup (pending \ passed)
        /\ UNCHANGED <<ctl, sources, entry, cancelled, holder, todo, watch, newest>>
    BY <1>3, Zenon DEF EngageRegistry, Engage
  <2> QED
    BY <2>1, ContextKeeps, Zenon
<1>4. ASSUME NEW e \in Engagement, NEW s \in Source, StartPending(e, s) \/ RemoveHandler(e, s)
      PROVE  ControlInv'
  <2>1. /\ UNCHANGED <<fresh, pending, live, sources, entry, cancelled, holder, todo, passed, newest>>
        /\ ctl' \in {ctl, "failed"}
    BY <1>4, Zenon DEF StartPending, RemoveHandler, registryVars, Synced, NotSynced
  <2>2. \E state \in State :
          /\ Set(e, s, state) /\ watch[e][s] # "none"
          /\ state \in Active => watch[e][s] \in Active
          /\ state \notin Active => ~WatchCtx(e) \/ ctl' = "failed"
    BY <1>4, Zenon DEF StartPending, RemoveHandler, HandlerDone, Synced, NotSynced, Active, State
  <2> QED
    BY <2>1, <2>2, MoveKeeps, Zenon
<1>5. ASSUME StartController \/ StopController PROVE ControlInv'
  <2>1. /\ UNCHANGED <<fresh, pending, live, sources, entry, cancelled, holder, todo, watch, passed,
                       newest>>
        /\ \A f : EngCtx(f)' = EngCtx(f) /\ (WatchCtx(f)' => WatchCtx(f))
    BY <1>5, Zenon DEF StartController, StopController, registryVars, EngCtx, WatchCtx
  <2> QED
    BY <2>1, Zenon DEF ControlInv, Untouched, NewestInv, HandlerInv, WatchedInv, Wanted
<1> QED
  BY <1>1, <1>2, <1>3, <1>4, <1>5, EngageKeeps, WatchKeeps, NextCases, Zenon
    DEF vars, registryVars, controllerVars, Add, Remove

-----------------------------------------------------------------------------
\* The registry.

\* An engagement reaches the registry once.
Reached == (watching \cup {last}) \cap (fresh \cup pending) = {}
RegistryInv == Reached /\ StoredIsWatched /\ NewestIsStored

LEMMA RegistryStepKeeps ==
  ASSUME TypeInv, RegistryInv, [Next]_vars
  PROVE  RegistryInv'
<1> USE RegistryAssumption, EngagementsAssumption
<1>a. /\ stored \in Cl \cup {None} /\ last \in Engagement \cup {None} /\ fresh \subseteq Engagement
      /\ pending \subseteq Engagement \ fresh /\ live \subseteq Engagement \ fresh
      /\ watching \subseteq Engagement /\ calls \in Nat
  BY DEF TypeInv, TypeOK
<1>b. \A e \in Engagement : Of[e] \in Cl
  BY Zenon
<1>1. ASSUME UNCHANGED <<stored, fresh, live, watching, last, calls>>, pending' \subseteq pending
      PROVE  RegistryInv'
  BY <1>1, <1>a, Zenon DEF RegistryInv, Reached, StoredIsWatched, NewestIsStored
<1>2. ASSUME NEW e \in Engagement, NewContext(e) \/ ContextDone(e) PROVE RegistryInv'
  <2>1. /\ UNCHANGED <<stored, watching, last, calls>>
        /\ fresh' \cup pending' = fresh \cup pending /\ live' \subseteq live \cup fresh
    BY <1>2, <1>a DEF NewContext, ContextDone
  <2> QED
    BY <1>a, <2>1, Zenon DEF RegistryInv, Reached, StoredIsWatched, NewestIsStored
<1>3. ASSUME NEW e \in Engagement, Forget(e) PROVE RegistryInv'
  <2>1. /\ e \in watching \ live /\ watching' = watching \ {e}
        /\ stored' = IF stored = Of[e] THEN None ELSE stored
        /\ UNCHANGED <<fresh, pending, live, last, calls>>
    BY <1>3, Zenon DEF Forget, RemoveIfEqual
  <2>2. Reached' /\ StoredIsWatched'
    BY <1>a, <2>1, Zenon DEF RegistryInv, Reached, StoredIsWatched
  <2>3. NewestIsStored'
    <3> SUFFICES ASSUME calls = 0, last # None, last \in live,
                        \A f \in Engagement \ (fresh \cup pending \cup {last}) :
                          Config[Of[f]] # Config[Of[last]]
                 PROVE  stored' = Of[last]
      BY <2>1, Zenon DEF NewestIsStored
    <3>1. stored = Of[last]
      BY Zenon DEF RegistryInv, NewestIsStored
    <3>2. Of[e] # Of[last]
      BY <1>a, <2>1, Zenon DEF RegistryInv, Reached
    <3> QED
      BY <2>1, <3>1, <3>2, Zenon
  <2> QED
    BY <2>2, <2>3, Zenon DEF RegistryInv
<1>4. ASSUME NEW e \in Engagement, Engage(e) PROVE RegistryInv'
  <2>1. /\ e \in pending /\ pending' = pending \ {e} /\ watching' = watching \cup {e} /\ last' = e
        /\ stored' = (IF stored # None /\ Config[stored] = Config[Of[e]] THEN stored ELSE Of[e])
        /\ UNCHANGED <<fresh, live, calls>>
    BY <1>4, Zenon DEF Engage, AddOrReplace
  <2>2. Reached' /\ StoredIsWatched'
    BY <1>a, <2>1 DEF RegistryInv, Reached, StoredIsWatched
  <2>3. NewestIsStored'
    <3> SUFFICES ASSUME calls = 0,
                        \A f \in Engagement \ (fresh \cup pending' \cup {e}) :
                          Config[Of[f]] # Config[Of[e]]
                 PROVE  stored' = Of[e]
      BY <2>1, Zenon DEF NewestIsStored
    <3>1. stored # None => \E f \in watching : f # e /\ Of[f] = stored /\ f \notin fresh \cup pending
      BY <2>1, Zenon DEF RegistryInv, Reached, StoredIsWatched
    <3> QED
      BY <1>a, <2>1, <3>1, Zenon
  <2> QED
    BY <2>2, <2>3, Zenon DEF RegistryInv
<1>5. ASSUME UNCHANGED <<fresh, pending, live, watching, last>>, calls' = calls + 1
      PROVE  RegistryInv'
  BY <1>5, <1>a DEF RegistryInv, Reached, StoredIsWatched, NewestIsStored
<1>6. \/ UNCHANGED <<stored, fresh, live, watching, last, calls>> /\ pending' \subseteq pending
      \/ \E e \in Engagement : NewContext(e) \/ ContextDone(e) \/ Forget(e) \/ Engage(e)
      \/ UNCHANGED <<fresh, pending, live, watching, last>> /\ calls' = calls + 1
  <2>1. CASE UNCHANGED vars
    BY <2>1, Zenon DEF vars, registryVars
  <2>2. ASSUME NEW e \in Engagement, NEW s \in Source, EngageSource(e, s)
        PROVE  UNCHANGED <<stored, fresh, live, watching, last, calls>> /\ pending' \subseteq pending
    BY <2>2, Zenon DEF EngageSource, EngageFailed, registryVars
  <2>3. ASSUME NEW e \in Engagement,
               \/ EngageController(e) \/ EngageStored(e) \/ Reap(e)
               \/ \E s \in Source : StartPending(e, s) \/ RemoveHandler(e, s)
        PROVE  UNCHANGED registryVars
    BY <2>3, Zenon DEF EngageController, EngageStored, Reap, StartPending, RemoveHandler
  <2>4. ASSUME \/ \E s \in Source : WatchSource(s) \/ MultiClusterWatch(s)
               \/ StartController \/ StopController
        PROVE  UNCHANGED registryVars
    BY <2>4, Zenon DEF WatchSource, MultiClusterWatch, StartController, StopController
  <2>5. ASSUME (\E cl \in Cl : Add(cl)) \/ Remove
        PROVE  UNCHANGED <<fresh, pending, live, watching, last>> /\ calls' = calls + 1
    BY <2>5, Zenon DEF Add, Remove
  <2>6. ASSUME NEW e \in Engagement, EngageRegistry(e) PROVE Engage(e)
    BY <2>6, Zenon DEF EngageRegistry
  <2>7. UNCHANGED registryVars =>
          UNCHANGED <<stored, fresh, live, watching, last, calls>> /\ pending' \subseteq pending
    BY Zenon DEF registryVars
  <2> QED
    BY <2>1, <2>2, <2>3, <2>4, <2>5, <2>6, <2>7, NextCases, Zenon
<1> QED
  BY <1>1, <1>2, <1>3, <1>4, <1>5, <1>6, Zenon

-----------------------------------------------------------------------------
Inv == TypeInv /\ ControlInv /\ RegistryInv

LEMMA InvHolds == Spec => []Inv
<1>1. Init => Inv
  BY TypeInit, RegistryAssumption, EngagementsAssumption
    DEF Init, RegistryInit, Inv, ControlInv, Untouched, NewestInv, HandlerInv, WatchedInv,
        EngCtx, Active, RegistryInv, Reached, StoredIsWatched, NewestIsStored
<1>2. Inv /\ [Next]_vars => Inv'
  BY TypeStep, ControlStep, RegistryStepKeeps, Zenon DEF Inv
<1> QED
  BY <1>1, <1>2, PTL DEF Spec

\* No source is missed, whichever way Engage, MultiClusterWatch and the start of the
\* controller interleave (controller.go:145-159, 185-198).
THEOREM NoSourceMissed == Spec => []EngagedIsWatched
<1>1. Inv => EngagedIsWatched
  BY EngagementsAssumption, Zenon DEF Inv, ControlInv, WatchedInv, EngagedIsWatched, Active
<1> QED
  BY <1>1, InvHolds, PTL

\* No event is handled twice: one engagement of the name at most has a source under a
\* live context (controller.go:124-133).
THEOREM HandledOnce == Spec => []OneLiveHandler
<1>1. Inv => OneLiveHandler
  BY EngagementsAssumption, Zenon
    DEF Inv, TypeInv, ControlInv, HandlerInv, OneLiveHandler, Active, WatchCtx
<1> QED
  BY <1>1, InvHolds, PTL

\* The late goroutine of an older engagement does not drop a newer one
\* (controller.go:168-176).
THEOREM NewestKept == Spec => []NewestStays
<1>1. Inv => NewestStays
  BY EngagementsAssumption, Zenon DEF Inv, ControlInv, NewestInv, NewestStays
<1> QED
  BY <1>1, InvHolds, PTL

\* The registry keeps nothing that nobody will take out, and takes out no instance but
\* that of the engagement that ended (registry.go:64-74, 132, 147).
THEOREM RegistryFollows == Spec => [](StoredIsWatched /\ NewestIsStored)
<1>1. Inv => StoredIsWatched /\ NewestIsStored
  BY Zenon DEF Inv, RegistryInv
<1> QED
  BY <1>1, InvHolds, PTL
=============================================================================
