----------------------- MODULE NamespaceProgramProofs -----------------------
(***************************************************************************)
(* Proofs about NamespaceProgram, for any namespaces and programs: the     *)
(* clusters made of namespaces are kept apart, and requests come only from *)
(* where the builder was told to watch.                                    *)
(***************************************************************************)
EXTENDS NamespaceProgram, FiniteSetTheorems, TLAPS

\* The list of the namespaces is a sequence of events.
NamespaceEvent == [namespace : Namespace, event : {"create", "delete"}]

LEMMA ListTyped == ListNamespaces \in Seq(NamespaceEvent)
<1> DEFINE T == {[namespace |-> n, event |-> "create"] : n \in {m \in Namespace : exists[m]}}
           g == [e \in T |-> e.namespace]
<1>1. g \in Injection(T, Namespace)
  BY DEF Injection, IsInjective
<1>2. IsFiniteSet(T)
  BY <1>1, FS_Injection, ProgramAssumption
<1>3. PICK f : f \in Bijection(1 .. Cardinality(T), T)
  BY <1>2, FS_CardinalityType DEF ExistsBijection
<1>4. f \in [1 .. Cardinality(T) -> T] /\ IsInjective(f)
  BY <1>3 DEF Bijection, Injection
<1>5. SetToSeq(T) \in [1 .. Cardinality(T) -> T]
  BY <1>4 DEF SetToSeq
<1>6. Cardinality(T) \in Nat /\ T \subseteq NamespaceEvent
  BY <1>2, FS_CardinalityType DEF NamespaceEvent
<1>7. SetToSeq(T) \in Seq(NamespaceEvent)
  <2> HIDE DEF T
  <2>1. ASSUME NEW n \in Nat, NEW s \in [1 .. n -> T] PROVE s \in Seq(NamespaceEvent)
    <3>1. \A i \in 1 .. n : s[i] \in NamespaceEvent
      BY <1>6
    <3>2. QED
      BY <3>1
  <2>2. QED
    BY <1>5, <1>6, <2>1
<1>8. QED
  BY <1>7 DEF ListNamespaces

-----------------------------------------------------------------------------
\* Where the builder asks for requests from: the two branches of OnlyWhereAsked.
AskedLocal == ~prog.provider \/ \E i \in Watched : Inputs(builder)[i].local = <<TRUE>>
AskedMulti ==
  /\ prog.provider
  /\ \E i \in Watched : /\ Inputs(builder)[i].provider # <<FALSE>>
                        /\ Inputs(builder)[i].filter # <<"other">>

Asked(r) == IF r.cluster = LocalCluster THEN AskedLocal ELSE r.cluster \in Namespace /\ AskedMulti

\* A handler belongs to the local cluster or to an instance, and was asked for.
Handler(h) == IF h[2] = None THEN AskedLocal ELSE h[2] \in DOMAIN name /\ AskedMulti

\* The provider knows an instance by the name it made it for, and does nothing in a
\* program that has no provider.
ProviderInv ==
  /\ name \in Seq(Namespace)
  /\ clusters \in [Namespace -> Nat]
  /\ \A n \in Namespace : clusters[n] # None => clusters[n] \in DOMAIN name /\ name[clusters[n]] = n
  /\ nsEvents \in Seq(NamespaceEvent) /\ (nsEvents # <<>> => prog.provider)
  /\ handling.at # "idle" => /\ handling.namespace \in Namespace /\ prog.provider
                             /\ handling.at = "engage" => clusters[handling.namespace] # None

QueueInv == queue \in Seq(Range(queue)) /\ \A i \in DOMAIN queue : Asked(queue[i])

\* The worker has the instance of the cluster that its request names.
ActiveInv ==
  /\ active = [at |-> active.at, request |-> active.request, instance |-> active.instance]
  /\ active.at # "idle" => Asked(active.request)
  /\ active.at = "idle" => active = Idle
  /\ active.at = "read" =>
       IF active.request.cluster = LocalCluster THEN active.instance = None
       ELSE active.instance \in DOMAIN name /\ name[active.instance] = active.request.cluster

\* Handlers, the queue and the worker have only what was asked for.
RequestInv == (\A h \in DOMAIN inbox : Handler(h)) /\ QueueInv /\ ActiveInv

\* What is kept apart, with the domains of the functions it is kept in.
ApartInv ==
  /\ DOMAIN store = Namespace /\ DOMAIN seen = Request
  /\ DOMAIN cache = Cache /\ DOMAIN cache["shared"] = Namespace
  /\ TenantsApart

WatchInv == prog \in Programs /\ ProviderInv /\ RequestInv
ProgramInv == WatchInv /\ ApartInv

-----------------------------------------------------------------------------
\* The inputs watched locally were asked for locally.
LEMMA LocalAsked ==
  ASSUME prog \in Programs, NEW i \in LocalInputs
  PROVE  AskedLocal
<1>1. i \in Watched /\ Local(Inputs(builder)[i], prog.provider)
  BY DEF LocalInputs
<1>2. Inputs(builder)[i].local \in {<<>>, <<TRUE>>, <<FALSE>>}
  BY <1>1, ProgramAssumption DEF Watched, builder
<1>3. CASE Inputs(builder)[i].local = <<>>
  BY <1>1, <1>3 DEF Local, Deref, LocalDefault, AskedLocal
<1>4. CASE Inputs(builder)[i].local # <<>>
  <2>1. Inputs(builder)[i].local[1]
    BY <1>1, <1>4 DEF Local, Deref
  <2>2. Inputs(builder)[i].local # <<FALSE>>
    <3>1. <<FALSE>>[1] = FALSE
      OBVIOUS
    <3>2. QED
      BY <2>1, <3>1
  <2>3. QED
    BY <1>1, <1>2, <1>4, <2>2 DEF AskedLocal
<1>5. QED
  BY <1>3, <1>4

\* The inputs that accept a cluster were asked for in a program with a provider.
LEMMA MultiAsked ==
  ASSUME prog \in Programs, prog.provider, NEW i \in MultiInputs, NEW n, Accepts(Inputs(builder)[i], n)
  PROVE  AskedMulti
<1>1. i \in Watched /\ Multi(Inputs(builder)[i], prog.provider)
  BY DEF MultiInputs
<1>2. Inputs(builder)[i].provider # <<FALSE>>
  <2>1. SUFFICES ASSUME Inputs(builder)[i].provider = <<FALSE>> PROVE FALSE
    OBVIOUS
  <2>2. <<FALSE>> # <<>> /\ <<FALSE>>[1] = FALSE
    OBVIOUS
  <2>3. QED
    BY <1>1, <2>1, <2>2 DEF Multi, Deref
<1>3. Inputs(builder)[i].filter # <<"other">>
  <2>1. <<"other">> # <<>> /\ <<"other">> # <<"own">>
    <3>1. <<"other">>[1] # <<"own">>[1]
      OBVIOUS
    <3>2. QED
      BY <3>1
  <2>2. QED
    BY <2>1 DEF Accepts
<1>4. QED
  BY <1>1, <1>2, <1>3 DEF AskedMulti

-----------------------------------------------------------------------------
\* Steps keep the program and the provider's knowledge.
LEMMA ProviderStep ==
  ASSUME WatchInv, [Next]_vars
  PROVE  prog' = prog /\ ProviderInv'
<1>a. /\ name \in Seq(Namespace) /\ clusters \in [Namespace -> Nat]
      /\ \A n \in Namespace :
           clusters[n] # None => clusters[n] \in DOMAIN name /\ name[clusters[n]] = n
      /\ nsEvents \in Seq(NamespaceEvent) /\ (nsEvents # <<>> => prog.provider)
      /\ handling.at # "idle" => /\ handling.namespace \in Namespace /\ prog.provider
                                 /\ handling.at = "engage" => clusters[handling.namespace] # None
  BY DEF WatchInv, ProviderInv
<1>b. nsEvents # <<>> =>
        Head(nsEvents) \in NamespaceEvent /\ Tail(nsEvents) \in Seq(NamespaceEvent)
  BY <1>a
<1>1. CASE UNCHANGED <<prog, providerVars>>
  BY <1>1, <1>a DEF ProviderInv, providerVars
<1>2. CASE StartManager
  <2>1. nsEvents' \in Seq(NamespaceEvent) /\ (nsEvents' # <<>> => prog.provider)
    BY <1>2, ListTyped DEF StartManager
  <2>2. QED
    BY <1>2, <1>a, <2>1 DEF StartManager, ProviderInv
<1>3. CASE AddNamespace
  <2> DEFINE n == Head(nsEvents).namespace
             i == Len(name) + 1
  <2>1. nsEvents # <<>> /\ n \in Namespace /\ nsEvents' = Tail(nsEvents) /\ prog' = prog
    BY <1>3, <1>a, <1>b DEF AddNamespace, NamespaceEvent
  <2>2. nsEvents' \in Seq(NamespaceEvent) /\ prog.provider
    BY <1>a, <1>b, <2>1
  <2>3. CASE clusters[n] # None
    BY <1>3, <1>a, <2>1, <2>2, <2>3 DEF AddNamespace, ProviderInv
  <2>4. CASE clusters[n] = None
    <3>1. /\ clusters' = [clusters EXCEPT ![n] = i] /\ name' = Append(name, n)
          /\ handling' = [at |-> "engage", namespace |-> n]
      BY <1>3, <2>4 DEF AddNamespace
    <3>2. /\ name' \in Seq(Namespace) /\ i \in DOMAIN name' /\ name'[i] = n
          /\ \A j \in DOMAIN name : j \in DOMAIN name' /\ name'[j] = name[j]
      BY <1>a, <2>1, <3>1
    <3>3. i \in Nat /\ i # None
      BY <1>a DEF None
    <3> HIDE DEF i, n
    <3>4. clusters' \in [Namespace -> Nat] /\ clusters'[n] = i
      BY <1>a, <2>1, <3>1, <3>3
    <3>5. \A m \in Namespace : clusters'[m] # None =>
            clusters'[m] \in DOMAIN name' /\ name'[clusters'[m]] = m
      BY <1>a, <2>1, <3>1, <3>2, <3>3
    <3>6. QED
      BY <2>1, <2>2, <3>1, <3>2, <3>3, <3>4, <3>5 DEF ProviderInv
  <2>5. QED
    BY <2>3, <2>4
<1>4. CASE Engage
  BY <1>4, <1>a DEF Engage, ProviderInv, Resting
<1>5. CASE DeleteNamespace
  <2> DEFINE n == Head(nsEvents).namespace
  <2>1. nsEvents # <<>> /\ n \in Namespace /\ nsEvents' = Tail(nsEvents) /\ prog' = prog
    BY <1>5, <1>a, <1>b DEF DeleteNamespace, NamespaceEvent
  <2>2. nsEvents' \in Seq(NamespaceEvent) /\ prog.provider
    BY <1>a, <1>b, <2>1
  <2>3. QED
    BY <1>5, <1>a, <2>1, <2>2 DEF DeleteNamespace, ProviderInv
<1>6. CASE ForgetNamespace
  <2>1. /\ clusters' = [clusters EXCEPT ![handling.namespace] = None]
        /\ UNCHANGED <<prog, name, nsEvents>> /\ handling' = Resting
    BY <1>6 DEF ForgetNamespace
  <2>2. clusters' \in [Namespace -> Nat]
    BY <1>a, <2>1 DEF None
  <2>3. QED
    BY <1>a, <2>1, <2>2 DEF ProviderInv, Resting
<1>7. ASSUME NEW n \in Namespace, CreateNamespace(n) \/ RemoveNamespace(n)
      PROVE  prog' = prog /\ ProviderInv'
  <2>1. PICK e \in {"create", "delete"} : Notify(n, e)
    BY <1>7 DEF CreateNamespace, RemoveNamespace
  <2>2. [namespace |-> n, event |-> e] \in NamespaceEvent
    BY DEF NamespaceEvent
  <2>3. nsEvents' \in Seq(NamespaceEvent) /\ (nsEvents' # <<>> => prog.provider)
    BY <1>a, <2>1, <2>2 DEF Notify
  <2>4. UNCHANGED <<prog, clusters, name, handling>>
    BY <1>7 DEF CreateNamespace, RemoveNamespace
  <2>5. QED
    BY <1>a, <2>3, <2>4 DEF ProviderInv
<1>8. QED
  <2>1. CASE BuildController \/ Worker
    BY <1>1, <2>1 DEF BuildController, Worker, Take, GetCluster, Read
  <2>2. CASE Informers
    BY <1>1, <2>2 DEF Informers, Sync, Handle
  <2>3. CASE \E i \in DOMAIN name, op \in Callable, ns \in Namespace : Call(i, op, ns)
    BY <1>1, <2>3 DEF Call
  <2>4. CASE UNCHANGED vars
    BY <1>1, <2>4 DEF vars
  <2>5. QED
    BY <1>2, <1>3, <1>4, <1>5, <1>6, <1>7, <2>1, <2>2, <2>3, <2>4 DEF Next, Main, Provider, Users

-----------------------------------------------------------------------------
\* The queue and the requests in it.
LEMMA RangeTyped ==
  ASSUME NEW S, NEW q \in Seq(S)
  PROVE  q \in Seq(Range(q))
<1>1. Len(q) \in Nat /\ DOMAIN q = 1 .. Len(q)
  OBVIOUS
<1>2. \A i \in 1 .. Len(q) : q[i] \in Range(q)
  BY <1>1 DEF Range
<1>3. QED
  BY <1>1, <1>2

\* Adding a request that was asked for.
LEMMA EnqueueKeeps ==
  ASSUME QueueInv, NEW r, Enqueue(r), Asked(r), prog' = prog
  PROVE  QueueInv'
<1>1. \A q : Asked(q)' <=> Asked(q)
  BY DEF Asked, AskedLocal, AskedMulti, Watched, builder
<1>2. CASE queue' = queue
  BY <1>1, <1>2 DEF QueueInv, Range
<1>3. CASE queue' = Append(queue, r)
  <2>1. queue \in Seq(Range(queue) \cup {r})
    BY DEF QueueInv
  <2>2. queue' \in Seq(Range(queue) \cup {r})
    BY <1>3, <2>1
  <2>3. queue' \in Seq(Range(queue'))
    BY <2>2, RangeTyped
  <2>4. \A i \in DOMAIN queue' : queue'[i] = r \/ \E j \in DOMAIN queue : queue'[i] = queue[j]
    BY <1>3, <2>1
  <2>5. QED
    BY <1>1, <2>3, <2>4 DEF QueueInv, Range
<1>4. QED
  BY <1>2, <1>3 DEF Enqueue

\* Taking the first request.
LEMMA TailKeeps ==
  ASSUME QueueInv, queue # <<>>, queue' = Tail(queue), prog' = prog
  PROVE  QueueInv' /\ Asked(Head(queue))
<1>1. \A q : Asked(q)' <=> Asked(q)
  BY DEF Asked, AskedLocal, AskedMulti, Watched, builder
<1>2. Head(queue) = queue[1] /\ 1 \in DOMAIN queue
  BY DEF QueueInv
<1>3. queue' \in Seq(Range(queue)) /\ \A i \in DOMAIN queue' : \E j \in DOMAIN queue : queue'[i] = queue[j]
  BY DEF QueueInv
<1>4. queue' \in Seq(Range(queue'))
  BY <1>3, RangeTyped
<1>5. QED
  BY <1>1, <1>2, <1>3, <1>4 DEF QueueInv, Range

\* The instances keep their names.
LEMMA NamesStay ==
  ASSUME WatchInv, [Next]_vars
  PROVE  \A j \in DOMAIN name : j \in DOMAIN name' /\ name'[j] = name[j]
<1>1. name \in Seq(Namespace)
  BY DEF WatchInv, ProviderInv
<1>2. CASE name' = name
  BY <1>2
<1>3. CASE \E n : name' = Append(name, n)
  BY <1>1, <1>3
<1>4. QED
  <2>1. CASE UNCHANGED vars
    BY <1>2, <2>1 DEF vars, providerVars
  <2>2. CASE Main \/ Provider
    BY <1>2, <1>3, <2>2 DEF Main, Provider, BuildController, StartManager, AddNamespace, Engage,
       DeleteNamespace, ForgetNamespace, providerVars
  <2>3. CASE Informers \/ Worker
    BY <1>2, <2>3 DEF Informers, Worker, Sync, Handle, Take, GetCluster, Read, providerVars
  <2>4. CASE Users
    BY <1>2, <2>4 DEF Users, Call, CreateNamespace, RemoveNamespace, providerVars
  <2>5. QED
    BY <2>1, <2>2, <2>3, <2>4 DEF Next

-----------------------------------------------------------------------------
\* Handlers are added for inputs that were asked for, and stay what they are.
LEMMA HandlersAsked ==
  ASSUME WatchInv, [Next]_vars
  PROVE  \A h \in DOMAIN inbox' : Handler(h)'
<1>a. prog' = prog
  BY ProviderStep
<1>b. \A h \in DOMAIN inbox : Handler(h)'
  <2>1. AskedLocal' = AskedLocal /\ AskedMulti' = AskedMulti
    BY <1>a DEF AskedLocal, AskedMulti, Watched, builder
  <2>2. QED
    BY <2>1, NamesStay DEF WatchInv, RequestInv, Handler
<1>1. CASE DOMAIN inbox' \subseteq DOMAIN inbox
  BY <1>b, <1>1
<1>2. CASE StartManager
  <2>1. DOMAIN inbox' = DOMAIN inbox \cup (LocalInputs \X {None})
    BY <1>2 DEF StartManager, AddHandlers
  <2>2. ASSUME NEW h \in LocalInputs \X {None} PROVE Handler(h)'
    <3>1. h[1] \in LocalInputs /\ h[2] = None
      BY <2>2
    <3>2. AskedLocal
      BY <3>1, LocalAsked DEF WatchInv
    <3>3. QED
      BY <1>a, <3>1, <3>2 DEF Handler, AskedLocal, Watched, builder
  <2>3. QED
    BY <1>b, <2>1, <2>2
<1>3. CASE Engage
  <2> DEFINE n == handling.namespace
             wanted == {i \in MultiInputs : Accepts(Inputs(builder)[i], n)}
  <2>1. DOMAIN inbox' = DOMAIN inbox \cup (wanted \X {clusters[n]})
    BY <1>3 DEF Engage, AddHandlers
  <2>2. ASSUME NEW h \in wanted \X {clusters[n]} PROVE Handler(h)'
    <3>1. h[1] \in MultiInputs /\ Accepts(Inputs(builder)[h[1]], n) /\ h[2] = clusters[n]
      BY <2>2
    <3>2. prog.provider /\ clusters[n] # None /\ clusters[n] \in DOMAIN name
      BY <1>3 DEF Engage, WatchInv, ProviderInv
    <3>3. AskedMulti
      BY <3>1, <3>2, MultiAsked DEF WatchInv
    <3>4. name' = name
      BY <1>3 DEF Engage
    <3>5. QED
      BY <1>a, <3>1, <3>2, <3>3, <3>4 DEF Handler, AskedMulti, Watched, builder
  <2>3. QED
    BY <1>b, <2>1, <2>2
<1>4. CASE DeleteNamespace
  BY <1>1, <1>4 DEF DeleteNamespace, Restrict
<1>5. CASE Informers
  BY <1>1, <1>5 DEF Informers, Sync, Handle
<1>6. CASE UNCHANGED inbox
  BY <1>1, <1>6
<1>7. QED
  <2>1. CASE UNCHANGED vars
    BY <1>6, <2>1 DEF vars
  <2>2. CASE BuildController \/ AddNamespace \/ ForgetNamespace \/ Worker
    BY <1>6, <2>2 DEF BuildController, AddNamespace, ForgetNamespace, Worker, Take, GetCluster, Read
  <2>3. CASE Users
    BY <1>6, <2>3 DEF Users, Call, CreateNamespace, RemoveNamespace
  <2>4. QED
    BY <1>2, <1>3, <1>4, <1>5, <2>1, <2>2, <2>3 DEF Next, Main, Provider

-----------------------------------------------------------------------------
\* A worker that was idle, or goes idle, has nothing.
LEMMA IdleKeeps ==
  ASSUME active' = Idle
  PROVE  ActiveInv'
BY DEF ActiveInv, Idle

\* Every step keeps the queue and the worker.
LEMMA RequestStep ==
  ASSUME WatchInv, [Next]_vars
  PROVE  QueueInv' /\ ActiveInv'
<1>a. prog' = prog /\ QueueInv /\ ActiveInv
  BY ProviderStep DEF WatchInv, RequestInv
<1>b. \A r : Asked(r)' <=> Asked(r)
  BY <1>a DEF Asked, AskedLocal, AskedMulti, Watched, builder
<1>1. ASSUME queue' = queue PROVE QueueInv'
  BY <1>a, <1>b, <1>1 DEF QueueInv, Range
<1>2. ASSUME active' = active PROVE ActiveInv'
  BY <1>a, <1>b, <1>2, NamesStay DEF ActiveInv
<1>3. ASSUME NEW h \in DOMAIN inbox, Handle(h) PROVE QueueInv' /\ ActiveInv'
  <2>1. ActiveInv'
    BY <1>2, <1>3 DEF Handle, workVars
  <2>2. Asked(RequestOf(h, Head(inbox[h])))
    <3>1. Handler(h) /\ name \in Seq(Namespace)
      BY DEF WatchInv, RequestInv, ProviderInv
    <3>2. h[2] # None => name[h[2]] \in Namespace
      BY <3>1 DEF Handler
    <3>3. h[2] # None => name[h[2]] # LocalCluster
      BY <3>2, ProgramAssumption
    <3>4. QED
      BY <3>1, <3>2, <3>3 DEF Handler, RequestOf, ClusterOf, Asked
  <2>3. CASE Enqueue(RequestOf(h, Head(inbox[h])))
    BY <1>a, <2>1, <2>2, <2>3, EnqueueKeeps
  <2>4. CASE UNCHANGED queue
    BY <1>1, <2>1, <2>4
  <2>5. QED
    BY <1>3, <2>3, <2>4 DEF Handle
<1>4. CASE Take
  <2>1. QueueInv' /\ Asked(Head(queue))
    BY <1>a, <1>4, TailKeeps DEF Take
  <2>2. active' = [at |-> "get", request |-> Head(queue), instance |-> None]
    BY <1>4 DEF Take
  <2>3. QED
    BY <1>b, <2>1, <2>2 DEF ActiveInv
<1>5. ASSUME active.at # "idle", Retry PROVE QueueInv' /\ ActiveInv'
  BY <1>a, <1>5, IdleKeeps, EnqueueKeeps DEF Retry, ActiveInv
<1>6. CASE GetCluster
  <2> DEFINE c == active.request.cluster
             i == IF c = LocalCluster THEN None ELSE clusters[c]
  <2>0. active.at = "get"
    BY <1>6 DEF GetCluster
  <2>1. CASE active' = Idle /\ UNCHANGED queue
    BY <1>1, <2>1, IdleKeeps
  <2>2. CASE Retry
    BY <1>5, <2>0, <2>2
  <2>3. CASE /\ c = LocalCluster \/ i # None
             /\ active' = [active EXCEPT !.at = "read", !.instance = i] /\ UNCHANGED queue
    <3>1. active' = [at |-> "read", request |-> active.request, instance |-> i]
      BY <1>a, <2>3 DEF ActiveInv
    <3>2. Asked(active.request)
      BY <1>a, <2>0 DEF ActiveInv
    <3>3. c # LocalCluster => clusters[c] \in DOMAIN name /\ name[clusters[c]] = c
      BY <2>3, <3>2 DEF Asked, WatchInv, ProviderInv
    <3>4. name' = name
      BY <1>6 DEF GetCluster, providerVars
    <3>5. ActiveInv'
      BY <1>b, <3>1, <3>2, <3>3, <3>4 DEF ActiveInv
    <3>6. QED
      BY <1>1, <2>3, <3>5
  <2>4. QED
    BY <1>6, <2>1, <2>2, <2>3 DEF GetCluster
<1>7. CASE Read
  <2>1. CASE active' = Idle /\ UNCHANGED queue
    BY <1>1, <2>1, IdleKeeps
  <2>2. CASE Retry
    BY <1>5, <1>7, <2>2 DEF Read
  <2>3. QED
    BY <1>7, <2>1, <2>2 DEF Read
<1>8. CASE UNCHANGED <<queue, active>>
  BY <1>1, <1>2, <1>8
<1>9. QED
  <2>1. CASE UNCHANGED vars
    BY <1>8, <2>1 DEF vars, workVars
  <2>2. CASE Main \/ Provider
    BY <1>8, <2>2 DEF Main, Provider, BuildController, StartManager, AddNamespace, Engage,
       DeleteNamespace, ForgetNamespace, workVars
  <2>3. CASE \E c \in Cache, n \in Namespace : Sync(c, n)
    BY <1>8, <2>3 DEF Sync, workVars
  <2>4. CASE Users
    BY <1>8, <2>4 DEF Users, Call, CreateNamespace, RemoveNamespace, workVars
  <2>5. QED
    BY <1>3, <1>4, <1>6, <1>7, <2>1, <2>2, <2>3, <2>4 DEF Next, Informers, Worker

-----------------------------------------------------------------------------
\* Steps keep the clusters apart as long as the clients rewrite every namespace.
LEMMA ApartStep ==
  ASSUME Callable \cap PassedOn = {}, ProgramInv, [Next]_vars
  PROVE  ApartInv'
<1>a. /\ DOMAIN store = Namespace /\ DOMAIN seen = Request
      /\ DOMAIN cache = Cache /\ DOMAIN cache["shared"] = Namespace
      /\ \A n \in Namespace : store[n].by \in {n, LocalCluster}
      /\ \A n \in Namespace : cache["shared"][n].by \in {n, LocalCluster}
      /\ \A r \in Request : r.cluster # LocalCluster => seen[r].by \in {r.cluster, LocalCluster}
  BY DEF ProgramInv, ApartInv, TenantsApart
<1>b. Absent.by = LocalCluster
  BY DEF Absent
<1>c. name \in Seq(Namespace)
  BY DEF ProgramInv, WatchInv, ProviderInv
<1>1. CASE UNCHANGED <<store, cache, seen>>
  BY <1>a, <1>1 DEF ApartInv, TenantsApart
<1>2. ASSUME NEW c \in Cache, NEW n \in Namespace, Sync(c, n) PROVE ApartInv'
  <2>1. cache' = [cache EXCEPT ![c][n] = store[n]] /\ UNCHANGED <<store, seen>>
    BY <1>2 DEF Sync, apiVars, workVars
  <2>2. DOMAIN cache' = Cache /\ DOMAIN cache'["shared"] = Namespace
    BY <1>a, <2>1 DEF Cache
  <2>3. \A m \in Namespace : cache'["shared"][m] \in {cache["shared"][m], store[m]}
    BY <1>a, <2>1 DEF Cache
  <2>4. QED
    BY <1>a, <2>1, <2>2, <2>3 DEF ApartInv, TenantsApart
<1>3. CASE Read
  <2> DEFINE r == active.request
             i == active.instance
  <2>1. UNCHANGED <<store, cache>> /\ active.at = "read"
    BY <1>3 DEF Read, apiVars
  <2>2. CASE UNCHANGED seen
    BY <1>1, <2>1, <2>2
  <2>3. CASE seen' = [seen EXCEPT ![r] = ReadBy(i, r.namespace)]
    <3>1. r.cluster # LocalCluster => i \in DOMAIN name /\ name[i] = r.cluster
      BY <2>1 DEF ProgramInv, WatchInv, RequestInv, ActiveInv
    <3>2. r.cluster # LocalCluster => r.cluster \in Namespace /\ i # None
      BY <1>c, <3>1 DEF None
    <3>3. r.cluster # LocalCluster => ReadBy(i, r.namespace) = cache["shared"][r.cluster]
      BY <3>1, <3>2 DEF ReadBy, Target, Rewriting, Reads
    <3>4. r.cluster # LocalCluster => ReadBy(i, r.namespace).by \in {r.cluster, LocalCluster}
      BY <1>a, <3>2, <3>3
    <3>5. DOMAIN seen' = Request /\ \A q \in Request : seen'[q] = IF q = r THEN ReadBy(i, r.namespace) ELSE seen[q]
      BY <1>a, <2>3
    <3> HIDE DEF r, i
    <3>6. QED
      BY <1>a, <2>1, <3>4, <3>5 DEF ApartInv, TenantsApart
  <2>4. QED
    BY <1>3, <2>2, <2>3 DEF Read
<1>4. ASSUME NEW i \in DOMAIN name, NEW op \in Callable, NEW ns \in Namespace, Call(i, op, ns)
      PROVE  ApartInv'
  <2>1. name[i] \in Namespace
    BY <1>c
  <2>2. Target(name[i], op, ns) = name[i]
    BY ProgramAssumption DEF Target, Operation
  <2>3. PICK o : store' = [store EXCEPT ![name[i]] = o] /\ o \in {Absent, Written(name[i])}
    BY <1>4, <2>2 DEF Call
  <2>4. o.by \in {name[i], LocalCluster}
    BY <1>b, <2>3 DEF Written
  <2>5. UNCHANGED <<cache, seen>>
    BY <1>4 DEF Call, workVars
  <2>6. QED
    BY <1>a, <2>1, <2>3, <2>4, <2>5 DEF ApartInv, TenantsApart
<1>5. ASSUME NEW n \in Namespace, RemoveNamespace(n) PROVE ApartInv'
  BY <1>a, <1>b, <1>5 DEF RemoveNamespace, workVars, ApartInv, TenantsApart
<1>6. QED
  <2>1. CASE UNCHANGED vars
    BY <1>1, <2>1 DEF vars, apiVars, workVars
  <2>2. CASE Main \/ Provider
    BY <1>1, <2>2 DEF Main, Provider, BuildController, StartManager, AddNamespace, Engage,
       DeleteNamespace, ForgetNamespace, workVars, apiVars
  <2>3. CASE (\E h \in DOMAIN inbox : Handle(h)) \/ Take \/ GetCluster
    BY <1>1, <2>3 DEF Handle, Take, GetCluster, workVars, apiVars
  <2>4. ASSUME NEW n \in Namespace, CreateNamespace(n) PROVE ApartInv'
    BY <1>1, <2>4 DEF CreateNamespace, workVars
  <2>5. QED
    BY <1>2, <1>3, <1>4, <1>5, <2>1, <2>2, <2>3, <2>4 DEF Next, Informers, Worker, Users

LEMMA ProgramInit ==
  ASSUME Init
  PROVE  ProgramInv
<1>1. ProviderInv
  BY DEF Init, ProviderInv, None, Resting
<1>2. QueueInv /\ DOMAIN inbox = {}
  BY DEF Init, QueueInv, Range
<1>3. ActiveInv
  BY DEF Init, ActiveInv, Idle
<1>4. ApartInv
  BY DEF Init, ApartInv, TenantsApart, Absent, Unseen, Cache
<1>5. QED
  BY <1>1, <1>2, <1>3, <1>4 DEF Init, ProgramInv, WatchInv, RequestInv

\* For any number of namespaces, programs and users: what a namespace holds, what the
\* shared cache shows of it and what a reconciliation of its cluster reads was written
\* by that cluster, provided the clients' users call only operations that rewrite the
\* namespace, so neither Apply nor DeleteAllOf (namespace/client.go:43-129).
THEOREM ClustersApart ==
  ASSUME Callable \cap PassedOn = {}
  PROVE  Spec => []TenantsApart
<1>1. Init => ProgramInv
  BY ProgramInit
<1>2. ProgramInv /\ [Next]_vars => ProgramInv'
  <2>1. SUFFICES ASSUME ProgramInv, [Next]_vars PROVE ProgramInv'
    OBVIOUS
  <2>2. QED
    BY <2>1, ProviderStep, HandlersAsked, RequestStep, ApartStep DEF ProgramInv, WatchInv, RequestInv
<1>3. ProgramInv => TenantsApart
  BY DEF ProgramInv, ApartInv
<1>4. QED
  BY <1>1, <1>2, <1>3, PTL DEF Spec

\* For any programs: whatever events informers have, namespaces come and go, and requests
\* are merged and retried, the queue holds only requests from clusters that some input of
\* the builder asks for (builder/multicluster_options.go:46-88).
THEOREM RequestsWhereAsked == Spec => []OnlyWhereAsked
<1>1. Init => WatchInv
  BY ProgramInit DEF ProgramInv, WatchInv
<1>2. WatchInv /\ [Next]_vars => WatchInv'
  <2>1. SUFFICES ASSUME WatchInv, [Next]_vars PROVE WatchInv'
    OBVIOUS
  <2>2. QED
    BY <2>1, ProviderStep, HandlersAsked, RequestStep DEF WatchInv, RequestInv
<1>3. WatchInv => OnlyWhereAsked
  <2>1. SUFFICES ASSUME WatchInv, NEW r \in Requests PROVE Asked(r)
    BY DEF OnlyWhereAsked, Asked, AskedLocal, AskedMulti
  <2>2. CASE r \in Range(queue)
    BY <2>1, <2>2 DEF WatchInv, RequestInv, QueueInv, Range
  <2>3. CASE active # Idle /\ r = active.request
    BY <2>1, <2>3 DEF WatchInv, RequestInv, ActiveInv
  <2>4. QED
    BY <2>2, <2>3 DEF Requests
<1>4. QED
  BY <1>1, <1>2, <1>3, PTL DEF Spec
=============================================================================
