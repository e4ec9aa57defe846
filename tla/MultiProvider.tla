---------------------------- MODULE MultiProvider ----------------------------
(***************************************************************************)
(* The multi provider (providers/multi): a provider of providers.  Callers *)
(* add and remove providers by name and index fields at any time; Start    *)
(* makes a channel of names, starts the providers it finds, and then those *)
(* whose names arrive on the channel, each in a goroutine of its own that  *)
(* removes the provider, by name, when the provider's Start returns.       *)
(*                                                                         *)
(* p.lock is a RWMutex.  Every critical section is one step, except that   *)
(* of AddProvider, which sends on the bounded channel while it holds the   *)
(* lock.                                                                   *)
(***************************************************************************)
EXTENDS Naturals, Sequences, FiniteSets

CONSTANTS
  Name,         \* names of providers
  Passive,      \* names whose providers are not runnable
  Field,        \* fields that are indexed
  ChannelSize,  \* opts.ChannelSize
  MaxAdds,      \* bound on calls of AddProvider; each brings a provider of its own
  MaxRemoves,   \* bound on calls of RemoveProvider
  MaxReturns,   \* bound on providers whose Start returns by itself
  None          \* no name

ASSUME MultiAssumption ==
  /\ Passive \subseteq Name /\ None \notin Name
  /\ ChannelSize \in Nat \ {0}
  /\ {MaxAdds, MaxRemoves, MaxReturns} \subseteq Nat

VARIABLES
  started,   \* the channel exists
  channel,   \* p.providerNameCh
  todo,      \* names that start has collected and not yet started
  pc,        \* where the goroutine of start is
  name,      \* the name startProvider is called with
  found,     \* the provider startProvider has looked up
  providers, \* p.providers: the number of the provider added under a name, or 0
  sender,    \* the name AddProvider sends, holding the lock
  indexers,  \* p.indexers
  applied,   \* the fields each provider was told to index
  cancels,   \* p.providersCancel: the run whose cancel function it holds, or 0
  runs,      \* goroutines started: provider, name and state
  alive,     \* runs whose context is not cancelled
  down,      \* the context of Start is done
  adds, removes, returns, \* calls so far
  dropped    \* names that were removed or whose provider returned, ever

loopVars == <<todo, pc, name, found>>
runVars == <<cancels, runs, alive, down>>
boundVars == <<adds, removes, returns, dropped>>
vars == <<started, channel, loopVars, providers, sender, indexers, applied, runVars, boundVars>>

Provider == 1 .. MaxAdds

Init ==
  /\ started = FALSE /\ channel = <<>>
  /\ todo = {} /\ pc = "off" /\ name = None /\ found = 0
  /\ providers = [n \in Name |-> 0] /\ sender = None
  /\ indexers = {} /\ applied = [p \in Provider |-> {}]
  /\ cancels = [n \in Name |-> 0] /\ runs = <<>> /\ alive = {} /\ down = FALSE
  /\ adds = 0 /\ removes = 0 /\ returns = 0 /\ dropped = {}

LockFree == sender = None

-----------------------------------------------------------------------------
\* Callers.

\* AddProvider refuses a name in use.  The name is sent before the lock is
\* released; without a channel there is nothing to send.
AddProvider(n) ==
  /\ LockFree /\ providers[n] = 0
  /\ adds < MaxAdds /\ adds' = adds + 1
  /\ providers' = [providers EXCEPT ![n] = adds + 1]
  /\ sender' = IF started THEN n ELSE None
  /\ UNCHANGED <<started, channel, loopVars, indexers, applied, runVars, removes, returns, dropped>>

Send ==
  /\ sender # None /\ Len(channel) < ChannelSize
  /\ channel' = Append(channel, sender) /\ sender' = None
  /\ UNCHANGED <<started, loopVars, providers, indexers, applied, runVars, boundVars>>

\* RemoveProvider cancels the run registered under the name, if any, and
\* forgets the name, whichever provider it stands for by now.
Remove(n) ==
  /\ LockFree
  /\ alive' = alive \ {cancels[n]}
  /\ cancels' = [cancels EXCEPT ![n] = 0]
  /\ providers' = [providers EXCEPT ![n] = 0]
  /\ dropped' = dropped \cup {n}

RemoveProvider(n) ==
  /\ removes < MaxRemoves /\ removes' = removes + 1
  /\ Remove(n)
  /\ UNCHANGED <<started, channel, loopVars, sender, indexers, applied, runs, down, adds, returns>>

\* IndexField saves the index and, once the provider runs, applies it to every
\* provider registered.
OnlyRunning == {runs[r].provider : r \in alive}
IndexTargets == IF started THEN {providers[n] : n \in Name} \ {0} ELSE {}

IndexField(f) ==
  /\ LockFree /\ f \notin indexers
  /\ indexers' = indexers \cup {f}
  /\ applied' = [p \in Provider |-> applied[p] \cup (IF p \in IndexTargets THEN {f} ELSE {})]
  /\ UNCHANGED <<started, channel, loopVars, providers, sender, runVars, boundVars>>

-----------------------------------------------------------------------------
\* The goroutine of Start.

NoneCollected == {}
Collected == {n \in Name : providers[n] # 0}
Start ==
  /\ ~started /\ LockFree
  /\ started' = TRUE
  /\ todo' = Collected
  /\ pc' = "loop"
  /\ UNCHANGED <<channel, name, found, providers, sender, indexers, applied, runVars, boundVars>>

\* The names collected first, then what the channel brings.
NextName ==
  /\ pc = "loop" /\ pc' = "lookup"
  /\ \/ \E n \in todo : name' = n /\ todo' = todo \ {n} /\ UNCHANGED channel
     \/ /\ todo = {} /\ channel # <<>>
        /\ name' = Head(channel) /\ channel' = Tail(channel) /\ UNCHANGED todo
  /\ UNCHANGED <<started, found, providers, sender, indexers, applied, runVars, boundVars>>

Missing == providers[name] = 0

\* startProvider, first critical section: look the provider up.
Lookup ==
  /\ pc = "lookup" /\ LockFree
  /\ found' = providers[name]
  /\ pc' = IF Missing THEN "loop" ELSE "index"
  /\ UNCHANGED <<started, channel, todo, name, providers, sender, indexers, applied, runVars, boundVars>>

\* Second: apply the indexes known so far; only runnable providers go on.
Index ==
  /\ pc = "index" /\ LockFree
  /\ applied' = [applied EXCEPT ![found] = @ \cup indexers]
  /\ pc' = IF name \in Passive THEN "loop" ELSE "register"
  /\ UNCHANGED <<started, channel, todo, name, found, providers, sender, indexers, runVars, boundVars>>

\* Third: register the cancel function and start the goroutine, unless the
\* name has one already.
NotChecked == FALSE
AlreadyStarted == cancels[name] # 0
Register ==
  /\ pc = "register" /\ LockFree /\ pc' = "loop"
  /\ IF AlreadyStarted THEN UNCHANGED runVars
     ELSE LET r == Len(runs) + 1 IN
          /\ runs' = Append(runs, [provider |-> found, name |-> name, state |-> "running"])
          /\ alive' = IF down THEN alive ELSE alive \cup {r}
          /\ cancels' = [cancels EXCEPT ![name] = r]
          /\ UNCHANGED down
  /\ UNCHANGED <<started, channel, todo, name, found, providers, sender, indexers, applied, boundVars>>

\* A provider's Start returns, because its context is cancelled or by itself.
Returns(r) ==
  /\ runs[r].state = "running"
  /\ \/ r \notin alive /\ UNCHANGED returns
     \/ r \in alive /\ returns < MaxReturns /\ returns' = returns + 1
  /\ runs' = [runs EXCEPT ![r].state = "returned"]
  /\ UNCHANGED <<started, channel, loopVars, providers, sender, indexers, applied, cancels, alive,
                 down, adds, removes, dropped>>

\* ... and its goroutine's deferred RemoveProvider runs.
DeferredRemove(r) ==
  /\ runs[r].state = "returned"
  /\ Remove(runs[r].name)
  /\ runs' = [runs EXCEPT ![r].state = "done"]
  /\ UNCHANGED <<started, channel, loopVars, sender, indexers, applied, down, adds, removes, returns>>

\* The context of Start is done: so are those of all runs, and the loop ends when
\* its select picks that case.
Shutdown ==
  /\ started /\ ~down /\ down' = TRUE /\ alive' = {}
  /\ UNCHANGED <<started, channel, loopVars, providers, sender, indexers, applied, cancels, runs,
                 boundVars>>
LoopEnds ==
  /\ pc = "loop" /\ todo = {} /\ down /\ pc' = "off"
  /\ UNCHANGED <<started, channel, todo, name, found, providers, sender, indexers, applied, runVars,
                 boundVars>>

Loop == NextName \/ Lookup \/ Index \/ Register \/ LoopEnds
Goroutine(r) == Returns(r) \/ DeferredRemove(r)

Next ==
  \/ \E n \in Name : AddProvider(n) \/ RemoveProvider(n)
  \/ \E f \in Field : IndexField(f)
  \/ Send \/ Start \/ Loop \/ Shutdown
  \/ \E r \in DOMAIN runs : Goroutine(r)

Spec == Init /\ [][Next]_vars

\* Goroutines run on: the one of Start once it is called, a sender that finds
\* room, a provider whose context is cancelled.
FairSpec ==
  /\ Spec /\ WF_vars(Send) /\ WF_vars(Loop)
  /\ WF_vars(\E r \in DOMAIN runs :
                (r \notin alive \/ runs[r].state = "returned") /\ Goroutine(r))

-----------------------------------------------------------------------------
\* Properties.

\* Shapes of the state: the channel keeps its capacity, and only providers that were
\* added are looked up, run or cancelled.
TypeOK ==
  /\ started \in BOOLEAN /\ down \in BOOLEAN
  /\ channel \in Seq(Name) /\ Len(channel) <= ChannelSize
  /\ todo \subseteq Name /\ pc \in {"off", "loop", "lookup", "index", "register"}
  /\ name \in Name \cup {None} /\ found \in 0 .. adds
  /\ providers \in [Name -> 0 .. adds] /\ sender \in Name \cup {None}
  /\ indexers \subseteq Field /\ applied \in [Provider -> SUBSET Field]
  /\ runs \in Seq([provider : Provider, name : Name, state : {"running", "returned", "done"}])
  /\ cancels \in [Name -> 0 .. Len(runs)] /\ alive \subseteq DOMAIN runs
  /\ adds \in 0 .. MaxAdds /\ removes \in 0 .. MaxRemoves /\ returns \in 0 .. MaxReturns
  /\ dropped \subseteq Name

\* RemoveProvider can reach every run: a run whose context is live is the one whose
\* cancel function is registered under its name, so no name ever has two of them
\* (the failsafe of provider.go:170-178), however adds, removals and starts of the
\* same name overlap.
RunIsCancellable == \A r \in alive : cancels[runs[r].name] = r

\* No index is lost: a provider that was started and is still the one registered was
\* told to index every field, by startProvider or by IndexField (provider.go:147-153,
\* 298-305), although neither holds the lock while the other runs.
StartedIsIndexed ==
  \A r \in DOMAIN runs :
    providers[runs[r].name] = runs[r].provider => indexers \subseteq applied[runs[r].provider]

\* "It runs all providers that implement multicluster.ProviderRunnable, even those
\* added after Start() has been called" (provider.go:104-106): a provider registered
\* under a name that is never removed and whose provider never returns is run.
AddedIsRun ==
  \A n \in Name \ Passive : \A p \in Provider :
    (started /\ providers[n] = p) ~>
      (n \in dropped \/ down \/ \E r \in DOMAIN runs : runs[r].provider = p)
=============================================================================
