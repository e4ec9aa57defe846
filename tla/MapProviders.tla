---------------------------- MODULE MapProviders ----------------------------
(***************************************************************************)
(* The providers that keep their clusters in a clusters.Clusters: the file *)
(* provider (providers/file) and the clusters provider                     *)
(* (providers/clusters), next to callers that use the map directly.  Each  *)
(* behaviour has one of them, chosen by Init.  One cluster name is         *)
(* followed: for the file provider one context of one kubeconfig file.     *)
(* The context of Start stays live.  To bound the state, only the direct   *)
(* callers index fields and call Remove; that the map stands them beside   *)
(* any call of AddOrReplace is what their behaviours show.                 *)
(***************************************************************************)
EXTENDS Clusters, Sequences

CONSTANTS
  Direct,       \* the clusters direct callers add
  ChannelSize,  \* InputChannelSize of the clusters provider
  MaxChanges    \* bound on changes of the kubeconfig file

ASSUME MapAssumption == Direct \subseteq Cl /\ ChannelSize \in Nat \ {0} /\ MaxChanges \in Nat

VARIABLES
  provider,  \* the kind of provider: "direct", "file" or "clusters"
  at,        \* where the goroutine of Start is
  current,   \* the cluster it was given or has loaded
  file,      \* the kubeconfig: a configuration, or one of Unloadable
  last,      \* the content the last load found
  known,     \* the name was in the map when run asked for ClusterNames
  watching,  \* fsnotify watches the directory
  events,    \* fsnotify events not yet received
  missed,    \* the file changed after the first load and before the watch
  changes,   \* changes of the file so far
  waiting,   \* p.waiting, a map by name
  input,     \* p.input
  sender     \* the cluster Add sends on p.input, holding p.lock

fileVars == <<file, last, known, watching, events, missed, changes>>
addVars == <<waiting, input, sender>>
mapVars == <<provider, at, current, fileVars, addVars, vars>>

\* No such file or context; a file or context that cannot be read; a file os.Stat
\* fails on for another reason than that it does not exist.
Unloadable == {"absent", "broken", "hidden"}
Content == {Config[cl] : cl \in Cl} \cup Unloadable

MapInit ==
  /\ Init
  /\ provider \in {"direct", "file", "clusters"}
  /\ at = "off" /\ current = None
  /\ file \in IF provider = "file" THEN Content ELSE {"absent"}
  /\ last = None /\ known = FALSE /\ watching = FALSE /\ events = 0
  /\ missed = FALSE /\ changes = 0
  /\ waiting = None /\ input = <<>> /\ sender = None

\* A step of the goroutine of Start that leaves the map alone.
Move(from, to) == at = from /\ at' = to /\ UNCHANGED <<provider, vars>>

-----------------------------------------------------------------------------
\* The file provider.

Unused(c) == {cl \in Cl : pc[cl] = "idle" /\ Config[cl] = c}
PendingLoads == events + (IF at = "load" THEN 1 ELSE 0)

\* Somebody writes, removes or breaks the file.  A configuration is written only if
\* clusters are left for the loads to come.
ChangeFile(c) ==
  /\ provider = "file" /\ c # file
  /\ changes < MaxChanges /\ changes' = changes + 1
  /\ c \in Unloadable \/ Cardinality(Unused(c)) > PendingLoads
  /\ file' = c
  /\ events' = IF watching THEN events + 1 ELSE events
  /\ missed' = (missed \/ (~watching /\ last # None))
  /\ UNCHANGED <<provider, at, current, last, known, watching, addVars, vars>>

StartFile ==
  /\ provider = "file" /\ Move("off", "load")
  /\ UNCHANGED <<current, fileVars, addVars>>

\* loadClusters.  collectPaths fails as a whole, which ends Start before the loop; a
\* file that cannot be read and a cluster that cannot be made are skipped.
LoadFails == file = "hidden"

Load ==
  /\ last' = file
  /\ \/ /\ LoadFails
        /\ Move("load", IF watching THEN "select" ELSE "failed")
        /\ current' = None
     \/ /\ ~LoadFails /\ file \in Unloadable
        /\ Move("load", "names")
        /\ current' = None
     \/ \E cl \in Unused(file) : Move("load", "names") /\ current' = cl
     \/ /\ file \notin Unloadable /\ Fault
        /\ at = "load" /\ at' = "names" /\ current' = None
        /\ UNCHANGED <<provider, stored, pc, running, returned, cancelled, indexers, applied,
                       todo, removes>>
  /\ UNCHANGED <<file, known, watching, events, missed, changes, addVars>>

Names ==
  /\ Move("names", IF current = None THEN "prune" ELSE "call")
  /\ known' = (stored # None)
  /\ UNCHANGED <<current, file, last, watching, events, missed, changes, addVars>>

\* The clusters that were known and are not loaded are removed; the mutation keeps them.
PrunesNothing == FALSE
Gone == known /\ current = None

Prune ==
  /\ at = "prune" /\ at' = IF watching THEN "select" ELSE "watch"
  /\ IF Gone THEN Remove ELSE UNCHANGED <<stored, cancelled>>
  /\ UNCHANGED <<provider, current, fileVars, addVars, pc, running, returned, indexers, applied,
                 todo, removes, faults>>

\* The watcher is made after the first run.
Watch ==
  /\ Move("watch", "select")
  /\ watching' = TRUE
  /\ UNCHANGED <<current, file, last, known, events, missed, changes, addVars>>

FileEvent ==
  /\ events > 0 /\ Move("select", "load")
  /\ events' = events - 1
  /\ UNCHANGED <<current, file, last, known, watching, missed, changes, addVars>>

-----------------------------------------------------------------------------
\* The clusters provider.

Queued == {waiting, sender} \cup {input[i] : i \in DOMAIN input}

\* Add, under p.lock: before Start the cluster waits, then it is sent.
Add(cl) ==
  /\ provider = "clusters" /\ sender = None
  /\ pc[cl] = "idle" /\ cl \notin Queued \cup {current}
  /\ IF at = "off" THEN waiting' = cl /\ UNCHANGED sender
                   ELSE sender' = cl /\ UNCHANGED waiting
  /\ UNCHANGED <<provider, at, current, fileVars, input, vars>>

Send ==
  /\ sender # None /\ Len(input) < ChannelSize
  /\ input' = Append(input, sender) /\ sender' = None
  /\ UNCHANGED <<provider, at, current, fileVars, waiting, vars>>

StartOnce ==
  /\ provider = "clusters" /\ sender = None /\ Move("off", "range")
  /\ UNCHANGED <<current, fileVars, addVars>>

\* The clusters that waited are added without the lock, which is then needed to
\* forget them; the mutation forgets them at once.
SkipWaiting == None
NextWaiting == waiting

Range ==
  /\ Move("range", IF NextWaiting = None THEN "clear" ELSE "call")
  /\ current' = NextWaiting
  /\ UNCHANGED <<fileVars, addVars>>

ClearWaiting ==
  /\ sender = None /\ Move("clear", "select")
  /\ waiting' = None
  /\ UNCHANGED <<current, fileVars, input, sender>>

Receive ==
  /\ input # <<>> /\ Move("select", "call")
  /\ current' = Head(input) /\ input' = Tail(input)
  /\ UNCHANGED <<fileVars, waiting, sender>>

-----------------------------------------------------------------------------
\* Both: AddOrReplace, whose error is logged.

CallAddOrReplace ==
  /\ at = "call" /\ at' = "adding"
  /\ Call(current)
  /\ UNCHANGED <<provider, current, fileVars, addVars>>

Added ==
  /\ at = "adding" /\ pc[current] \in {"done", "kept", "failed"}
  /\ Move("adding", IF provider = "file" THEN "prune"
                    ELSE IF waiting # None THEN "clear" ELSE "select")
  /\ UNCHANGED <<current, fileVars, addVars>>

\* What the map's own goroutines and its other callers do.
MapStep ==
  \/ \E cl \in Cl : AddStep(cl) \/ StartReturns(cl) \/ GoroutineEnds(cl)
  \/ /\ provider = "direct"
     /\ \/ CallRemove
        \/ \E cl \in Direct : Call(cl)
        \/ \E f \in Field : IndexField(f) \/ \E cl \in Cl : IndexClone(f, cl)

StartStep ==
  \/ Load \/ Names \/ Prune \/ Watch \/ FileEvent
  \/ Range \/ ClearWaiting \/ Receive
  \/ CallAddOrReplace \/ Added

MapNext ==
  \/ MapStep /\ UNCHANGED <<provider, at, current, fileVars, addVars>>
  \/ StartStep
  \/ StartFile \/ StartOnce \/ Send
  \/ \E c \in Content : ChangeFile(c)
  \/ \E cl \in Cl : Add(cl)

MapSpec == MapInit /\ [][MapNext]_mapVars

\* Start goes on once it is called, senders are served, and so are calls of the map.
MapFairness ==
  /\ WF_mapVars(StartStep) /\ WF_mapVars(Send)
  /\ \A cl \in Cl :
       WF_mapVars((AddStep(cl) \/ GoroutineEnds(cl) \/ (cl \in cancelled /\ StartReturns(cl)))
                    /\ UNCHANGED <<provider, at, current, fileVars, addVars>>)

MapFairSpec == MapSpec /\ MapFairness

-----------------------------------------------------------------------------
\* Properties.

\* Every change that fsnotify saw is acted on: when the last change is made, some load
\* still finds it, and if it leaves no cluster the name leaves the map for good.  Not
\* seen is a change between the first load and the watch (file/provider.go:143-165),
\* and a load that fails as a whole removes nothing (file/provider.go:167-222,
\* clusters.go:33-56).  Changes of the file are finitely many.
FollowsFile ==
  <>[](\/ provider # "file" \/ missed \/ at \in {"off", "failed"}
       \/ last = file /\ (file \in {"absent", "broken"} => stored = None))

\* Start waits for p.lock with clusters still to forget, while Add holds it and waits
\* for room in a channel that only Start empties.
Wedged == at = "clear" /\ sender # None /\ Len(input) = ChannelSize

\* No cluster given to Add is lost: once Start was called it is passed to AddOrReplace,
\* unless another one of its name took its place while it waited, or Start and Add
\* wait for each other for good (clusters/provider.go:84-109,117-129).
AddedIsTried ==
  \A cl \in Cl :
    (provider = "clusters" /\ at # "off" /\ cl \in Queued) ~> (pc[cl] # "idle" \/ Wedged)
=============================================================================
