------------------------ MODULE MultiProviderProofs ------------------------
(***************************************************************************)
(* Proofs about MultiProvider, for any names, fields, channel size and     *)
(* number of calls: types, that every run can be cancelled, and that no    *)
(* index is lost.                                                          *)
(***************************************************************************)
EXTENDS MultiProvider, TLAPS

\* The disjuncts of Next, flat.
LEMMA NextCases ==
  ASSUME Next
  PROVE  \/ \E n \in Name : AddProvider(n) \/ RemoveProvider(n)
         \/ \E f \in Field : IndexField(f)
         \/ Send \/ Start \/ NextName \/ Lookup \/ Index \/ Register \/ LoopEnds \/ Shutdown
         \/ \E r \in DOMAIN runs : Returns(r) \/ DeferredRemove(r)
BY Zenon DEF Next, Loop, Goroutine

\* What the type invariant rests on: the loop works on a name, from the lookup on with
\* a provider that was added, and nothing runs before Start.
Working ==
  /\ pc # "off" => started
  /\ pc \in {"lookup", "index", "register"} => name \in Name
  /\ pc \in {"index", "register"} => found # 0
  /\ runs # <<>> => started

TypeInv == TypeOK /\ Working

Runs == [provider : Provider, name : Name, state : {"running", "returned", "done"}]

\* A run that changes its state leaves the others, their order and its name alone.
LEMMA StateChange ==
  ASSUME runs \in Seq(Runs), NEW r \in DOMAIN runs, NEW s \in {"running", "returned", "done"},
         runs' = [runs EXCEPT ![r].state = s]
  PROVE  /\ runs' \in Seq(Runs) /\ DOMAIN runs' = DOMAIN runs /\ Len(runs') = Len(runs)
         /\ runs # <<>>
         /\ \A q \in DOMAIN runs : /\ runs'[q].name = runs[q].name
                                   /\ runs'[q].provider = runs[q].provider
<1>1. \A q \in DOMAIN runs : runs[q] \in Runs
  OBVIOUS
<1>2. \A q \in DOMAIN runs : runs'[q] \in Runs
  BY <1>1, Zenon DEF Runs
<1>3. DOMAIN runs' = DOMAIN runs /\ DOMAIN runs = 1 .. Len(runs) /\ Len(runs) \in Nat
  OBVIOUS
<1>4. runs' \in Seq(Runs) /\ Len(runs') = Len(runs)
  BY <1>2, <1>3
<1>5. QED
  BY <1>1, <1>3, <1>4 DEF Runs

\* What the type invariant says of the runs.
LEMMA RunsTyped ==
  ASSUME TypeInv
  PROVE  /\ Len(runs) \in Nat /\ runs \in Seq(Runs) /\ DOMAIN runs = 1 .. Len(runs)
         /\ alive \subseteq DOMAIN runs /\ cancels \in [Name -> 0 .. Len(runs)]
         /\ \A r \in DOMAIN runs : /\ runs[r] \in Runs
                                   /\ runs[r].name \in Name /\ runs[r].provider \in Provider
<1>1. /\ runs \in Seq(Runs) /\ alive \subseteq DOMAIN runs /\ cancels \in [Name -> 0 .. Len(runs)]
  BY Zenon DEF TypeInv, TypeOK, Runs
<1>2. Len(runs) \in Nat /\ DOMAIN runs = 1 .. Len(runs) /\ \A r \in DOMAIN runs : runs[r] \in Runs
  BY <1>1
<1>3. QED
  BY <1>1, <1>2, Zenon DEF Runs

LEMMA TypeStep ==
  ASSUME TypeInv, [Next]_vars
  PROVE  TypeInv'
<1>a. /\ Len(runs) \in Nat /\ 0 \in 0 .. Len(runs) /\ runs \in Seq(Runs)
      /\ DOMAIN runs = 1 .. Len(runs)
  BY RunsTyped
<1>b. adds \in Nat /\ 0 \in 0 .. adds /\ MaxReturns \in Nat /\ returns \in Nat
  BY MultiAssumption DEF TypeInv, TypeOK
<1>0. /\ Len(runs) \in Nat /\ adds \in Nat /\ 0 \in 0 .. Len(runs) /\ 0 \in 0 .. adds
      /\ MaxReturns \in Nat /\ returns \in Nat /\ runs \in Seq(Runs)
      /\ DOMAIN runs = 1 .. Len(runs)
  BY <1>a, <1>b, Zenon
<1> USE MultiAssumption DEF TypeInv, TypeOK, Working, Provider
<1>1. CASE UNCHANGED vars
  BY <1>1, Zenon DEF vars, loopVars, runVars, boundVars
<1>2. ASSUME NEW n \in Name, AddProvider(n) PROVE TypeInv'
  <2>1. adds' \in 0 .. MaxAdds /\ adds' = adds + 1
    BY <1>2 DEF AddProvider
  <2>2. providers' \in [Name -> 0 .. adds'] /\ found' \in 0 .. adds'
    BY <1>2, <2>1 DEF AddProvider, loopVars
  <2>3. QED
    BY <1>2, <2>1, <2>2, Zenon DEF AddProvider, loopVars, runVars
<1>3. ASSUME NEW n \in Name, RemoveProvider(n) PROVE TypeInv'
  <2>1. removes' \in 0 .. MaxRemoves
    BY <1>3 DEF RemoveProvider
  <2>2. cancels' \in [Name -> 0 .. Len(runs)] /\ providers' \in [Name -> 0 .. adds]
    BY <1>0, <1>3, Zenon DEF RemoveProvider, Remove
  <2>3. QED
    BY <1>3, <2>1, <2>2, Zenon DEF RemoveProvider, Remove, loopVars
<1>4. ASSUME NEW f \in Field, IndexField(f) PROVE TypeInv'
  BY <1>4, Zenon DEF IndexField, loopVars, runVars, boundVars
<1>5. CASE Send
  <2>1. channel' \in Seq(Name) /\ Len(channel') <= ChannelSize
    BY <1>5 DEF Send
  <2>2. QED
    BY <1>5, <2>1, Zenon DEF Send, loopVars, runVars, boundVars
<1>6. CASE Start
  BY <1>6, Zenon DEF Start, Collected, runVars, boundVars
<1>7. CASE NextName
  <2>1. channel' \in Seq(Name) /\ Len(channel') <= ChannelSize
    <3>1. CASE channel' = channel
      BY <3>1, Zenon
    <3>2. CASE channel # <<>> /\ channel' = Tail(channel)
      BY <3>2
    <3>3. QED
      BY <1>7, <3>1, <3>2, Zenon DEF NextName
  <2>2. name' \in Name /\ todo' \subseteq Name
    BY <1>7 DEF NextName
  <2>3. QED
    BY <1>7, <2>1, <2>2, Zenon DEF NextName, runVars, boundVars
<1>8. CASE Lookup
  BY <1>8, Zenon DEF Lookup, Missing, runVars, boundVars
<1>9. CASE Index
  BY <1>9, Zenon DEF Index, runVars, boundVars
<1>10. CASE Register
  <2>1. CASE AlreadyStarted
    BY <1>10, <2>1, Zenon DEF Register, runVars, boundVars
  <2>2. CASE ~AlreadyStarted
    <3>1. [provider |-> found, name |-> name, state |-> "running"] \in Runs
      BY <1>10 DEF Register, Runs
    <3>2. runs' \in Seq(Runs) /\ Len(runs') = Len(runs) + 1
      <4> HIDE DEF Runs, TypeInv
      <4>1. QED
        BY <1>0, <1>10, <2>2, <3>1 DEF Register
    <3>3. cancels' \in [Name -> 0 .. Len(runs')]
      <4>1. cancels \in [Name -> 0 .. Len(runs)] /\ cancels' = [cancels EXCEPT ![name] = Len(runs) + 1]
        BY <1>10, <2>2, Zenon DEF Register
      <4>2. /\ 0 .. Len(runs) \subseteq 0 .. Len(runs')
            /\ Len(runs) + 1 \in 0 .. Len(runs')
        BY <1>0, <3>2
      <4> HIDE DEF TypeInv, TypeOK
      <4>3. QED
        BY <4>1, <4>2, Zenon
    <3>5. DOMAIN runs' = 1 .. Len(runs')
      BY <3>2
    <3>6. alive' \subseteq DOMAIN runs'
      BY <1>0, <1>10, <2>2, <3>2, <3>5 DEF Register
    <3>4. QED
      BY <1>10, <2>2, <3>2, <3>3, <3>6, Zenon DEF Register, Runs, boundVars
  <2>3. QED
    BY <2>1, <2>2, Zenon
<1>11. CASE LoopEnds
  BY <1>11, Zenon DEF LoopEnds, runVars, boundVars
<1>12. CASE Shutdown
  BY <1>12, Zenon DEF Shutdown, loopVars, boundVars
<1>13. ASSUME NEW r \in DOMAIN runs, Returns(r) PROVE TypeInv'
  <2>1. runs' \in Seq(Runs) /\ DOMAIN runs' = DOMAIN runs /\ Len(runs') = Len(runs) /\ runs # <<>>
    BY <1>13, StateChange, Zenon DEF Returns, Runs
  <2>2. returns' \in 0 .. MaxReturns
    <3>1. CASE returns' = returns
      BY <3>1, Zenon
    <3>2. CASE returns < MaxReturns /\ returns' = returns + 1
      BY <1>0, <3>2
    <3>3. QED
      BY <1>13, <3>1, <3>2, Zenon DEF Returns
  <2>3. QED
    BY <1>13, <2>1, <2>2, Zenon DEF Returns, Runs, loopVars
<1>14. ASSUME NEW r \in DOMAIN runs, DeferredRemove(r) PROVE TypeInv'
  <2>1. runs' \in Seq(Runs) /\ DOMAIN runs' = DOMAIN runs /\ Len(runs') = Len(runs) /\ runs # <<>>
    BY <1>14, StateChange, Zenon DEF DeferredRemove, Runs
  <2>2. runs[r].name \in Name
    BY RunsTyped, Zenon
  <2>3. cancels' \in [Name -> 0 .. Len(runs)] /\ providers' \in [Name -> 0 .. adds]
    BY <1>0, <1>14, Zenon DEF DeferredRemove, Remove
  <2>4. QED
    BY <1>14, <2>1, <2>2, <2>3, Zenon DEF DeferredRemove, Remove, Runs, loopVars
<1>15. QED
  BY NextCases, <1>1, <1>2, <1>3, <1>4, <1>5, <1>6, <1>7, <1>8, <1>9, <1>10, <1>11, <1>12,
     <1>13, <1>14, Zenon

LEMMA TypeInit ==
  ASSUME Init
  PROVE  TypeInv
<1>1. runs \in Seq(Runs) /\ Len(runs) = 0 /\ DOMAIN runs = {} /\ cancels \in [Name -> 0 .. Len(runs)]
  BY DEF Init
<1>2. channel \in Seq(Name) /\ Len(channel) <= ChannelSize
  BY MultiAssumption DEF Init
<1>3. providers \in [Name -> 0 .. adds] /\ found \in 0 .. adds
  BY DEF Init
<1>4. adds \in 0 .. MaxAdds /\ removes \in 0 .. MaxRemoves /\ returns \in 0 .. MaxReturns
  BY MultiAssumption DEF Init
<1>5. QED
  BY <1>1, <1>2, <1>3, <1>4, Zenon DEF Init, TypeInv, TypeOK, Working, Runs

\* The providers, their runs, the channel and the loop keep their types.
THEOREM TypeCorrect == Spec => []TypeOK
<1>1. Init => TypeInv
  BY TypeInit, Zenon
<1>2. TypeInv /\ [Next]_vars => TypeInv'
  BY TypeStep, Zenon
<1>3. TypeInv => TypeOK
  BY Zenon DEF TypeInv
<1>4. QED
  BY <1>1, <1>2, <1>3, PTL DEF Spec

-----------------------------------------------------------------------------
\* RunIsCancellable is inductive: a name is registered only while it has no run, so
\* that the run of a name is never forgotten without being cancelled.
LEMMA CancellableStep ==
  ASSUME TypeInv, RunIsCancellable, [Next]_vars
  PROVE  RunIsCancellable'
<1>0. /\ Len(runs) \in Nat /\ runs \in Seq(Runs) /\ DOMAIN runs = 1 .. Len(runs)
      /\ alive \subseteq DOMAIN runs /\ cancels \in [Name -> 0 .. Len(runs)]
      /\ \A r \in DOMAIN runs : runs[r].name \in Name
  BY RunsTyped, Zenon
<1> USE DEF RunIsCancellable
<1>1. CASE UNCHANGED vars
  BY <1>1, Zenon DEF vars, runVars
<1>2. ASSUME NEW n \in Name, AddProvider(n) PROVE RunIsCancellable'
  BY <1>2, Zenon DEF AddProvider, runVars
<1>3. ASSUME NEW n \in Name, RemoveProvider(n) PROVE RunIsCancellable'
  BY <1>0, <1>3, Zenon DEF RemoveProvider, Remove
<1>4. ASSUME NEW f \in Field, IndexField(f) PROVE RunIsCancellable'
  BY <1>4, Zenon DEF IndexField, runVars
<1>5. CASE Send \/ Start \/ NextName \/ Lookup \/ Index \/ LoopEnds
  BY <1>5, Zenon DEF Send, Start, NextName, Lookup, Index, LoopEnds, runVars
<1>6. CASE Register
  <2>1. CASE AlreadyStarted
    BY <1>6, <2>1, Zenon DEF Register, runVars
  <2>2. CASE ~AlreadyStarted
    <3>1. name \in Name /\ cancels[name] = 0
      BY <1>6, <2>2, Zenon DEF Register, AlreadyStarted, TypeInv, Working
    <3>2. \A r \in alive : runs[r].name # name
      BY <1>0, <3>1
    <3>3. /\ \A r \in DOMAIN runs : runs'[r] = runs[r]
          /\ runs'[Len(runs) + 1].name = name
      BY <1>0, <1>6, <2>2 DEF Register
    <3>4. /\ cancels' = [cancels EXCEPT ![name] = Len(runs) + 1]
          /\ alive' \subseteq alive \cup {Len(runs) + 1}
      BY <1>6, <2>2, Zenon DEF Register
    <3>5. QED
      BY <1>0, <3>1, <3>2, <3>3, <3>4
  <2>3. QED
    BY <2>1, <2>2, Zenon
<1>7. CASE Shutdown
  BY <1>7, Zenon DEF Shutdown
<1>8. ASSUME NEW r \in DOMAIN runs, Returns(r) PROVE RunIsCancellable'
  BY <1>0, <1>8, StateChange, Zenon DEF Returns
<1>9. ASSUME NEW r \in DOMAIN runs, DeferredRemove(r) PROVE RunIsCancellable'
  <2>1. \A q \in DOMAIN runs : runs'[q].name = runs[q].name
    BY <1>0, <1>9, StateChange, Zenon DEF DeferredRemove
  <2>2. QED
    BY <1>0, <1>9, <2>1, Zenon DEF DeferredRemove, Remove
<1>10. QED
  BY NextCases, <1>1, <1>2, <1>3, <1>4, <1>5, <1>6, <1>7, <1>8, <1>9, Zenon

\* However adds, removals, starts and returns of the same names overlap, RemoveProvider
\* reaches every provider that runs: at most one run of a name has a live context, and
\* its cancel function is the registered one (provider.go:161-188,247-260).
THEOREM RunsCancellable == Spec => []RunIsCancellable
<1>1. Init => TypeInv /\ RunIsCancellable
  BY TypeInit, Zenon DEF Init, RunIsCancellable
<1>2. TypeInv /\ RunIsCancellable /\ [Next]_vars => TypeInv' /\ RunIsCancellable'
  BY TypeStep, CancellableStep, Zenon
<1>3. QED
  BY <1>1, <1>2, PTL DEF Spec

-----------------------------------------------------------------------------
\* The inductive strengthening: the numbers of the providers looked up and run are
\* below that of the next one added, so that an index a removed provider missed is
\* never missed by the registered one; and what startProvider has indexed, but not
\* registered, has every index already.
IndexedInv ==
  /\ \A r \in DOMAIN runs : runs[r].provider <= adds
  /\ pc = "register" /\ providers[name] = found => indexers \subseteq applied[found]
  /\ StartedIsIndexed

LEMMA IndexedStep ==
  ASSUME TypeInv, IndexedInv, [Next]_vars
  PROVE  IndexedInv'
<1>a. /\ Len(runs) \in Nat /\ runs \in Seq(Runs) /\ DOMAIN runs = 1 .. Len(runs)
      /\ \A r \in DOMAIN runs : runs[r].name \in Name /\ runs[r].provider \in Provider
  BY RunsTyped, Zenon
<1>b. /\ adds \in 0 .. MaxAdds /\ found \in 0 .. adds /\ providers \in [Name -> 0 .. adds]
      /\ applied \in [Provider -> SUBSET Field] /\ MaxAdds \in Nat
      /\ pc = "register" => name \in Name /\ found \in Provider /\ started
      /\ pc = "index" => name \in Name /\ found \in Provider /\ started
      /\ runs # <<>> => started
  <2>1. /\ adds \in 0 .. MaxAdds /\ found \in 0 .. adds /\ providers \in [Name -> 0 .. adds]
        /\ applied \in [Provider -> SUBSET Field] /\ MaxAdds \in Nat
    BY MultiAssumption, Zenon DEF TypeInv, TypeOK
  <2>2. found # 0 => found \in Provider
    BY <2>1 DEF Provider
  <2>3. QED
    BY <2>1, <2>2, Zenon DEF TypeInv, Working
<1> USE DEF IndexedInv, StartedIsIndexed
<1>1. CASE UNCHANGED vars
  BY <1>1, Zenon DEF vars, runVars, loopVars, boundVars
<1>2. ASSUME NEW n \in Name, AddProvider(n) PROVE IndexedInv'
  BY <1>a, <1>b, <1>2 DEF AddProvider, runVars, loopVars, Provider
<1>3. ASSUME NEW n \in Name, RemoveProvider(n) PROVE IndexedInv'
  BY <1>a, <1>b, <1>3 DEF RemoveProvider, Remove, loopVars, Provider
<1>4. ASSUME NEW f \in Field, IndexField(f) PROVE IndexedInv'
  <2>1. \A n \in Name : started /\ providers[n] \in Provider =>
          applied'[providers[n]] = applied[providers[n]] \cup {f}
    BY <1>4 DEF IndexField, IndexTargets, Provider
  <2>2. DOMAIN runs # {} => started
    BY <1>a, <1>b
  <2>3. QED
    BY <1>a, <1>b, <1>4, <2>1, <2>2 DEF IndexField, runVars, loopVars, boundVars
<1>5. CASE Send \/ Start \/ NextName \/ Lookup \/ LoopEnds \/ Shutdown
  BY <1>5, Zenon DEF Send, Start, NextName, Lookup, LoopEnds, Shutdown, runVars, loopVars, boundVars
<1>6. CASE Index
  BY <1>a, <1>b, <1>6, Zenon DEF Index, runVars, boundVars
<1>7. CASE Register
  <2>1. CASE AlreadyStarted
    BY <1>7, <2>1, Zenon DEF Register, runVars, boundVars
  <2>2. CASE ~AlreadyStarted
    <3>1. /\ \A r \in DOMAIN runs : runs'[r] = runs[r]
          /\ runs'[Len(runs) + 1].name = name /\ runs'[Len(runs) + 1].provider = found
          /\ DOMAIN runs' = DOMAIN runs \cup {Len(runs) + 1}
      BY <1>a, <1>7, <2>2 DEF Register
    <3>2. /\ pc = "register" /\ pc' # "register"
          /\ UNCHANGED <<providers, adds, applied, indexers>>
      BY <1>7, Zenon DEF Register, boundVars
    <3>3. \A r \in DOMAIN runs' : runs'[r].provider <= adds'
      BY <1>a, <1>b, <3>1, <3>2
    <3>4. StartedIsIndexed'
      BY <1>b, <3>1, <3>2, Zenon
    <3>5. QED
      BY <3>2, <3>3, <3>4, Zenon
  <2>3. QED
    BY <2>1, <2>2, Zenon
<1>8. ASSUME NEW r \in DOMAIN runs, Returns(r) PROVE IndexedInv'
  <2>1. /\ DOMAIN runs' = DOMAIN runs
        /\ \A q \in DOMAIN runs : runs'[q].name = runs[q].name /\ runs'[q].provider = runs[q].provider
    BY <1>a, <1>8, StateChange, Zenon DEF Returns
  <2>2. QED
    BY <1>8, <2>1 DEF Returns, loopVars
<1>9. ASSUME NEW r \in DOMAIN runs, DeferredRemove(r) PROVE IndexedInv'
  <2>1. /\ DOMAIN runs' = DOMAIN runs
        /\ \A q \in DOMAIN runs : runs'[q].name = runs[q].name /\ runs'[q].provider = runs[q].provider
    BY <1>a, <1>9, StateChange, Zenon DEF DeferredRemove
  <2>2. QED
    BY <1>a, <1>b, <1>9, <2>1 DEF DeferredRemove, Remove, loopVars, Provider
<1>10. QED
  BY NextCases, <1>1, <1>2, <1>3, <1>4, <1>5, <1>6, <1>7, <1>8, <1>9, Zenon

\* No index is lost, although startProvider takes the lock three times and IndexField,
\* AddProvider and RemoveProvider come in between: the registered provider of a name,
\* once started, was told every field (provider.go:136-188,282-307).
THEOREM StartedIndexed == Spec => []StartedIsIndexed
<1>1. Init => TypeInv /\ IndexedInv
  <2>1. Init => DOMAIN runs = {} /\ pc = "off"
    BY DEF Init
  <2>2. QED
    BY <2>1, TypeInit, Zenon DEF IndexedInv, StartedIsIndexed
<1>2. TypeInv /\ IndexedInv /\ [Next]_vars => TypeInv' /\ IndexedInv'
  BY TypeStep, IndexedStep, Zenon
<1>3. IndexedInv => StartedIsIndexed
  BY Zenon DEF IndexedInv
<1>4. QED
  BY <1>1, <1>2, <1>3, PTL DEF Spec
=============================================================================
