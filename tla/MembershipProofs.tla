-------------------------- MODULE MembershipProofs --------------------------
(***************************************************************************)
(* Proofs about the peer registry and the sharder, for any peers, ttl,     *)
(* hashes, weights and width of the score: types, that a peer which renews *)
(* in time is never dropped from a snapshot, and what HRW makes of the     *)
(* snapshots.  Induction over the loop of HRW takes the least round that   *)
(* goes wrong.                                                             *)
(***************************************************************************)
EXTENDS Membership, FiniteSetTheorems, TLAPS


Leases == [created : BOOLEAN, holder : Peer \cup {Nobody}, age : 0 .. Ttl + 1]

\* The disjuncts of TimelyNext, flat.
LEMMA NextCases ==
  ASSUME TimelyNext
  PROVE  \/ Timely /\ Tick
         \/ \E p \in Peer : \/ Start(p) \/ RenewSelf(p) \/ Upsert(p) \/ List(p) \/ Store(p)
                            \/ NextRound(p) \/ StopRun(p) \/ Release(p) \/ Cancel(p) \/ Exit(p)
BY Zenon DEF TimelyNext, RunStep

\* Lapse of time keeps the types of ages and Leases.
LEMMA OlderAge == \A n \in 0 .. Ttl + 1 : Older(n) \in 0 .. Ttl + 1
BY RegistryAssumption DEF Older

LEMMA OlderTyped ==
  ASSUME NEW ls \in [Peer -> Leases]
  PROVE  OlderLeases(ls) \in [Peer -> Leases]
BY OlderAge, Zenon DEF OlderLeases, Leases

\* TypeOK is inductive.
LEMMA TypeStep ==
  ASSUME TypeOK, [TimelyNext]_vars
  PROVE  TypeOK'
<1>a. /\ pc \in [Peer -> {"off", "renew", "upsert", "list", "store", "wait", "release", "gone"}]
      /\ done \subseteq Peer /\ lease \in [Peer -> Leases]
      /\ listed \in [Peer -> [Peer -> Leases]]
      /\ since \in [Peer -> 0 .. Ttl + 1]
      /\ snapshot \in [Peer -> SUBSET Peer] /\ exited \subseteq Peer
  BY Zenon DEF TypeOK, Leases
<1>b. Ttl \in Nat /\ 0 \in 0 .. Ttl + 1 /\ Ttl + 1 \in 0 .. Ttl + 1
  BY RegistryAssumption
<1>c. NoLease \in Leases /\ Nothing \in [Peer -> Leases]
  BY <1>b, Zenon DEF NoLease, Nothing, Leases
<1> USE DEF TypeOK, Leases
<1>1. CASE UNCHANGED vars
  BY <1>1, Zenon DEF vars
<1>2. CASE Tick
  <2>1. since' \in [Peer -> 0 .. Ttl + 1]
    BY <1>a, <1>b, <1>2, OlderAge, SMTT(20) DEF Tick
  <2>2. lease' \in [Peer -> Leases] /\ listed' \in [Peer -> [Peer -> Leases]]
    <3> HIDE DEF Leases
    <3>1. QED
      BY <1>a, <1>2, OlderTyped, Zenon DEF Tick
  <2>3. QED
    BY <1>a, <1>2, <2>1, <2>2, Zenon DEF Tick
<1>3. ASSUME NEW p \in Peer, Start(p) \/ NextRound(p) \/ StopRun(p) PROVE TypeOK'
  BY <1>a, <1>3, Zenon DEF Start, NextRound, StopRun, Goto
<1>4. ASSUME NEW p \in Peer, RenewSelf(p) PROVE TypeOK'
  BY <1>a, <1>b, <1>4 DEF RenewSelf, Goto
<1>5. ASSUME NEW p \in Peer, Upsert(p) PROVE TypeOK'
  <2>1. Held(p, since[p]) \in Leases
    BY <1>a, Zenon DEF Held
  <2>2. lease' \in [Peer -> Leases]
    <3> HIDE DEF Leases
    <3>1. QED
      BY <1>a, <1>5, <2>1, Zenon DEF Upsert
  <2>3. QED
    BY <1>a, <1>b, <1>5, <2>2, Zenon DEF Upsert, Goto
<1>6. ASSUME NEW p \in Peer, List(p) PROVE TypeOK'
  BY <1>a, <1>6, SMTT(20) DEF List, Goto
<1>7. ASSUME NEW p \in Peer, Store(p) PROVE TypeOK'
  BY <1>a, <1>c, <1>7, RegistryAssumption, SMTT(20) DEF Store, Counts, Goto
<1>8. ASSUME NEW p \in Peer, Release(p) PROVE TypeOK'
  <2>1. [lease[p] EXCEPT !.holder = Nobody] \in Leases
    BY <1>a, SMTT(20)
  <2>2. lease' \in [Peer -> Leases]
    <3> HIDE DEF Leases
    <3>1. lease' = lease \/ lease' = [lease EXCEPT ![p] = [lease[p] EXCEPT !.holder = Nobody]]
      BY <1>8, Zenon DEF Release
    <3>2. QED
      BY <1>a, <2>1, <3>1, Zenon
  <2>3. QED
    BY <1>a, <1>8, <2>2, Zenon DEF Release, Goto
<1>9. ASSUME NEW p \in Peer, Cancel(p) PROVE TypeOK'
  BY <1>a, <1>9, Zenon DEF Cancel
<1>10. ASSUME NEW p \in Peer, Exit(p) PROVE TypeOK'
  BY <1>a, <1>b, <1>c, <1>10, Zenon DEF Exit
<1>11. QED
  BY NextCases, <1>1, <1>2, <1>3, <1>4, <1>5, <1>6, <1>7, <1>8, <1>9, <1>10, Zenon

\* The peers, their Leases, what they listed and their snapshots keep their types.
THEOREM TypeCorrect == TimelySpec => []TypeOK
<1>1. Init => TypeOK
  <2>1. Ttl + 1 \in 0 .. Ttl + 1 /\ 0 \in 0 .. Ttl + 1
    BY RegistryAssumption
  <2>2. NoLease \in Leases /\ \A q \in Peer : Held(q, 0) \in Leases
    BY <2>1, Zenon DEF NoLease, Held, Leases
  <2>3. Nothing \in [Peer -> Leases]
    BY <2>2, Zenon DEF Nothing
  <2>4. Init => lease \in [Peer -> Leases] /\ listed \in [Peer -> [Peer -> Leases]]
    BY <2>2, <2>3 DEF Init
  <2>5. QED
    BY <2>1, <2>4, ZenonT(30) DEF Init, TypeOK, Leases
<1>2. TypeOK /\ [TimelyNext]_vars => TypeOK'
  BY TypeStep, Zenon
<1>3. QED
  BY <1>1, <1>2, PTL DEF TimelySpec

-----------------------------------------------------------------------------
\* A Lease that says its peer is there.
Fresh(l, q) == l.created /\ l.holder = q /\ l.age <= Ttl

\* What holds of a peer that has not ended yet.  Before it starts nobody knows of it.
\* While it runs it writes its Lease in time, and whoever has it in a snapshot, or
\* in a list that counts it, will find the Lease fresh again.
Unknown(q) ==
  /\ lease[q].holder = Nobody
  /\ \A p \in Peer : listed[p][q].holder = Nobody /\ (p # q => q \notin snapshot[p])

Known(q) ==
  /\ lease[q].holder = q /\ pc[q] = "upsert" => since[q] <= Ttl
  /\ \A p \in Peer : pc[p] = "store" /\ Counts(listed[p][q]) => Fresh(lease[q], q)
  /\ \A p \in Peer \ {q} : q \in snapshot[p] =>
       Fresh(lease[q], q) /\ (pc[p] = "store" => Fresh(listed[p][q], q))

Member(q) ==
  /\ lease[q].holder \in {q, Nobody}
  /\ \A p \in Peer : listed[p][q].holder \in {q, Nobody}
  /\ q \in Active \ exited /\ pc[q] = "off" => Unknown(q)
  /\ q \notin exited /\ Running(q) => Known(q)

MemberInv == \A q \in Peer : Member(q)

\* Every step keeps what holds of a peer.
LEMMA MemberStep ==
  ASSUME TypeOK, MemberInv, [TimelyNext]_vars, NEW q \in Peer
  PROVE  Member(q)'
<1>a. /\ pc \in [Peer -> {"off", "renew", "upsert", "list", "store", "wait", "release", "gone"}]
      /\ done \subseteq Peer /\ lease \in [Peer -> Leases]
      /\ listed \in [Peer -> [Peer -> Leases]]
      /\ since \in [Peer -> 0 .. Ttl + 1]
      /\ snapshot \in [Peer -> SUBSET Peer] /\ exited \subseteq Peer
  BY Zenon DEF TypeOK, Leases
<1>b. Ttl \in Nat /\ Nobody \notin Peer
  BY RegistryAssumption, Zenon
<1>c. Member(q)
  BY Zenon DEF MemberInv
<1> USE DEF Member, Known, Unknown, Running, Fresh, Counts
<1>1. CASE UNCHANGED vars
  BY <1>c, <1>1, Zenon DEF vars
<1>2. CASE Timely /\ Tick
  <2>1. /\ lease'[q].created = lease[q].created /\ lease'[q].holder = lease[q].holder
        /\ lease[q].created => lease'[q].age = Older(lease[q].age)
    BY <1>a, <1>2, Zenon DEF Tick, OlderLeases, Leases
  <2>2. \A p \in Peer : /\ listed'[p][q].created = listed[p][q].created
                        /\ listed'[p][q].holder = listed[p][q].holder
                        /\ listed[p][q].created => listed'[p][q].age = Older(listed[p][q].age)
    BY <1>a, <1>2 DEF Tick, OlderLeases, Leases
  <2>3. /\ lease[q].age \in Nat /\ \A p \in Peer : listed[p][q].age \in Nat
        /\ since[q] \in Nat
    BY <1>a, <1>b DEF Leases
  <2>4. pc[q] = "upsert" => since'[q] = Older(since[q])
    BY <1>2, Zenon DEF Tick
  <2>5. Running(q) /\ lease[q].holder = q =>
          /\ lease[q].age < Ttl
          /\ pc[q] = "upsert" => since[q] < Ttl
          /\ \A p \in Peer : pc[p] = "store" /\ listed[p][q].holder = q /\ listed[p][q].age <= Ttl
               => listed[p][q].age < Ttl
    BY <1>2, Zenon DEF Timely
  <2>6. \A n \in Nat : (n < Ttl => Older(n) <= Ttl) /\ (Older(n) <= Ttl => n <= Ttl)
    BY <1>b DEF Older
  <2>7. UNCHANGED <<pc, done, snapshot, exited>>
    BY <1>2, Zenon DEF Tick
  <2>8. QED
    BY <1>b, <1>c, <2>1, <2>2, <2>3, <2>4, <2>5, <2>6, <2>7, SMTT(20)
<1>3. ASSUME NEW p \in Peer, Start(p) PROVE Member(q)'
  BY <1>a, <1>b, <1>c, <1>3, Zenon DEF Start, Goto
<1>4. ASSUME NEW p \in Peer, NextRound(p) \/ StopRun(p) PROVE Member(q)'
  BY <1>a, <1>c, <1>4 DEF NextRound, StopRun, Goto
<1>5. ASSUME NEW p \in Peer, RenewSelf(p) PROVE Member(q)'
  BY <1>a, <1>b, <1>c, <1>5, SMTT(20) DEF RenewSelf, Goto
<1>6. ASSUME NEW p \in Peer, Upsert(p) PROVE Member(q)'
  BY <1>a, <1>b, <1>c, <1>6 DEF Upsert, Held, Goto
<1>7. ASSUME NEW p \in Peer, List(p) PROVE Member(q)'
  <2>0. UNCHANGED <<done, lease, since, snapshot, exited>>
    BY <1>7, Zenon DEF List
  <2>1. CASE Goto(p, "list", "store") /\ listed' = [listed EXCEPT ![p] = lease]
    <3>1. \A r \in Peer : listed'[r][q] = IF r = p THEN lease[q] ELSE listed[r][q]
      BY <1>a, <2>1, Zenon
    <3>2. pc[p] = "list" /\ \A r \in Peer : pc'[r] = IF r = p THEN "store" ELSE pc[r]
      BY <1>a, <2>1, Zenon DEF Goto
    <3>3. QED
      BY <1>c, <2>0, <3>1, <3>2
  <2>2. CASE Goto(p, "list", "wait") /\ UNCHANGED listed
    <3>1. pc[p] = "list" /\ \A r \in Peer : pc'[r] = IF r = p THEN "wait" ELSE pc[r]
      BY <1>a, <2>2, Zenon DEF Goto
    <3>2. QED
      BY <1>c, <2>0, <2>2, <3>1
  <2>3. QED
    BY <1>7, <2>1, <2>2, Zenon DEF List
<1>8. ASSUME NEW p \in Peer, Store(p) PROVE Member(q)'
  <2>0. UNCHANGED <<done, lease, since, exited>>
    BY <1>8, Zenon DEF Store
  <2>1. \A r \in Peer : listed'[r][q] = IF r = p THEN NoLease ELSE listed[r][q]
    BY <1>a, <1>8, Zenon DEF Store, Nothing
  <2>2. pc[p] = "store" /\ \A r \in Peer : pc'[r] = IF r = p THEN "wait" ELSE pc[r]
    BY <1>a, <1>8, Zenon DEF Store, Goto
  <2>3. q \in snapshot'[p] /\ q # p => Counts(listed[p][q])
    <3>1. SUFFICES ASSUME q \in snapshot'[p], q # p PROVE Counts(listed[p][q])
      BY Zenon
    <3> USE DEF Store
    <3> HIDE DEF Counts
    <3>2. PICK r \in Peer : Counts(listed[p][r]) /\ listed[p][r].holder = q
      BY <1>a, <1>8, <3>1, Zenon
    <3>3. listed[p][r].holder \in {r, Nobody}
      BY Zenon DEF MemberInv
    <3>4. QED
      BY <1>b, <3>2, <3>3, Zenon
  <2>4. \A r \in Peer \ {p} : snapshot'[r] = snapshot[r]
    BY <1>a, <1>8, Zenon DEF Store
  <2>5. NoLease.holder = Nobody
    BY Zenon DEF NoLease
  <2>6. QED
    BY <1>b, <1>c, <2>0, <2>1, <2>2, <2>3, <2>4, <2>5, SMTT(20)
<1>9. ASSUME NEW p \in Peer, Release(p) PROVE Member(q)'
  <2>0. UNCHANGED <<done, since, listed, snapshot, exited>>
    BY <1>9, Zenon DEF Release
  <2>1. pc[p] = "release" /\ \A r \in Peer : pc'[r] = IF r = p THEN "gone" ELSE pc[r]
    BY <1>a, <1>9, Zenon DEF Release, Goto
  <2>2. p # q => lease'[q] = lease[q]
    BY <1>a, <1>9, Zenon DEF Release
  <2>3. lease'[q].holder \in {q, Nobody}
    BY <1>a, <1>c, <1>9, SMTT(20) DEF Release, Leases
  <2>4. QED
    BY <1>c, <2>0, <2>1, <2>2, <2>3, SMTT(20)
<1>10. ASSUME NEW p \in Peer, Cancel(p) PROVE Member(q)'
  BY <1>a, <1>c, <1>10, Zenon DEF Cancel
<1>11. ASSUME NEW p \in Peer, Exit(p) PROVE Member(q)'
  BY <1>a, <1>b, <1>c, <1>11, SMTT(20) DEF Exit, Nothing, NoLease
<1>12. QED
  BY NextCases, <1>1, <1>2, <1>3, <1>4, <1>5, <1>6, <1>7, <1>8, <1>9, <1>10, <1>11, Zenon

LEMMA MemberInit ==
  ASSUME Init
  PROVE  MemberInv
<1>1. PICK left \in SUBSET (Peer \ Active) :
        lease = [q \in Peer |-> IF q \in left THEN Held(q, 0) ELSE NoLease]
  BY Zenon DEF Init
<1>2. \A q \in Peer : lease[q].holder \in {q, Nobody} /\ (q \in Active => lease[q].holder = Nobody)
  BY <1>1, Zenon DEF Held, NoLease
<1>3. \A p, q \in Peer : listed[p][q].holder = Nobody /\ q \notin snapshot[p] /\ pc[q] = "off"
  BY Zenon DEF Init, Nothing, NoLease
<1>4. QED
  BY <1>2, <1>3, Zenon DEF MemberInv, Member, Unknown, Running

\* For any number of peers, joins, stops, crashes and API errors: a peer that renews in
\* time, seen by one that acts on its lists in time, is never dropped from a snapshot
\* that has it (registry.go:141-166,197-296).
THEOREM MembersKept == TimelySpec => LivePeerNotDropped
<1>1. Init => MemberInv
  BY MemberInit, Zenon
<1>2. TypeOK /\ MemberInv /\ [TimelyNext]_vars => MemberInv'
  BY MemberStep, Zenon DEF MemberInv
<1>3. TypeOK /\ MemberInv /\ [TimelyNext]_vars =>
        [\A p, q \in Peer : q \in snapshot[p] /\ q \notin exited /\ Running(q)' /\ Running(p)'
           => q \in snapshot'[p]]_vars
  <2>1. SUFFICES ASSUME TypeOK, MemberInv, TimelyNext, NEW p \in Peer, NEW q \in Peer,
                        q \in snapshot[p], q \notin exited, Running(q)', Running(p)'
                 PROVE  q \in snapshot'[p]
    BY Zenon
  <2>2. CASE UNCHANGED snapshot
    BY <2>1, <2>2, Zenon
  <2>3. ASSUME NEW r \in Peer, Store(r) PROVE q \in snapshot'[p]
    <3>1. CASE r # p
      BY <2>1, <2>3, <3>1 DEF Store
    <3>2. CASE r = p /\ q = p
      BY <2>1, <2>3, <3>2, Zenon DEF Store, TypeOK
    <3>3. CASE r = p /\ q # p
      <4>1. Running(q) /\ pc[p] = "store"
        BY <2>1, <2>3, <3>3, Zenon DEF Store, Goto, Running, TypeOK
      <4>2. Fresh(listed[p][q], q)
        BY <2>1, <3>3, <4>1, Zenon DEF MemberInv, Member, Known
      <4>3. Counts(listed[p][q]) /\ listed[p][q].holder = q
        BY <4>2, RegistryAssumption, Zenon DEF Fresh, Counts
      <4>4. QED
        BY <2>1, <2>3, <3>3, <4>3, Zenon DEF Store, TypeOK
    <3>4. QED
      BY <3>1, <3>2, <3>3, Zenon
  <2>4. ASSUME NEW r \in Peer, Exit(r) PROVE q \in snapshot'[p]
    <3>1. r # p
      BY <2>1, <2>4, Zenon DEF Exit, Running, TypeOK
    <3>2. QED
      BY <2>1, <2>4, <3>1 DEF Exit
  <2>5. QED
    BY <2>1, <2>2, <2>3, <2>4, NextCases DEF Tick, Start, RenewSelf, Upsert, List, NextRound,
       StopRun, Release, Cancel
<1>4. QED
  BY TypeCorrect, <1>1, <1>2, <1>3, PTL DEF TimelySpec, LivePeerNotDropped

-----------------------------------------------------------------------------
\* The sharder.

\* The natural numbers are well ordered.
LEMMA LeastNat ==
  ASSUME NEW T \in SUBSET Nat, T # {}
  PROVE  \E m \in T : \A k \in T : m <= k
<1> DEFINE R == OpToRel(<, Nat)
<1>1. IsWellFoundedOn(R, Nat)
  BY NatLessThanWellFounded, Zenon
<1>2. PICK m \in T : \A k \in T : ~ (<<k, m>> \in R)
  <2> HIDE DEF R
  <2> QED BY <1>1, WFMin, Zenon
<1>3. \A k \in T : ~ (k < m)
  BY <1>2, Zenon DEF OpToRel
<1> QED
  BY <1>3

\* One round of the loop of HRW.
Round(h, w, peers, best, n) ==
  IF n = 0 THEN [score |-> 0, id |-> NoPeer]
  ELSE IF Score(h, w, peers[n]) >= best[n - 1].score
       THEN [score |-> Score(h, w, peers[n]), id |-> peers[n]] ELSE best[n - 1]

\* The loop is well defined: a run of k - 1 rounds extends to one of k.
LEMMA LoopExists ==
  ASSUME NEW h, NEW w, NEW peers, NEW N \in Nat
  PROVE  \E best : best = [n \in 0 .. N |-> Round(h, w, peers, best, n)]
<1> DEFINE Runs(f, k) == f = [n \in 0 .. k |-> Round(h, w, peers, f, n)]
           T == {k \in Nat : ~ \E f : Runs(f, k)}
<1>1. SUFFICES ASSUME T # {} PROVE FALSE
  BY Zenon
<1>2. PICK m \in T : \A k \in T : m <= k
  <2> HIDE DEF T
  <2>1. T \in SUBSET Nat
    BY Zenon DEF T
  <2> QED BY <1>1, <2>1, LeastNat, Zenon
<1>3. CASE m = 0
  <2> DEFINE f == [n \in 0 .. 0 |-> [score |-> 0, id |-> NoPeer]]
  <2>1. Runs(f, 0)
    BY DEF Round
  <2> QED BY <1>2, <1>3, <2>1, Zenon
<1>4. CASE m # 0
  <2>1. m \in Nat /\ m - 1 \in Nat /\ m - 1 \notin T
    BY <1>2, <1>4
  <2>2. PICK f : Runs(f, m - 1)
    BY <2>1, Zenon
  <2> DEFINE g == [n \in 0 .. m |-> Round(h, w, peers, f, n)]
  <2>3. \A n \in 0 .. m - 1 : g[n] = f[n]
    <3> HIDE DEF Runs
    <3>1. \A n \in 0 .. m - 1 : f[n] = Round(h, w, peers, f, n)
      BY <2>2, Zenon DEF Runs
    <3> QED BY <2>1, <3>1
  <2>4. \A n \in 0 .. m : Round(h, w, peers, f, n) = Round(h, w, peers, g, n)
    <3> HIDE DEF g
    <3>1. \A n \in 0 .. m : n = 0 \/ n - 1 \in 0 .. m - 1
      BY <2>1
    <3> QED BY <2>3, <3>1, Zenon DEF Round
  <2>5. Runs(g, m)
    <3> SUFFICES g = [n \in 0 .. m |-> Round(h, w, peers, g, n)]
      BY Zenon
    <3> QED BY <2>4, Zenon
  <2> QED BY <1>2, <2>5, Zenon
<1> QED BY <1>3, <1>4, Zenon

\* Best is what the loop has after the last peer.
LEMMA BestIsLoop ==
  ASSUME NEW h, NEW w, NEW peers, Len(peers) \in Nat
  PROVE  \E best : /\ \A n \in 0 .. Len(peers) : best[n] = Round(h, w, peers, best, n)
                   /\ Best(h, w, peers) = best[Len(peers)].id
<1> DEFINE best == CHOOSE f : f = [n \in 0 .. Len(peers) |-> Round(h, w, peers, f, n)]
<1>1. \A n \in 0 .. Len(peers) : best[n] = Round(h, w, peers, best, n)
  <2>1. \E f : f = [n \in 0 .. Len(peers) |-> Round(h, w, peers, f, n)]
    BY LoopExists
  <2> QED
    BY <2>1, Zenon
<1>2. Best(h, w, peers) = best[Len(peers)].id
  BY Zenon DEF Best, Round
<1> QED
  BY <1>1, <1>2, Zenon

\* Scores are natural numbers, whatever overflows.
LEMMA ScoreType ==
  ASSUME NEW h \in Hashes, NEW w \in Weighting, NEW p \in Peer
  PROVE  Score(h, w, p) \in Nat
<1>1. h[p] \in Nat /\ w[p] \in Nat
  <2>1. \A m \in Nat : 0 .. m - 1 \subseteq Nat
    OBVIOUS
  <2>2. 0 .. 2^Width - 1 \subseteq Nat
    BY <2>1, HRWAssumption, Zenon
  <2> QED BY <2>2, HRWAssumption, Zenon DEF Hashes, Weighting
<1>2. \A a, b \in Nat : a * b \in Nat
  OBVIOUS
<1>3. \A a \in Nat, m \in Nat \ {0} : a % m \in Nat
  OBVIOUS
<1>4. (h[p] * (IF w[p] = 0 THEN 1 ELSE w[p])) \in Nat
  BY <1>1, <1>2, Zenon
<1> QED
  BY <1>3, <1>4, HRWAssumption, Zenon DEF Score

\* The loop ends with a peer that no other one outscores.
LEMMA BestWins ==
  ASSUME NEW h \in Hashes, NEW w \in Weighting, NEW peers \in Seq(Peer), peers # <<>>
  PROVE  \E i \in 1 .. Len(peers) :
           /\ Best(h, w, peers) = peers[i]
           /\ \A j \in 1 .. Len(peers) : Score(h, w, peers[j]) <= Score(h, w, peers[i])
<1> DEFINE N == Len(peers)
           sc(i) == Score(h, w, peers[i])
<1>1. N \in Nat \ {0} /\ \A i \in 1 .. N : peers[i] \in Peer
  OBVIOUS
<1>2. \A i \in 1 .. N : sc(i) \in Nat
  BY <1>1, ScoreType, Zenon
<1>3. PICK best : /\ \A n \in 0 .. Len(peers) : best[n] = Round(h, w, peers, best, n)
                  /\ Best(h, w, peers) = best[Len(peers)].id
  BY <1>1, BestIsLoop
<1> HIDE DEF N
<1> DEFINE Leads(n) == \E i \in 1 .. n : /\ best[n] = [score |-> sc(i), id |-> peers[i]]
                                         /\ \A j \in 1 .. n : sc(j) <= sc(i)
<1> HIDE DEF sc
<1>4. best[0] = [score |-> 0, id |-> NoPeer]
  <2>1. 0 \in 0 .. N
    BY <1>1
  <2> QED BY <1>3, <2>1, Zenon DEF Round, N
<1>5. \A n \in 1 .. N : best[n] = IF sc(n) >= best[n - 1].score
                                  THEN [score |-> sc(n), id |-> peers[n]] ELSE best[n - 1]
  <2> SUFFICES ASSUME NEW n \in 1 .. N
               PROVE  best[n] = IF sc(n) >= best[n - 1].score
                                THEN [score |-> sc(n), id |-> peers[n]] ELSE best[n - 1]
    BY Zenon
  <2>1. n \in 0 .. N /\ n # 0
    BY <1>1
  <2>2. best[n] = Round(h, w, peers, best, n)
    BY <1>3, <2>1, Zenon DEF N
  <2> QED BY <2>1, <2>2, Zenon DEF Round, sc
<1>6. Leads(1)
  <2>1. 1 \in 1 .. N /\ best[0].score = 0 /\ sc(1) >= 0
    BY <1>1, <1>2, <1>4, SMTT(20)
  <2>2. best[1] = [score |-> sc(1), id |-> peers[1]]
    BY <1>5, <2>1
  <2> QED BY <1>2, <2>1, <2>2, SMTT(20)
<1>7. ASSUME NEW n \in 2 .. N, Leads(n - 1) PROVE Leads(n)
  <2>1. PICK i \in 1 .. n - 1 : /\ best[n - 1] = [score |-> sc(i), id |-> peers[i]]
                                /\ \A j \in 1 .. n - 1 : sc(j) <= sc(i)
    BY <1>7, Zenon
  <2>2. /\ n \in 1 .. N /\ i \in 1 .. N /\ i \in 1 .. n /\ n \in 1 .. n
        /\ \A j \in 1 .. n : j \in 1 .. N /\ (j = n \/ j \in 1 .. n - 1)
    BY <1>1
  <2>3. sc(n) \in Nat /\ sc(i) \in Nat /\ \A j \in 1 .. n : sc(j) \in Nat
    BY <1>2, <2>2, Zenon
  <2>4. best[n] = IF sc(n) >= sc(i) THEN [score |-> sc(n), id |-> peers[n]] ELSE best[n - 1]
    BY <1>5, <2>1, <2>2, SMTT(20)
  <2>5. CASE sc(n) >= sc(i)
    <3>1. \A j \in 1 .. n : sc(j) <= sc(n)
      BY <2>1, <2>2, <2>3, <2>5
    <3> QED BY <2>2, <2>4, <2>5, <3>1, Zenon
  <2>6. CASE ~ (sc(n) >= sc(i))
    <3>1. \A j \in 1 .. n : sc(j) <= sc(i)
      BY <2>1, <2>2, <2>3, <2>6, SMTT(20)
    <3> QED BY <2>1, <2>2, <2>4, <2>6, <3>1
  <2> QED BY <2>5, <2>6, Zenon
<1>8. Leads(N)
  <2> DEFINE T == {n \in 1 .. N : ~ Leads(n)}
  <2> HIDE DEF Leads
  <2>1. SUFFICES ASSUME T # {} PROVE FALSE
    BY <1>1
  <2>2. PICK m \in T : \A k \in T : m <= k
    <3>1. T \in SUBSET Nat
      BY <1>1
    <3> HIDE DEF T
    <3> QED BY <2>1, <3>1, LeastNat, Zenon
  <2>3. m \in 2 .. N
    BY <1>1, <1>6, <2>2, SMTT(20)
  <2>4. m - 1 \in 1 .. N /\ m - 1 \notin T
    BY <1>1, <2>2, <2>3
  <2> QED BY <1>7, <2>2, <2>3, <2>4, SMTT(20)
<1>9. PICK i \in 1 .. N : /\ best[N] = [score |-> sc(i), id |-> peers[i]]
                          /\ \A j \in 1 .. N : sc(j) <= sc(i)
  BY <1>8, Zenon
<1> QED
  BY <1>3, <1>9 DEF sc, N

\* An order ranges over the members, all of them.
LEMMA OrderCovers ==
  ASSUME NEW S \in SUBSET Peer, NEW o \in Orders(S)
  PROVE  /\ o \in Seq(Peer) /\ \A i \in 1 .. Len(o) : o[i] \in S
         /\ \A p \in S : \E i \in 1 .. Len(o) : o[i] = p
         /\ S # {} => o # <<>>
<1>1. IsFiniteSet(S)
  BY HRWAssumption, FS_Subset, Zenon
<1>2. Cardinality(S) \in Nat /\ (S = {} <=> Cardinality(S) = 0)
  BY <1>1, FS_CardinalityType, FS_EmptySet, Zenon
<1> DEFINE D == 1 .. Cardinality(S)
<1>3. o \in [D -> S] /\ \A i, j \in D : o[i] = o[j] => i = j
  BY Zenon DEF Orders, SetToSeqs
<1>4. o \in Seq(Peer) /\ Len(o) = Cardinality(S)
  BY <1>2, <1>3
<1>5. o \in Surjection(D, S)
  <2>1. o \in Injection(D, S)
    BY <1>3, Zenon DEF Injection, IsInjective
  <2>2. Cardinality(D) = Cardinality(S)
    BY <1>2, FS_Interval
  <2> QED BY <1>1, <2>1, <2>2, FS_Injection, Zenon
<1> QED
  BY <1>2, <1>3, <1>4, <1>5, Zenon DEF Surjection

\* One evaluation of ShouldOwn by all peers, over a non-empty snapshot.
LEMMA OwnersAreBest ==
  ASSUME NEW h \in Hashes, NEW w \in Weighting, NEW S \in SUBSET Peer, S # {}, NEW o \in Orders(S)
  PROVE  \E p \in S : /\ Owners(h, w, o) = {p}
                      /\ \A q \in S : Score(h, w, q) <= Score(h, w, p)
<1>1. /\ o \in Seq(Peer) /\ \A i \in 1 .. Len(o) : o[i] \in S
      /\ \A q \in S : \E i \in 1 .. Len(o) : o[i] = q
      /\ o # <<>>
  BY OrderCovers, Zenon
<1>2. PICK i \in 1 .. Len(o) :
        /\ Best(h, w, o) = o[i]
        /\ \A j \in 1 .. Len(o) : Score(h, w, o[j]) <= Score(h, w, o[i])
  BY <1>1, BestWins, Zenon
<1>3. Owners(h, w, o) = {o[i]}
  BY <1>1, <1>2, Zenon DEF Owners, ShouldOwn
<1>4. \A q \in S : Score(h, w, q) <= Score(h, w, o[i])
  BY <1>1, <1>2, Zenon
<1> QED
  BY <1>1, <1>2, <1>3, <1>4, Zenon

\* Hence exactly one owner, in every order.
LEMMA EverySetHasOneOwner == \A S \in SUBSET Peer : OneOwner(S)
<1> SUFFICES ASSUME NEW S \in SUBSET Peer, NEW h \in Hashes, NEW w \in Weighting,
                    NEW o \in Orders(S), S # {}
             PROVE  \E p \in S : Owners(h, w, o) = {p}
  BY Zenon DEF OneOwner
<1> QED
  BY OwnersAreBest

\* Without ties, members of both sets that are best in one are best in the other.
LEMMA EveryMoveIsSteady == \A S, T \in SUBSET Peer : Steady(S, T)
<1>1. ASSUME NEW S \in SUBSET Peer, NEW T \in SUBSET Peer,
             NEW h \in Hashes, NEW w \in Weighting, Distinct(h, w), S # {}, T # {},
             NEW o \in Orders(S), NEW n \in Orders(T),
             NEW p \in Owners(h, w, o), NEW q \in Owners(h, w, n)
      PROVE  p = q \/ p \in S \ T \/ q \in T \ S
  <2>1. p \in S /\ \A r \in S : Score(h, w, r) <= Score(h, w, p)
    <3>1. PICK b \in S : Owners(h, w, o) = {b} /\ \A r \in S : Score(h, w, r) <= Score(h, w, b)
      BY <1>1, OwnersAreBest, Zenon
    <3> QED BY <3>1, Zenon
  <2>2. q \in T /\ \A r \in T : Score(h, w, r) <= Score(h, w, q)
    <3>1. PICK b \in T : Owners(h, w, n) = {b} /\ \A r \in T : Score(h, w, r) <= Score(h, w, b)
      BY <1>1, OwnersAreBest, Zenon
    <3> QED BY <3>1, Zenon
  <2>3. Score(h, w, p) \in Nat /\ Score(h, w, q) \in Nat /\ p \in Peer /\ q \in Peer
    BY <2>1, <2>2, ScoreType
  <2>4. p \in T /\ q \in S => Score(h, w, p) = Score(h, w, q)
    BY <2>1, <2>2, <2>3
  <2> QED
    BY <1>1, <2>1, <2>2, <2>3, <2>4, Zenon DEF Distinct
<1> QED
  BY <1>1 DEF Steady

\* On whatever snapshots the registries of any number of peers store, exactly one peer
\* owns a cluster, and it is a member, for all hashes, weights, widths, overflows, ties
\* and orders of the map (registry.go:131-139, hrw.go:64-77).
THEOREM OneOwnerAlways == TimelySpec => []ExactlyOneOwner
<1>1. TypeOK => ExactlyOneOwner
  BY EverySetHasOneOwner, Zenon DEF TypeOK, ExactlyOneOwner, OneOwnerSets
<1> QED
  BY <1>1, TypeCorrect, PTL

\* Whatever joins and leaves one refresh brings, it moves a cluster only to a newcomer or
\* off a peer that left, when scores differ (registry.go:244-296, hrw.go:25-28,45).
THEOREM RefreshDisruptsLeast == TimelySpec => LeastDisruption
<1>1. TypeOK /\ TypeOK' => \A p \in Peer : <<snapshot[p], snapshot'[p]>> \in SteadyMoves
  <2> SUFFICES ASSUME TypeOK, TypeOK', NEW p \in Peer
               PROVE  <<snapshot[p], snapshot'[p]>> \in SteadyMoves
    BY Zenon
  <2>1. snapshot[p] \in SUBSET Peer /\ snapshot'[p] \in SUBSET Peer
    BY Zenon DEF TypeOK
  <2>2. Steady(snapshot[p], snapshot'[p])
    BY <2>1, EveryMoveIsSteady, Zenon
  <2> QED
    BY <2>1, <2>2, Zenon DEF SteadyMoves
<1> QED
  BY <1>1, TypeCorrect, PTL DEF LeastDisruption
=============================================================================
