--------------------- MODULE ShardedCoordinatorProofs ---------------------
(***************************************************************************)
(* What the coordinators keep true for every number of peers, clusters,    *)
(* engagements and goroutines.  The steps of a peer touch only what that   *)
(* peer has in memory and the Leases, so every invariant is one of a       *)
(* single peer: a step of another leaves it alone (OthersStay), and for a  *)
(* step of its own there is one case per action.                           *)
(***************************************************************************)
EXTENDS ShardedCoordinator, TLAPS

-----------------------------------------------------------------------------
\* Bags of goroutines.

\* A bag counts its elements, and what it counts is in it.
LEMMA Copies ==
  ASSUME NEW B, IsABag(B)
  PROVE  \A e : /\ Count(e, B) \in Nat
                /\ e \in BagToSet(B) <=> Count(e, B) > 0
BY DEF IsABag, Count, BagToSet

\* Spawning a set of goroutines adds one copy of each.
LEMMA Spawned ==
  ASSUME NEW B, IsABag(B), NEW S, NEW C, C = B (+) SetToBag(S)
  PROVE  /\ IsABag(C) /\ BagToSet(C) = BagToSet(B) \cup S
         /\ \A e : Count(e, C) = Count(e, B) + (IF e \in S THEN 1 ELSE 0)
BY DEF IsABag, Count, BagToSet, SetToBag, (+)

\* The end of a set of goroutines takes one copy of each that there is.
LEMMA Left ==
  ASSUME NEW B, IsABag(B), NEW S, NEW C, C = B (-) SetToBag(S)
  PROVE  /\ IsABag(C) /\ BagToSet(C) \subseteq BagToSet(B)
         /\ BagToSet(B) \ S \subseteq BagToSet(C)
         /\ \A e : Count(e, C) = IF e \in S /\ e \in BagToSet(B)
                                    THEN Count(e, B) - 1 ELSE Count(e, B)
BY DEF IsABag, Count, BagToSet, SetToBag, (-)

-----------------------------------------------------------------------------
\* The inductive invariant the others rest on.

\* What c.engaged holds under a name was created, under that name.
RegisteredInv(p) ==
  \A c \in Cluster : /\ engaged[p][c] <= next[p]
                     /\ engaged[p][c] # 0 => eng[p][engaged[p][c]].cluster = c

\* A started engagement has a guard and a context, and a context is the one of the
\* engagement that keeps it.
EngagementInv(p) ==
  \A t \in Token :
    /\ eng[p][t].started => eng[p][t].fence # 0 /\ eng[p][t].cancel # NoWork
    /\ eng[p][t].cancel # NoWork => eng[p][t].cancel.token = t

CoordInv == TypeOK /\ \A p \in Active : RegisteredInv(p) /\ EngagementInv(p)

\* A step of any peer or of time, and what it leaves alone at the peers q it is not of.
Step(p) == Internal(p) \/ External(p)
Stays(q) ==
  /\ live'[q] = live[q] /\ next'[q] = next[q] /\ engaged'[q] = engaged[q] /\ eng'[q] = eng[q]
  /\ stopping'[q] = stopping[q] /\ works'[q] = works[q]
  /\ held'[q] = held[q] /\ fencing'[q] = fencing[q]

\* A peer's memory is its own: the steps of another peer do not touch it.
LEMMA OthersStay ==
  ASSUME TypeOK, NEW p \in Active, Step(p), NEW q \in Active, q # p
  PROVE  Stays(q)
<1> USE DEF TypeOK, Stays
<1>1. ASSUME RecomputeEnd(p) PROVE Stays(q)
  BY <1>1, Zenon DEF RecomputeEnd
<1>2. ASSUME NEW t \in Token, Cleanup(p, t) PROVE Stays(q)
  BY <1>2, Zenon DEF Cleanup
<1>3. ASSUME NEW t \in Token, Renew(p, t) PROVE Stays(q)
  BY <1>3, Zenon DEF Renew, Become, GuardFrame
<1>4. ASSUME NEW t \in Token, OnLost(p, t) PROVE Stays(q)
  BY <1>4, Zenon DEF OnLost, Become, GuardFrame
<1>5. ASSUME NEW w, StartDone(p, w) \/ StartFailed(p, w) PROVE Stays(q)
  BY <1>5, Zenon DEF StartDone, StartFailed
<1>6. ASSUME NEW r, Release(p, r) \/ Clear(p, r) PROVE Stays(q)
  BY <1>6 DEF Release, Clear, Become, GuardFrame
<1>7. ASSUME NEW r, NEW failed, NEW landed, RecomputeLoop(p, r, failed, landed) PROVE Stays(q)
  BY <1>7, Zenon DEF RecomputeLoop
<1>8. ASSUME NEW t \in Token, Unthrottle(p, t) PROVE Stays(q)
  BY <1>8, Zenon DEF Unthrottle, GuardFrame
<1>9. ASSUME NEW c \in Cluster, NEW x \in Ctx, Engage(p, c, x) PROVE Stays(q)
  BY <1>9, Zenon DEF Engage
<1>10. ASSUME NEW x \in Ctx, CancelCtx(p, x) PROVE Stays(q)
  BY <1>10, Zenon DEF CancelCtx
<1>11. ASSUME NEW S, NEW late, RefreshPeers(p, S, late) PROVE Stays(q)
  BY <1>11, Zenon DEF RefreshPeers
<1>12. ASSUME Crash(p) PROVE Stays(q)
  BY <1>12, Zenon DEF Crash
<1> QED
  BY <1>1, <1>2, <1>3, <1>4, <1>5, <1>6, <1>7, <1>8, <1>9, <1>10, <1>11, <1>12, Zenon
  DEF Step, Internal, Goroutines, Recompute, Throttle, External

-----------------------------------------------------------------------------
\* recompute, engagement by engagement.

Call == [by : 0..MaxTokens, snap : SUBSET Peer]
Registered(p, t) == engaged[p][eng[p][t].cluster] = t
GuardOf(p, t) == IF eng[p][t].fence = 0 THEN t ELSE eng[p][t].fence
NextWork(p, t, x) == Work(t, eng[p][t].runs + 1, x)

\* Engagement t is started, is left waiting for its fence, or is stopped.
Begins(p, t, x) ==
  /\ Registered(p, t) /\ ~eng[p][t].started /\ eng[p][t].runs < MaxRuns
  /\ eng'[p][t] = [eng[p][t] EXCEPT !.fence = GuardOf(p, t), !.started = TRUE,
                                    !.cancel = NextWork(p, t, x), !.runs = @ + 1]
Waits(p, t) ==
  /\ Registered(p, t) /\ ~eng[p][t].started /\ eng'[p][t].throttled \in BOOLEAN
  /\ eng'[p][t] = [eng[p][t] EXCEPT !.fence = GuardOf(p, t),
                                    !.throttled = eng'[p][t].throttled]
Ends(p, t) ==
  /\ Registered(p, t) /\ eng[p][t].started
  /\ eng'[p][t] = [eng[p][t] EXCEPT !.cancel = NoWork, !.started = FALSE, !.throttled = FALSE]

\* What the loop does to the engagements and to their contexts.
LEMMA RecomputeEngagements ==
  ASSUME CoordInv, NEW p \in Active, NEW r \in Call, NEW failed, NEW landed,
         RecomputeLoop(p, r, failed, landed)
  PROVE  LET x == CallCtx(p, r.by) IN
         /\ \A t \in Token :
              eng'[p][t] = eng[p][t] \/ Begins(p, t, x) \/ Waits(p, t) \/ Ends(p, t)
         /\ works'[p] = works[p] \cup {NextWork(p, t, x) : t \in {u \in Token : Begins(p, u, x)}}
         /\ starting'[p] = starting[p]
                            \cup {NextWork(p, t, x) : t \in {u \in Token : Begins(p, u, x)}}
         /\ stopping'[p] = {eng[p][t].cancel : t \in {u \in Token : Ends(p, u)}}
<1> DEFINE mine == {c \in Cluster : engaged[p][c] # 0}
           e(c) == eng[p][engaged[p][c]]
           x == CallCtx(p, r.by)
           wants == {c \in mine : ShouldOwn(c, r.snap, p) /\ ~e(c).started}
           guard(c) == IF e(c).fence = 0 THEN engaged[p][c] ELSE e(c).fence
           tries == {c \in wants : ~e(c).throttled /\ e(c).runs < MaxRuns}
           holds == {c \in tries : guard(c) \in held[p]}
           can == {c \in tries \ holds : CtxLive(p, x) /\ Free(lease[FenceOf[c]], p)}
           got == can \ failed
           begins == holds \cup got
           ends == {c \in mine : ~ShouldOwn(c, r.snap, p) /\ e(c).started}
           work(c) == Work(engaged[p][c], e(c).runs + 1, x)
<1>1. /\ eng' = [eng EXCEPT ![p] = [t \in Token |->
           LET c == eng[p][t].cluster IN
           IF engaged[p][c] # t THEN eng[p][t]
           ELSE IF c \in begins
           THEN [eng[p][t] EXCEPT !.fence = guard(c), !.started = TRUE,
                                  !.cancel = work(c), !.runs = @ + 1]
           ELSE IF c \in wants
           THEN [eng[p][t] EXCEPT !.fence = guard(c), !.throttled = @ \/ c \in tries]
           ELSE IF c \in ends
           THEN [eng[p][t] EXCEPT !.cancel = NoWork, !.started = FALSE, !.throttled = FALSE]
           ELSE eng[p][t]]]
      /\ works' = [works EXCEPT ![p] = @ \cup {work(c) : c \in begins}]
      /\ stopping' = [stopping EXCEPT ![p] = {e(c).cancel : c \in ends}]
      /\ starting' = [starting EXCEPT ![p] = @ \cup {work(c) : c \in begins}]
  BY Zenon DEF RecomputeLoop
<1>2. /\ begins \subseteq tries /\ tries \subseteq wants /\ wants \subseteq mine
      /\ ends \subseteq mine /\ wants \cap ends = {} /\ mine \subseteq Cluster
  BY Zenon
<1>3. \A c \in mine : /\ engaged[p][c] \in Token /\ eng[p][engaged[p][c]] \in Engagement
                      /\ eng[p][engaged[p][c]].cluster = c /\ Registered(p, engaged[p][c])
  <2>1. ASSUME NEW c \in mine PROVE engaged[p][c] \in Token
    BY CoordinatorAssumption DEF CoordInv, TypeOK, Token
  <2>2. ASSUME NEW c \in mine PROVE eng[p][engaged[p][c]].cluster = c
    BY Zenon DEF CoordInv, RegisteredInv
  <2> QED
    BY <2>1, <2>2 DEF CoordInv, TypeOK, Registered
<1>4. \A c \in wants : ~e(c).started
  BY Zenon
<1>5. \A c \in ends : e(c).started
  BY Zenon
<1>6. \A c \in tries : e(c).runs < MaxRuns
  BY Zenon
<1> HIDE DEF mine, wants, tries, holds, can, got, begins, ends, x
<1>7. \A t \in Token : LET c == eng[p][t].cluster IN
        /\ ~Registered(p, t) => eng'[p][t] = eng[p][t]
        /\ Registered(p, t) /\ c \in begins => Begins(p, t, x)
        /\ Registered(p, t) /\ c \in wants \ begins => Waits(p, t)
        /\ Registered(p, t) /\ c \in ends => Ends(p, t)
        /\ Registered(p, t) /\ c \notin wants \cup ends => eng'[p][t] = eng[p][t]
  <2>1. SUFFICES ASSUME NEW t \in Token
                 PROVE  LET c == eng[p][t].cluster IN
                        /\ ~Registered(p, t) => eng'[p][t] = eng[p][t]
                        /\ Registered(p, t) /\ c \in begins => Begins(p, t, x)
                        /\ Registered(p, t) /\ c \in wants \ begins => Waits(p, t)
                        /\ Registered(p, t) /\ c \in ends => Ends(p, t)
                        /\ Registered(p, t) /\ c \notin wants \cup ends
                             => eng'[p][t] = eng[p][t]
    BY Zenon
  <2>2. eng[p][t] \in Engagement /\ p \in DOMAIN eng
    BY DEF CoordInv, TypeOK
  <2> QED
    BY <1>1, <1>2, <1>4, <1>5, <1>6, <2>2, Zenon
    DEF Registered, Begins, Waits, Ends, NextWork, GuardOf, Engagement
<1>8. \A t \in Token : Registered(p, t) => eng[p][t].cluster \in mine
  <2>1. ASSUME NEW t \in Token PROVE eng[p][t].cluster \in Cluster
    BY DEF CoordInv, TypeOK, Engagement
  <2> QED
    BY <2>1, CoordinatorAssumption DEF Registered, Token, mine
<1>a. \A t \in Token : LET e0 == eng[p][t].started
                           e1 == eng'[p][t].started IN
        /\ Begins(p, t, x) => ~e0 /\ e1
        /\ Waits(p, t) => ~e0 /\ ~e1
        /\ Ends(p, t) => e0 /\ ~e1
        /\ e0 \in BOOLEAN
  <2>1. ASSUME NEW t \in Token
        PROVE  eng[p][t] \in Engagement /\ eng[p][t].started \in BOOLEAN
    BY DEF CoordInv, TypeOK, Engagement
  <2>2. ASSUME NEW t \in Token, Begins(p, t, x)
        PROVE  ~eng[p][t].started /\ eng'[p][t].started
    BY <2>1, <2>2, Zenon DEF Begins, Engagement
  <2>3. ASSUME NEW t \in Token, Waits(p, t)
        PROVE  ~eng[p][t].started /\ ~eng'[p][t].started
    BY <2>1, <2>3, Zenon DEF Waits, Engagement
  <2>4. ASSUME NEW t \in Token, Ends(p, t)
        PROVE  eng[p][t].started /\ ~eng'[p][t].started
    BY <2>1, <2>4, Zenon DEF Ends, Engagement
  <2> QED
    BY <2>1, <2>2, <2>3, <2>4, Zenon
<1>9. \A t \in Token : Begins(p, t, x) <=> Registered(p, t) /\ eng[p][t].cluster \in begins
  <2>1. ASSUME NEW t \in Token, Begins(p, t, x) PROVE Registered(p, t)
    BY <2>1, Zenon DEF Begins
  <2>2. ASSUME NEW t \in Token, Begins(p, t, x) PROVE eng[p][t].cluster \in begins
    BY <1>7, <1>a, <2>1, <2>2, Zenon
  <2> QED
    BY <1>7, <2>1, <2>2, Zenon
<1>10. \A t \in Token : Ends(p, t) <=> Registered(p, t) /\ eng[p][t].cluster \in ends
  <2>1. ASSUME NEW t \in Token, Ends(p, t) PROVE Registered(p, t)
    BY <2>1, Zenon DEF Ends
  <2>2. ASSUME NEW t \in Token, Ends(p, t) PROVE eng[p][t].cluster \in ends
    BY <1>2, <1>7, <1>a, <2>1, <2>2, Zenon
  <2> QED
    BY <1>7, <2>1, <2>2, Zenon
<1>11. {work(c) : c \in begins} = {NextWork(p, t, x) : t \in {u \in Token : Begins(p, u, x)}}
  BY <1>2, <1>3, <1>9 DEF NextWork, Registered
<1>12. {e(c).cancel : c \in ends} = {eng[p][t].cancel : t \in {u \in Token : Ends(p, u)}}
  BY <1>2, <1>3, <1>10 DEF Registered
<1>13. \A t \in Token :
         eng'[p][t] = eng[p][t] \/ Begins(p, t, x) \/ Waits(p, t) \/ Ends(p, t)
  BY <1>7, Zenon
<1>14. works'[p] = works[p] \cup {work(c) : c \in begins}
  BY <1>1, Zenon DEF CoordInv, TypeOK
<1>15. starting'[p] = starting[p] \cup {work(c) : c \in begins}
  BY <1>1, Zenon DEF CoordInv, TypeOK
<1>16. stopping'[p] = {e(c).cancel : c \in ends}
  BY <1>1, Zenon DEF CoordInv, TypeOK
<1> QED
  BY <1>11, <1>12, <1>13, <1>14, <1>15, <1>16, Zenon DEF x

\* The context recompute was called with.
LEMMA CallType ==
  ASSUME TypeOK, NEW p \in Active, NEW r \in Call
  PROVE  CallCtx(p, r.by) \in Ctx \cup {Run}
<1>1. r.by \in 0..MaxTokens /\ (r.by # 0 => r.by \in Token)
  BY CoordinatorAssumption DEF Call, Token
<1>2. r.by # 0 => eng[p][r.by] \in Engagement
  BY <1>1 DEF TypeOK
<1> QED
  BY <1>2, Zenon DEF CallCtx, Engagement

\* What recompute may be called with is a call.
LEMMA CallsTyped ==
  ASSUME TypeOK, NEW p \in Active
  PROVE  overtaken[p] \cup [by : kicks[p] \cup {0}, snap : {snapshot[p]}] \subseteq Call
<1>1. Token \cup {0} \subseteq 0..MaxTokens
  BY CoordinatorAssumption DEF Token
<1> QED
  BY <1>1, Zenon DEF TypeOK, Call

\* What the loop does to the guards: it acquires guards G that were not held, each the
\* fence of a registered engagement from now on, starts their renew loops and spawns
\* the Releases R.
LEMMA RecomputeGuards ==
  ASSUME CoordInv, NEW p \in Active, NEW r \in Call, NEW failed, NEW landed,
         RecomputeLoop(p, r, failed, landed)
  PROVE  \E G \in SUBSET Token, R \in SUBSET GuardGoroutine :
           /\ G \cap held[p] = {} /\ held'[p] = held[p] \cup G
           /\ \A g \in G : \E t \in Token : Registered(p, t) /\ eng'[p][t].fence = g
           /\ \A o \in R : o.at = "release"
           /\ fencing'[p] = fencing[p] (+) SetToBag(
                {Goroutine("loop", g, Background) : g \in G} \cup R)
<1> DEFINE mine == {c \in Cluster : engaged[p][c] # 0}
           e(c) == eng[p][engaged[p][c]]
           x == CallCtx(p, r.by)
           wants == {c \in mine : ShouldOwn(c, r.snap, p) /\ ~e(c).started}
           guard(c) == IF e(c).fence = 0 THEN engaged[p][c] ELSE e(c).fence
           tries == {c \in wants : ~e(c).throttled /\ e(c).runs < MaxRuns}
           holds == {c \in tries : guard(c) \in held[p]}
           can == {c \in tries \ holds : CtxLive(p, x) /\ Free(lease[FenceOf[c]], p)}
           got == can \ failed
           begins == holds \cup got
           ends == {c \in mine : ~ShouldOwn(c, r.snap, p) /\ e(c).started}
           work(c) == Work(engaged[p][c], e(c).runs + 1, x)
           G == {guard(c) : c \in got}
           R == {Goroutine("release", e(c).fence, x) : c \in ends}
           loops == {Goroutine("loop", guard(c), Background) : c \in got}
<1>1. held' = [held EXCEPT ![p] = @ \cup G]
  BY Zenon DEF RecomputeLoop
<1>2. fencing' = [fencing EXCEPT ![p] = @ (+) SetToBag(loops \cup R)]
  BY Zenon DEF RecomputeLoop
<1>a. eng' = [eng EXCEPT ![p] = [t \in Token |->
           LET c == eng[p][t].cluster IN
           IF engaged[p][c] # t THEN eng[p][t]
           ELSE IF c \in begins
           THEN [eng[p][t] EXCEPT !.fence = guard(c), !.started = TRUE,
                                  !.cancel = work(c), !.runs = @ + 1]
           ELSE IF c \in wants
           THEN [eng[p][t] EXCEPT !.fence = guard(c), !.throttled = @ \/ c \in tries]
           ELSE IF c \in ends
           THEN [eng[p][t] EXCEPT !.cancel = NoWork, !.started = FALSE, !.throttled = FALSE]
           ELSE eng[p][t]]]
  BY Zenon DEF RecomputeLoop
<1>3. \A c \in mine : /\ engaged[p][c] \in Token /\ e(c) \in Engagement
                      /\ e(c).cluster = c /\ Registered(p, engaged[p][c])
  <2>1. ASSUME NEW c \in mine PROVE engaged[p][c] \in Token
    BY CoordinatorAssumption DEF CoordInv, TypeOK, Token
  <2>2. ASSUME NEW c \in mine PROVE eng[p][engaged[p][c]].cluster = c
    BY Zenon DEF CoordInv, RegisteredInv
  <2> QED
    BY <2>1, <2>2 DEF CoordInv, TypeOK, Registered
<1>4. got \subseteq mine /\ ends \subseteq mine /\ \A c \in got : guard(c) \notin held[p]
  BY Zenon
<1>5. \A c \in got : ~e(c).started /\ c \in mine
  BY Zenon
<1>6. \A c \in ends : e(c).started
  BY Zenon
<1> HIDE DEF mine, wants, tries, holds, can, ends, got, x
<1>7. \A c \in mine : guard(c) \in Token
  BY <1>3, CoordinatorAssumption DEF Engagement, Token
<1>8. \A c \in ends : e(c).fence \in Token
  <2>1. \A c \in ends : e(c).fence # 0
    BY <1>3, <1>4, <1>6, Zenon DEF CoordInv, EngagementInv
  <2> QED
    BY <1>3, <1>4, <2>1, CoordinatorAssumption DEF Engagement, Token
<1>9. G \in SUBSET Token /\ G \cap held[p] = {}
  BY <1>4, <1>7, Zenon
<1>10. R \in SUBSET GuardGoroutine /\ \A o \in R : o.at = "release"
  <2>1. x \in Ctx \cup {Run}
    BY CallType, Zenon DEF CoordInv, x
  <2> QED
    BY <1>8, <2>1 DEF GuardGoroutine, Goroutine
<1>11. \A g \in G : \E t \in Token : Registered(p, t) /\ eng'[p][t].fence = g
  <2>1. SUFFICES ASSUME NEW c \in got
                 PROVE  \E t \in Token : Registered(p, t) /\ eng'[p][t].fence = guard(c)
    BY Zenon
  <2> DEFINE t == engaged[p][c]
  <2>2. /\ t \in Token /\ eng[p][t] \in Engagement /\ ~eng[p][t].started
        /\ Registered(p, t) /\ eng[p][t].cluster = c /\ t # 0
    BY <1>3, <1>4, <1>5, Zenon DEF mine
  <2>3. eng'[p][t].fence = guard(c)
    BY <1>a, <2>2, Zenon DEF CoordInv, TypeOK, Engagement
  <2> QED
    BY <2>2, <2>3, Zenon
<1>12. loops = {Goroutine("loop", g, Background) : g \in G}
  BY Zenon
<1>13. held'[p] = held[p] \cup G
  BY <1>1, Zenon DEF CoordInv, TypeOK
<1>14. fencing'[p] = fencing[p] (+) SetToBag(loops \cup R)
  BY <1>2, Zenon DEF CoordInv, TypeOK
<1> HIDE DEF G, R, loops
<1> QED
  BY <1>9, <1>10, <1>11, <1>12, <1>13, <1>14, Zenon

-----------------------------------------------------------------------------
\* Type correctness.

\* The engagement a new one starts as, and what Discard leaves.
LEMMA UnusedType == Unused \in Engagement
<1>1. (CHOOSE c \in Cluster : TRUE) \in Cluster
  BY CoordinatorAssumption, Zenon
<1> QED
  BY <1>1, CoordinatorAssumption DEF Unused, Engagement

LEMMA DiscardType ==
  ASSUME TypeOK, NEW p \in Active, NEW t
  PROVE  Discard(p, t) \in [Token -> Engagement]
<1>1. \A u \in Token : eng[p][u] \in Engagement
  BY DEF TypeOK
<1>2. \A u \in Token : [Unused EXCEPT !.cluster = eng[p][u].cluster,
                                      !.parent = eng[p][u].parent] \in Engagement
  BY <1>1, UnusedType, Zenon DEF Engagement
<1> QED
  BY <1>1, <1>2, Zenon DEF Discard

\* Discard keeps every name and parent, and all of the other engagements.
LEMMA DiscardKeeps ==
  ASSUME NEW p \in Active, NEW t, NEW u \in Token
  PROVE  /\ Discard(p, t)[u].cluster = eng[p][u].cluster
         /\ Discard(p, t)[u].parent = eng[p][u].parent
         /\ u # t => Discard(p, t)[u] = eng[p][u]
BY Zenon DEF Discard, Unused

\* Clearing a flag of an engagement changes nothing else.
LEMMA FlagType ==
  ASSUME TypeOK, NEW p \in Active, NEW t \in Token
  PROVE  /\ [eng EXCEPT ![p][t].started = FALSE] \in [Active -> [Token -> Engagement]]
         /\ [eng EXCEPT ![p][t].throttled = FALSE] \in [Active -> [Token -> Engagement]]
<1>1. eng \in [Active -> [Token -> Engagement]] /\ eng[p][t] \in Engagement
  BY DEF TypeOK
<1>2. /\ [eng[p][t] EXCEPT !.started = FALSE] \in Engagement
      /\ [eng[p][t] EXCEPT !.throttled = FALSE] \in Engagement
  BY <1>1, Zenon DEF Engagement
<1> QED
  BY <1>1, <1>2, Zenon

\* An engagement found under a name is one of the peer's.
LEMMA CurrentType ==
  ASSUME TypeOK, NEW p \in Active, NEW t \in Token
  PROVE  LET u == engaged[p][eng[p][t].cluster] IN
         /\ eng[p][t].cluster \in Cluster /\ u \in 0..MaxTokens
         /\ u # 0 => u \in Token
<1>1. eng[p][t].cluster \in Cluster
  BY DEF TypeOK, Engagement
<1>2. engaged[p][eng[p][t].cluster] \in 0..MaxTokens
  BY <1>1 DEF TypeOK
<1> QED
  BY <1>1, <1>2, CoordinatorAssumption DEF Token

\* The variables of a peer's fences, and a step that adds and ends goroutines.
FencingOK ==
  /\ fencing = [p \in Active |-> fencing[p]]
  /\ \A p \in Active : IsABag(fencing[p]) /\ BagToSet(fencing[p]) \subseteq GuardGoroutine

LEMMA EngagementTyped ==
  ASSUME CoordInv, NEW p \in Active, NEW t \in Token
  PROVE  eng[p][t] \in Engagement /\ eng[p][t].cluster \in Cluster
<1>1. eng[p][t] \in Engagement
  BY DEF CoordInv, TypeOK
<1> QED
  BY <1>1, Zenon DEF Engagement

LEMMA BegunType ==
  ASSUME NEW e \in Engagement, NEW w \in WorkId, NEW f \in 0..MaxTokens, NEW n \in 0..MaxRuns
  PROVE  [e EXCEPT !.fence = f, !.started = TRUE, !.cancel = w, !.runs = n] \in Engagement
BY Zenon DEF Engagement

LEMMA SpawnType ==
  ASSUME FencingOK, NEW p \in Active, NEW S \in SUBSET GuardGoroutine,
         fencing' = [fencing EXCEPT ![p] = @ (+) SetToBag(S)]
  PROVE  FencingOK'
<1>1. IsABag(fencing'[p]) /\ BagToSet(fencing'[p]) \subseteq GuardGoroutine
  <2>1. IsABag(fencing[p]) /\ fencing'[p] = fencing[p] (+) SetToBag(S)
    BY Zenon DEF FencingOK
  <2> QED
    BY <2>1, Spawned DEF FencingOK
<1> QED
  BY <1>1, Zenon DEF FencingOK

LEMMA BecomeType ==
  ASSUME FencingOK, NEW p \in Active, NEW E, NEW S \in SUBSET GuardGoroutine,
         fencing' = [fencing EXCEPT ![p] = (@ (-) SetToBag(E)) (+) SetToBag(S)]
  PROVE  FencingOK'
<1> DEFINE left == fencing[p] (-) SetToBag(E)
<1>1. IsABag(left) /\ BagToSet(left) \subseteq GuardGoroutine
  BY Left DEF FencingOK
<1>2. fencing'[p] = left (+) SetToBag(S)
  BY Zenon DEF FencingOK
<1> HIDE DEF left
<1>3. IsABag(fencing'[p]) /\ BagToSet(fencing'[p]) \subseteq GuardGoroutine
  BY <1>1, <1>2, Spawned
<1> QED
  BY <1>3, Zenon DEF FencingOK

LEMMA BecomeGoroutines ==
  ASSUME FencingOK, NEW p \in Active, NEW r, NEW S, Become(p, r, S), S \subseteq GuardGoroutine
  PROVE  FencingOK'
BY BecomeType, Zenon DEF Become

-----------------------------------------------------------------------------
\* What the other actions do to the engagements of their peer.

\* Engage registers a new engagement, which takes over the fence of the one it
\* replaces and forgets the rest of that.
Engages(p, c, t) ==
  LET cur == engaged[p][c] IN
  /\ t = next[p] + 1 /\ next'[p] = t /\ cur # t /\ (cur # 0 => cur \in Token)
  /\ \A d \in Cluster : engaged'[p][d] = IF d = c THEN t ELSE engaged[p][d]
  /\ \A d \in Cluster : engaged[p][d] # t
  /\ \A u \in Token : u # t => /\ eng'[p][u].cluster = eng[p][u].cluster
                               /\ eng'[p][u].parent = eng[p][u].parent
                               /\ u # cur => eng'[p][u] = eng[p][u]
  /\ cur # 0 => ~eng'[p][cur].started /\ eng'[p][cur].cancel = NoWork
  /\ eng'[p][t].cluster = c /\ ~eng'[p][t].started /\ eng'[p][t].cancel = NoWork
  /\ eng'[p][t].fence = IF cur = 0 THEN 0 ELSE eng[p][cur].fence

LEMMA EngageEffect ==
  ASSUME CoordInv, NEW p \in Active, NEW c \in Cluster, NEW x \in Ctx, Engage(p, c, x)
  PROVE  \E t \in Token : Engages(p, c, t)
<1> DEFINE t == next[p] + 1
           cur == engaged[p][c]
           new == [Unused EXCEPT !.cluster = c, !.parent = x, !.fence = KeptFence(p, cur)]
<1>1. /\ next[p] \in 0..MaxTokens /\ cur \in 0..MaxTokens
      /\ \A d \in Cluster : engaged[p][d] \in 0..MaxTokens /\ engaged[p][d] <= next[p]
  BY DEF CoordInv, TypeOK, RegisteredInv
<1>2. next[p] < MaxTokens
  BY Zenon DEF Engage
<1>3. t \in Token /\ (cur # 0 => cur \in Token) /\ \A d \in Cluster : engaged[p][d] # t
  BY <1>1, <1>2, CoordinatorAssumption DEF Token
<1>4. Discard(p, cur) \in [Token -> Engagement]
  BY DiscardType, Zenon DEF CoordInv
<1>5. eng'[p] = [Discard(p, cur) EXCEPT ![t] = new]
  <2>1. eng' = [eng EXCEPT ![p] = Discard(p, cur), ![p][t] = new]
    BY Zenon DEF Engage
  <2>2. p \in DOMAIN eng
    BY Zenon DEF CoordInv, TypeOK
  <2> HIDE DEF new, t, cur
  <2> QED
    BY <2>1, <2>2, Zenon
<1>6. /\ new.cluster = c /\ new.started = FALSE /\ new.cancel = NoWork
      /\ new.fence = KeptFence(p, cur)
  BY Zenon DEF Unused
<1>7. cur # 0 => Discard(p, cur)[cur].started = FALSE /\ Discard(p, cur)[cur].cancel = NoWork
  BY <1>3, Zenon DEF Discard, Unused
<1>8. \A d \in Cluster : engaged'[p][d] = IF d = c THEN t ELSE engaged[p][d]
  BY Zenon DEF CoordInv, TypeOK, Engage
<1>9. next'[p] = t /\ cur # t
  BY <1>3, Zenon DEF CoordInv, TypeOK, Engage
<1> HIDE DEF new, t, cur
<1>10. eng'[p][t] = new /\ \A u \in Token : u # t => eng'[p][u] = Discard(p, cur)[u]
  BY <1>3, <1>4, <1>5, Zenon
<1>11. \A u \in Token : /\ Discard(p, cur)[u].cluster = eng[p][u].cluster
                        /\ Discard(p, cur)[u].parent = eng[p][u].parent
                        /\ u # cur => Discard(p, cur)[u] = eng[p][u]
  BY DiscardKeeps, Zenon
<1>12. cur # 0 => ~eng'[p][cur].started /\ eng'[p][cur].cancel = NoWork
  BY <1>3, <1>7, <1>9, <1>10, Zenon
<1>13. /\ eng'[p][t].cluster = c /\ ~eng'[p][t].started /\ eng'[p][t].cancel = NoWork
       /\ eng'[p][t].fence = IF cur = 0 THEN 0 ELSE eng[p][cur].fence
  BY <1>6, <1>10, Zenon DEF KeptFence
<1>14. t = next[p] + 1
  BY DEF t
<1>15. Engages(p, c, t)
  <2>1. \A u \in Token : u # t => /\ eng'[p][u].cluster = eng[p][u].cluster
                                  /\ eng'[p][u].parent = eng[p][u].parent
                                  /\ u # cur => eng'[p][u] = eng[p][u]
    BY <1>10, <1>11, Zenon
  <2> QED
    BY <1>3, <1>8, <1>9, <1>12, <1>13, <1>14, <2>1, Zenon DEF Engages, cur
<1> QED
  BY <1>3, <1>15, Zenon

\* A cleanup that finds its engagement registered removes it; any other does nothing
\* to the engagements.
Ignores(p) ==
  /\ engaged'[p] = engaged[p] /\ eng'[p] = eng[p]
  /\ works'[p] = works[p] /\ fencing'[p] = fencing[p]
Removes(p, t) ==
  LET c == eng[p][t].cluster IN
  /\ Registered(p, t) /\ c \in Cluster
  /\ \A d \in Cluster : engaged'[p][d] = IF d = c THEN 0 ELSE engaged[p][d]
  /\ \A u \in Token : /\ eng'[p][u].cluster = eng[p][u].cluster
                      /\ eng'[p][u].parent = eng[p][u].parent
                      /\ u # t => eng'[p][u] = eng[p][u]
  /\ ~eng'[p][t].started /\ eng'[p][t].cancel = NoWork
  /\ works'[p] = IF eng[p][t].started THEN works[p] \ {eng[p][t].cancel} ELSE works[p]
  /\ fencing'[p] = fencing[p] (+) SetToBag(RemovalRelease(p, t))

LEMMA CleanupEffect ==
  ASSUME CoordInv, NEW p \in Active, NEW t \in Token, Cleanup(p, t)
  PROVE  Ignores(p) \/ Removes(p, t)
<1>a. TypeOK
  BY Zenon DEF CoordInv
<1>1. CASE ~StillEngaged(p, t)
  BY <1>1, Zenon DEF Cleanup, Ignores
<1>2. CASE StillEngaged(p, t)
  <2> DEFINE c == eng[p][t].cluster
  <2>1. c \in Cluster
    BY <1>a, CurrentType, Zenon
  <2>2. eng'[p] = Discard(p, t)
    BY <1>2, <1>a, Zenon DEF Cleanup, TypeOK
  <2>3. \A u \in Token : /\ Discard(p, t)[u].cluster = eng[p][u].cluster
                         /\ Discard(p, t)[u].parent = eng[p][u].parent
                         /\ u # t => Discard(p, t)[u] = eng[p][u]
    BY DiscardKeeps, Zenon
  <2>4. Discard(p, t)[t].started = FALSE /\ Discard(p, t)[t].cancel = NoWork
    BY Zenon DEF Discard, Unused
  <2>5. \A d \in Cluster : engaged'[p][d] = IF d = c THEN 0 ELSE engaged[p][d]
    BY <1>2, <1>a DEF Cleanup, TypeOK
  <2>6. works'[p] = IF eng[p][t].started THEN works[p] \ {eng[p][t].cancel} ELSE works[p]
    <3>1. t # 0
      BY CoordinatorAssumption DEF Token
    <3> QED
      BY <1>2, <1>a, <3>1, Zenon DEF Cleanup, CancelOf, TypeOK
  <2>7. fencing'[p] = fencing[p] (+) SetToBag(RemovalRelease(p, t))
    BY <1>2, <1>a, Zenon DEF Cleanup, TypeOK
  <2>8. Registered(p, t)
    BY <1>2, Zenon DEF StillEngaged, Registered
  <2> QED
    BY <2>1, <2>2, <2>3, <2>4, <2>5, <2>6, <2>7, <2>8, Zenon DEF Removes
<1> QED
  BY <1>1, <1>2, Zenon

\* An error of startForCluster and onLost stop at most one registered engagement and
\* cancel its context.
StopsOne(p) ==
  \/ eng'[p] = eng[p] /\ works'[p] = works[p]
  \/ \E t \in Token : /\ Registered(p, t)
                      /\ eng'[p] = [eng[p] EXCEPT ![t].started = FALSE]
                      /\ works'[p] = works[p] \ {eng[p][t].cancel}

LEMMA StopEffect ==
  ASSUME CoordInv, NEW p \in Active, NEW u \in Token,
         LET t == engaged[p][eng[p][u].cluster] IN
         \/ UNCHANGED <<eng, works>>
         \/ /\ t # 0 /\ works' = [works EXCEPT ![p] = @ \ CancelOf(p, t)]
            /\ eng' = [eng EXCEPT ![p][t].started = FALSE]
  PROVE  StopsOne(p)
<1> DEFINE t == engaged[p][eng[p][u].cluster]
<1>1. CASE UNCHANGED <<eng, works>>
  BY <1>1, Zenon DEF StopsOne
<1>2. CASE /\ t # 0 /\ works' = [works EXCEPT ![p] = @ \ CancelOf(p, t)]
           /\ eng' = [eng EXCEPT ![p][t].started = FALSE]
  <2>1. t \in Token /\ eng[p][u].cluster \in Cluster
    BY <1>2, CurrentType, Zenon DEF CoordInv
  <2>2. Registered(p, t)
    BY <1>2, <2>1, Zenon DEF CoordInv, RegisteredInv, Registered
  <2> HIDE DEF t
  <2>3. works'[p] = works[p] \ {eng[p][t].cancel}
    BY <1>2, Zenon DEF CoordInv, TypeOK, CancelOf
  <2>4. eng'[p] = [eng[p] EXCEPT ![t].started = FALSE]
    BY <1>2, Zenon DEF CoordInv, TypeOK
  <2> QED
    BY <2>1, <2>2, <2>3, <2>4, Zenon DEF StopsOne
<1> QED
  BY <1>1, <1>2, Zenon

\* Every step of a peer keeps the types.
LEMMA TypeStep ==
  ASSUME CoordInv, NEW p \in Active, Step(p)
  PROVE  TypeOK'
<1>a. TypeOK /\ FencingOK
  BY Zenon DEF CoordInv, TypeOK, FencingOK
<1>b. \A r \in GuardGoroutine : r.guard \in Token /\ r.ctx \in Ctx \cup {Run, Background}
  BY Zenon DEF GuardGoroutine
<1>c. \A t \in Token, x \in Ctx \cup {Run, Background} :
        /\ Goroutine("lost", t, x) \in GuardGoroutine
        /\ Goroutine("release", t, x) \in GuardGoroutine
        /\ Goroutine("clear", t, x) \in GuardGoroutine
        /\ Goroutine("loop", t, x) \in GuardGoroutine
  BY Zenon DEF GuardGoroutine, Goroutine
<1>1. ASSUME RecomputeEnd(p) PROVE TypeOK'
  BY <1>1, <1>a, Zenon DEF RecomputeEnd, TypeOK
<1>2. ASSUME NEW t \in Token, Cleanup(p, t) PROVE TypeOK'
  <2>1. eng' \in [Active -> [Token -> Engagement]]
    <3>1. Discard(p, t) \in [Token -> Engagement] /\ eng \in [Active -> [Token -> Engagement]]
      BY <1>a, DiscardType, Zenon DEF TypeOK
    <3>2. eng' = eng \/ eng' = [eng EXCEPT ![p] = Discard(p, t)]
      BY <1>2, Zenon DEF Cleanup
    <3> QED
      BY <3>1, <3>2, Zenon
  <2>2. engaged' \in [Active -> [Cluster -> 0..MaxTokens]]
    <3>1. engaged \in [Active -> [Cluster -> 0..MaxTokens]]
      BY <1>a, Zenon DEF TypeOK
    <3>2. engaged' = engaged \/ engaged' = [engaged EXCEPT ![p][eng[p][t].cluster] = 0]
      BY <1>2, Zenon DEF Cleanup
    <3>3. 0 \in 0..MaxTokens
      BY CoordinatorAssumption
    <3> QED
      BY <3>1, <3>2, <3>3
  <2>3. RemovalRelease(p, t) \in SUBSET GuardGoroutine
    <3>1. eng[p][t].fence \in 0..MaxTokens
      BY <1>a, Zenon DEF TypeOK, Engagement
    <3>2. CASE eng[p][t].fence = 0
      BY <3>2 DEF RemovalRelease
    <3>3. CASE eng[p][t].fence # 0
      <4>1. eng[p][t].fence \in Token
        BY <3>1, <3>3, CoordinatorAssumption DEF Token
      <4> QED
        BY <1>c, <3>3, <4>1, Zenon DEF RemovalRelease
    <3> QED
      BY <3>2, <3>3, Zenon
  <2>4. FencingOK'
    <3>1. CASE StillEngaged(p, t)
      BY <1>2, <1>a, <2>3, <3>1, SpawnType, Zenon DEF Cleanup
    <3>2. CASE ~StillEngaged(p, t)
      BY <1>2, <1>a, <3>2, Zenon DEF Cleanup, FencingOK
    <3> QED
      BY <3>1, <3>2, Zenon
  <2>5. works' \in [Active -> SUBSET WorkId]
    <3>1. works \in [Active -> SUBSET WorkId]
      BY <1>a, Zenon DEF TypeOK
    <3> QED
      BY <1>2, <3>1 DEF Cleanup
  <2> QED
    BY <1>2, <1>a, <2>1, <2>2, <2>4, <2>5, Zenon DEF Cleanup, TypeOK, FencingOK
<1>3. ASSUME NEW t \in Token, Renew(p, t) PROVE TypeOK'
  <2> DEFINE f == FenceFor(p, t)
  <2>1. FencingOK'
    <3>1. CASE UNCHANGED fencing
      BY <1>a, <3>1, Zenon DEF FencingOK
    <3>2. CASE Become(p, Goroutine("loop", t, Background), {Goroutine("lost", t, Background)})
      BY <1>a, <1>c, <3>2, BecomeGoroutines, Zenon
    <3> QED
      BY <1>3, <3>1, <3>2, Zenon DEF Renew
  <2>2. f \in Fence
    BY <1>a, CoordinatorAssumption DEF TypeOK, FenceFor, Engagement
  <2>3. lease' \in [Fence -> [holder : Peer \cup {Nobody}, valid : BOOLEAN]]
    <3> DEFINE renewed == [lease EXCEPT ![f] = [holder |-> p, valid |-> TRUE]]
    <3>1. renewed \in [Fence -> [holder : Peer \cup {Nobody}, valid : BOOLEAN]]
      BY <1>a, CoordinatorAssumption, Zenon DEF TypeOK
    <3>2. lease' = lease \/ lease' = renewed
      BY <1>3, Zenon DEF Renew
    <3> QED
      BY <1>a, <3>1, <3>2, Zenon DEF TypeOK
  <2> QED
    BY <1>3, <1>a, <2>1, <2>3, Zenon DEF Renew, GuardFrame, TypeOK, FencingOK
<1>4. ASSUME NEW t \in Token, OnLost(p, t) PROVE TypeOK'
  <2>1. FencingOK'
    <3>1. Become(p, Goroutine("lost", t, Background), {Goroutine("release", t, Background)})
      BY <1>4, Zenon DEF OnLost
    <3> QED
      BY <1>a, <1>c, <3>1, BecomeGoroutines, Zenon
  <2>2. eng' \in [Active -> [Token -> Engagement]]
    BY <1>4, <1>a, CurrentType, FlagType, Zenon DEF OnLost, TypeOK
  <2>3. works' \in [Active -> SUBSET WorkId]
    BY <1>4, <1>a, Zenon DEF OnLost, TypeOK
  <2> QED
    BY <1>4, <1>a, <2>1, <2>2, <2>3, Zenon DEF OnLost, GuardFrame, TypeOK, FencingOK
<1>5. ASSUME NEW w \in starting[p], StartDone(p, w) PROVE TypeOK'
  BY <1>5, <1>a, Zenon DEF StartDone, TypeOK
<1>6. ASSUME NEW w \in starting[p], StartFailed(p, w) PROVE TypeOK'
  <2>1. eng' \in [Active -> [Token -> Engagement]]
    <3>1. w.token \in Token
      BY <1>a DEF TypeOK, WorkId
    <3> QED
      BY <1>6, <1>a, <3>1, CurrentType, FlagType, Zenon DEF StartFailed, TypeOK
  <2>2. works' \in [Active -> SUBSET WorkId]
    BY <1>6, <1>a, Zenon DEF StartFailed, TypeOK
  <2> QED
    BY <1>6, <1>a, <2>1, <2>2, Zenon DEF StartFailed, TypeOK
<1>7. ASSUME NEW r \in BagToSet(fencing[p]), Release(p, r) PROVE TypeOK'
  <2>1. r \in GuardGoroutine
    BY <1>a, Zenon DEF FencingOK
  <2>2. r.guard \in Token /\ r.ctx \in Ctx \cup {Run, Background}
    BY <1>b, <2>1, Zenon
  <2>4. FencingOK'
    <3>2. CASE r.guard \notin held[p]
      <4>1. Become(p, r, {})
        BY <1>7, <3>2, Zenon DEF Release
      <4> QED
        BY <1>a, <4>1, BecomeGoroutines
    <3>1. CASE r.guard \in held[p]
      <4>1. PICK S \in SUBSET GuardGoroutine :
              fencing' = [fencing EXCEPT ![p] =
                            (fencing[p] (-) SetToBag(Ended(r))) (+) SetToBag(S)]
        BY <1>7, <1>c, <2>2, <3>1 DEF Release
      <4> QED
        BY <1>a, <4>1, BecomeType, Zenon
    <3> QED
      BY <3>1, <3>2, Zenon
  <2>5. held' \in [Active -> SUBSET Token]
    BY <1>7, <1>a, Zenon DEF Release, TypeOK
  <2> QED
    BY <1>7, <1>a, <2>4, <2>5, Zenon DEF Release, GuardFrame, TypeOK, FencingOK
<1>8. ASSUME NEW r \in BagToSet(fencing[p]), Clear(p, r) PROVE TypeOK'
  <2>1. FencingOK'
    <3>1. Become(p, r, {})
      BY <1>8, Zenon DEF Clear
    <3> QED
      BY <1>a, <3>1, BecomeGoroutines
  <2>2. lease' \in [Fence -> [holder : Peer \cup {Nobody}, valid : BOOLEAN]]
    <3>1. lease \in [Fence -> [holder : Peer \cup {Nobody}, valid : BOOLEAN]]
      BY <1>a, Zenon DEF TypeOK
    <3>2. lease' = lease \/ lease' = [lease EXCEPT ![FenceFor(p, r.guard)].holder = Nobody]
      BY <1>8, Zenon DEF Clear
    <3> QED
      BY <3>1, <3>2
  <2> QED
    BY <1>8, <1>a, <2>1, <2>2, Zenon DEF Clear, GuardFrame, TypeOK, FencingOK
<1>9. ASSUME NEW t \in Token, Unthrottle(p, t) PROVE TypeOK'
  <2>1. eng' \in [Active -> [Token -> Engagement]]
    BY <1>9, <1>a, FlagType, Zenon DEF Unthrottle
  <2> QED
    BY <1>9, <1>a, <2>1, Zenon DEF Unthrottle, GuardFrame, TypeOK
<1>10. ASSUME NEW c \in Cluster, NEW x \in Ctx, Engage(p, c, x) PROVE TypeOK'
  <2> DEFINE t == next[p] + 1
             cur == engaged[p][c]
             new == [Unused EXCEPT !.cluster = c, !.parent = x, !.fence = KeptFence(p, cur)]
  <2>1. t \in Token /\ t \in 0..MaxTokens
    BY <1>10, <1>a, CoordinatorAssumption DEF Engage, TypeOK, Token
  <2>2. KeptFence(p, cur) \in 0..MaxTokens
    <3>1. cur \in 0..MaxTokens /\ 0 \in 0..MaxTokens
      BY <1>a, CoordinatorAssumption DEF TypeOK
    <3>2. cur # 0 => cur \in Token
      BY <3>1, CoordinatorAssumption DEF Token
    <3>3. cur # 0 => eng[p][cur].fence \in 0..MaxTokens
      BY <1>a, <3>2 DEF TypeOK, Engagement
    <3> QED
      BY <3>1, <3>3, Zenon DEF KeptFence
  <2>3. new \in Engagement
    BY <2>2, UnusedType, Zenon DEF Engagement
  <2>4. eng' \in [Active -> [Token -> Engagement]]
    <3>1. Discard(p, cur) \in [Token -> Engagement] /\ eng \in [Active -> [Token -> Engagement]]
      BY <1>a, DiscardType, Zenon DEF TypeOK
    <3>2. eng' = [eng EXCEPT ![p] = Discard(p, cur), ![p][t] = new]
      BY <1>10, Zenon DEF Engage
    <3> HIDE DEF new, t
    <3> QED
      BY <2>1, <2>3, <3>1, <3>2, Zenon
  <2>5. /\ engaged' \in [Active -> [Cluster -> 0..MaxTokens]]
        /\ next' \in [Active -> 0..MaxTokens]
    BY <1>10, <1>a, <2>1, Zenon DEF Engage, TypeOK
  <2>6. /\ works' \in [Active -> SUBSET WorkId]
        /\ cleanup' \in [Active -> SUBSET Token] /\ kicks' \in [Active -> SUBSET Token]
    BY <1>10, <1>a, <2>1, Zenon DEF Engage, TypeOK
  <2> QED
    BY <1>10, <1>a, <2>4, <2>5, <2>6, Zenon DEF Engage, TypeOK
<1>11. ASSUME NEW x \in Ctx, CancelCtx(p, x) PROVE TypeOK'
  BY <1>11, <1>a, Zenon DEF CancelCtx, TypeOK
<1>12. ASSUME NEW S \in View, NEW late \in SUBSET Late, RefreshPeers(p, S, late)
       PROVE  TypeOK'
  <2>1. late \subseteq 0..MaxTokens
    BY CoordinatorAssumption DEF Token
  <2>2. {[by |-> t, snap |-> snapshot[p]] : t \in late}
          \subseteq [by : 0..MaxTokens, snap : SUBSET Peer]
    BY <1>a, <2>1 DEF TypeOK
  <2>3. overtaken' \in [Active -> SUBSET [by : 0..MaxTokens, snap : SUBSET Peer]]
    BY <1>12, <1>a, <2>2, Zenon DEF RefreshPeers, TypeOK
  <2>4. snapshot' \in [Active -> SUBSET Peer] /\ kicks' \in [Active -> SUBSET Token]
    BY <1>12, <1>a, CoordinatorAssumption, Zenon DEF RefreshPeers, TypeOK
  <2> QED
    BY <1>12, <1>a, <2>3, <2>4, Zenon DEF RefreshPeers, TypeOK
<1>13. ASSUME Crash(p) PROVE TypeOK'
  <2>1. [t \in Token |-> Unused] \in [Token -> Engagement] /\ 0 \in 0..MaxTokens
    BY UnusedType, CoordinatorAssumption
  <2>2. IsABag(EmptyBag) /\ BagToSet(EmptyBag) = {}
    BY Zenon DEF EmptyBag, SetToBag, IsABag, BagToSet
  <2>3. FencingOK'
    BY <1>13, <1>a, <2>2, Zenon DEF Crash, FencingOK
  <2>4. /\ eng' \in [Active -> [Token -> Engagement]] /\ next' \in [Active -> 0..MaxTokens]
        /\ engaged' \in [Active -> [Cluster -> 0..MaxTokens]]
    BY <1>13, <1>a, <2>1, Zenon DEF Crash, TypeOK
  <2> QED
    BY <1>13, <1>a, <2>3, <2>4, Zenon DEF Crash, TypeOK, FencingOK
<1>14. ASSUME NEW r \in overtaken[p] \cup [by : kicks[p] \cup {0}, snap : {snapshot[p]}],
              NEW failed \in SUBSET Cluster, NEW landed \in SUBSET Cluster,
              RecomputeLoop(p, r, failed, landed)
       PROVE  TypeOK'
  <2> DEFINE x == CallCtx(p, r.by)
  <2>1. r \in Call
    BY <1>a, CallsTyped, Zenon
  <2>2. x \in Ctx \cup {Run}
    BY <1>a, <2>1, CallType, Zenon
  <2>3. \A t \in Token : eng[p][t] \in Engagement
    BY <1>a DEF TypeOK
  <2>4. \A t \in Token : Begins(p, t, x) => NextWork(p, t, x) \in WorkId
    BY <2>2, <2>3, CoordinatorAssumption DEF Begins, NextWork, Work, WorkId, Engagement
  <2>5. \A t \in Token : GuardOf(p, t) \in 0..MaxTokens
    BY <2>3, CoordinatorAssumption DEF GuardOf, Engagement, Token
  <2> HIDE DEF x
  <2>6. ASSUME NEW t \in Token PROVE eng'[p][t] \in Engagement
    <3>1. CASE eng'[p][t] = eng[p][t]
      BY <2>3, <3>1, Zenon
    <3>2. CASE Begins(p, t, x)
      <4> DEFINE e == eng[p][t]
                 w == NextWork(p, t, x)
                 f == GuardOf(p, t)
                 n == e.runs + 1
      <4>1. n \in 0..MaxRuns
        BY <2>3, <3>2, CoordinatorAssumption DEF Begins, Engagement
      <4>2. e \in Engagement /\ w \in WorkId /\ f \in 0..MaxTokens
        BY <2>3, <2>4, <2>5, <3>2, Zenon
      <4>3. eng'[p][t] = [e EXCEPT !.fence = f, !.started = TRUE, !.cancel = w, !.runs = n]
        BY <3>2, Zenon DEF Begins
      <4> HIDE DEF e, w, f, n
      <4> QED
        <5>1. [e EXCEPT !.fence = f, !.started = TRUE, !.cancel = w, !.runs = n] \in Engagement
          BY <4>1, <4>2, BegunType, Zenon
        <5> QED
          BY <4>3, <5>1, Zenon
    <3>3. CASE Waits(p, t)
      <4>1. eng[p][t] \in Engagement /\ GuardOf(p, t) \in 0..MaxTokens
        BY <2>3, <2>5, Zenon
      <4> QED
        BY <3>3, <4>1, Zenon DEF Waits, Engagement
    <3>4. CASE Ends(p, t)
      <4>1. eng'[p][t] = [cluster |-> eng[p][t].cluster, parent |-> eng[p][t].parent,
                          cancel |-> NoWork, started |-> FALSE, fence |-> eng[p][t].fence,
                          throttled |-> FALSE, runs |-> eng[p][t].runs]
        <5>1. eng'[p][t] = [eng[p][t] EXCEPT !.cancel = NoWork, !.started = FALSE,
                                             !.throttled = FALSE]
          BY <3>4, Zenon DEF Ends
        <5> QED
          BY <2>3, <5>1, Zenon DEF Engagement
      <4>2. NoWork \in WorkId \cup {NoWork} /\ FALSE \in BOOLEAN
        BY Zenon
      <4> QED
        BY <2>3, <4>1, <4>2 DEF Engagement
    <3> QED
      BY <1>14, <2>1, <3>1, <3>2, <3>3, <3>4, RecomputeEngagements, Zenon DEF x
  <2>7. eng' \in [Active -> [Token -> Engagement]]
    <3>1. eng \in [Active -> [Token -> Engagement]]
      BY <1>a, Zenon DEF TypeOK
    <3>2. eng' = [eng EXCEPT ![p] = eng'[p]] /\ eng'[p] = [t \in Token |-> eng'[p][t]]
      BY <1>14, <3>1, Zenon DEF RecomputeLoop
    <3> QED
      BY <2>6, <3>1, <3>2, Zenon
  <2>8. /\ works' = [works EXCEPT ![p] = works'[p]]
        /\ starting' = [starting EXCEPT ![p] = starting'[p]]
        /\ stopping' = [stopping EXCEPT ![p] = stopping'[p]]
        /\ held' = [held EXCEPT ![p] = held'[p]]
    BY <1>14, <1>a, Zenon DEF RecomputeLoop, TypeOK
  <2>9. works'[p] \subseteq WorkId /\ starting'[p] \subseteq WorkId
    BY <1>14, <1>a, <2>1, <2>4, RecomputeEngagements DEF x, TypeOK
  <2>10. stopping'[p] \subseteq WorkId
    <3>1. \A t \in Token : Ends(p, t) => eng[p][t].cancel \in WorkId
      BY <2>3, Zenon DEF Ends, CoordInv, EngagementInv, Engagement
    <3> QED
      BY <1>14, <2>1, <3>1, RecomputeEngagements
  <2>11. PICK G \in SUBSET Token, R \in SUBSET GuardGoroutine :
           /\ G \cap held[p] = {} /\ held'[p] = held[p] \cup G
           /\ \A g \in G : \E t \in Token : Registered(p, t) /\ eng'[p][t].fence = g
           /\ \A o \in R : o.at = "release"
           /\ fencing'[p] = fencing[p] (+) SetToBag(
                {Goroutine("loop", g, Background) : g \in G} \cup R)
    BY <1>14, <2>1, RecomputeGuards, Zenon
  <2>12. FencingOK'
    <3>1. fencing' = [fencing EXCEPT ![p] = fencing'[p]]
      BY <1>14, <1>a, Zenon DEF RecomputeLoop, FencingOK
    <3>2. {Goroutine("loop", g, Background) : g \in G} \cup R \in SUBSET GuardGoroutine
      BY <1>c
    <3> QED
      BY <1>a, <2>11, <3>1, <3>2, SpawnType
  <2>13. /\ works' \in [Active -> SUBSET WorkId] /\ starting' \in [Active -> SUBSET WorkId]
         /\ stopping' \in [Active -> SUBSET WorkId] /\ held' \in [Active -> SUBSET Token]
    <3>1. held'[p] \subseteq Token
      BY <1>a, <2>11, Zenon DEF TypeOK
    <3> QED
      BY <1>a, <2>8, <2>9, <2>10, <3>1, Zenon DEF TypeOK
  <2>14. lease' \in [Fence -> [holder : Peer \cup {Nobody}, valid : BOOLEAN]]
    <3>1. \A f \in Fence : lease'[f] \in {lease[f], [holder |-> p, valid |-> TRUE]}
      BY <1>14, Zenon DEF RecomputeLoop
    <3>2. lease' = [f \in Fence |-> lease'[f]]
      BY <1>14, Zenon DEF RecomputeLoop
    <3>3. \A f \in Fence : lease[f] \in [holder : Peer \cup {Nobody}, valid : BOOLEAN]
      BY <1>a, Zenon DEF TypeOK
    <3>4. [holder |-> p, valid |-> TRUE] \in [holder : Peer \cup {Nobody}, valid : BOOLEAN]
      BY CoordinatorAssumption, Zenon
    <3> QED
      BY <3>1, <3>2, <3>3, <3>4, Zenon
  <2>15. /\ kicks' \in [Active -> SUBSET Token]
         /\ overtaken' \in [Active -> SUBSET [by : 0..MaxTokens, snap : SUBSET Peer]]
    <3>1. /\ kicks' = kicks \/ kicks' = [kicks EXCEPT ![p] = @ \ {r.by}]
          /\ overtaken' = overtaken \/ overtaken' = [overtaken EXCEPT ![p] = @ \ {r}]
      BY <1>14, Zenon DEF RecomputeLoop
    <3>2. /\ kicks \in [Active -> SUBSET Token]
          /\ overtaken \in [Active -> SUBSET [by : 0..MaxTokens, snap : SUBSET Peer]]
      BY <1>a, Zenon DEF TypeOK
    <3>3. kicks' \in [Active -> SUBSET Token]
      BY <3>1, <3>2
    <3>4. overtaken' \in [Active -> SUBSET [by : 0..MaxTokens, snap : SUBSET Peer]]
      BY <3>1, <3>2
    <3> QED
      BY <3>3, <3>4, Zenon
  <2>16. UNCHANGED <<snapshot, live, next, engaged, cleanup>>
    BY <1>14, Zenon DEF RecomputeLoop
  <2> QED
    BY <1>a, <2>7, <2>12, <2>13, <2>14, <2>15, <2>16, Zenon DEF TypeOK, FencingOK
<1> QED
  BY <1>1, <1>2, <1>3, <1>4, <1>5, <1>6, <1>7, <1>8, <1>9, <1>10, <1>11, <1>12, <1>13, <1>14, Zenon
  DEF Step, Internal, Goroutines, Recompute, Throttle, External

-----------------------------------------------------------------------------
\* Registered engagements.

\* The other steps at a peer register and remove nothing; at most they stop one
\* engagement or clear the throttle of one.
Keeps(p) ==
  /\ next'[p] = next[p] /\ engaged'[p] = engaged[p] /\ live'[p] \subseteq live[p]
  /\ \/ StopsOne(p) /\ stopping[p] = {} /\ stopping'[p] = {}
     \/ /\ \E t \in Token : eng'[p] = [eng[p] EXCEPT ![t].throttled = FALSE]
        /\ works'[p] = works[p] /\ stopping'[p] = stopping[p]
     \/ eng'[p] = eng[p] /\ works'[p] \ stopping'[p] = works[p] \ stopping[p]

Recomputes(p) ==
  \E r \in Call, failed, landed \in SUBSET Cluster : RecomputeLoop(p, r, failed, landed)

LEMMA EngagementSteps ==
  ASSUME CoordInv, NEW p \in Active, Step(p)
  PROVE  \/ \E c \in Cluster, x \in Ctx : Engage(p, c, x)
         \/ \E t \in Token : Cleanup(p, t)
         \/ Recomputes(p) \/ Crash(p) \/ Keeps(p)
<1>a. TypeOK
  BY Zenon DEF CoordInv
<1>1. ASSUME RecomputeEnd(p) PROVE Keeps(p)
  BY <1>1, <1>a, Zenon DEF RecomputeEnd, Keeps, TypeOK
<1>2. ASSUME NEW t \in Token, Renew(p, t) PROVE Keeps(p)
  BY <1>2, Zenon DEF Renew, GuardFrame, Keeps
<1>3. ASSUME NEW t \in Token, OnLost(p, t) PROVE Keeps(p)
  <2>1. StopsOne(p)
    <3>1. works \in [Active -> SUBSET WorkId]
      BY <1>a, Zenon DEF TypeOK
    <3> QED
      BY <1>3, <3>1, StopEffect, Zenon DEF OnLost
  <2> QED
    BY <1>3, <2>1, Zenon DEF OnLost, GuardFrame, Keeps
<1>4. ASSUME NEW w \in starting[p], StartDone(p, w) PROVE Keeps(p)
  BY <1>4, Zenon DEF StartDone, Keeps
<1>5. ASSUME NEW w \in starting[p], StartFailed(p, w) PROVE Keeps(p)
  <2>1. StopsOne(p)
    <3>1. works \in [Active -> SUBSET WorkId] /\ w.token \in Token
      BY <1>a DEF TypeOK, WorkId
    <3> QED
      BY <1>5, <3>1, StopEffect, Zenon DEF StartFailed
  <2> QED
    BY <1>5, <2>1, Zenon DEF StartFailed, Keeps
<1>6. ASSUME NEW r, Release(p, r) \/ Clear(p, r) PROVE Keeps(p)
  BY <1>6, Zenon DEF Release, Clear, GuardFrame, Keeps
<1>7. ASSUME NEW t \in Token, Unthrottle(p, t) PROVE Keeps(p)
  <2>1. eng'[p] = [eng[p] EXCEPT ![t].throttled = FALSE]
    BY <1>7, <1>a, Zenon DEF Unthrottle, TypeOK
  <2> QED
    BY <1>7, <2>1, Zenon DEF Unthrottle, GuardFrame, Keeps
<1>8. ASSUME NEW x \in Ctx, CancelCtx(p, x) PROVE Keeps(p)
  BY <1>8, <1>a, Zenon DEF CancelCtx, Keeps, TypeOK
<1>9. ASSUME NEW S, NEW late, RefreshPeers(p, S, late) PROVE Keeps(p)
  BY <1>9, Zenon DEF RefreshPeers, Keeps
<1>10. ASSUME Recompute(p) PROVE Recomputes(p)
  BY <1>10, <1>a, CallsTyped, Zenon DEF Recompute, Recomputes
<1> QED
  BY <1>1, <1>2, <1>3, <1>4, <1>5, <1>6, <1>7, <1>8, <1>9, <1>10, Zenon
  DEF Step, Internal, Goroutines, Throttle, External

\* A step of a peer that keeps its engagements keeps what is known of them.
LEMMA KeptFields ==
  ASSUME TypeOK, NEW p \in Active, Keeps(p), NEW t \in Token
  PROVE  /\ eng'[p][t].cluster = eng[p][t].cluster /\ eng'[p][t].parent = eng[p][t].parent
         /\ eng'[p][t].fence = eng[p][t].fence /\ eng'[p][t].cancel = eng[p][t].cancel
         /\ eng'[p][t].started => eng[p][t].started
<1>1. eng[p] \in [Token -> Engagement]
  BY Zenon DEF TypeOK
<1>2. CASE eng'[p] = eng[p]
  BY <1>2, Zenon
<1>3. ASSUME NEW u \in Token, \/ eng'[p] = [eng[p] EXCEPT ![u].throttled = FALSE]
                              \/ eng'[p] = [eng[p] EXCEPT ![u].started = FALSE]
      PROVE  /\ eng'[p][t].cluster = eng[p][t].cluster /\ eng'[p][t].parent = eng[p][t].parent
             /\ eng'[p][t].fence = eng[p][t].fence /\ eng'[p][t].cancel = eng[p][t].cancel
             /\ eng'[p][t].started => eng[p][t].started
  BY <1>1, <1>3 DEF Engagement
<1> QED
  BY <1>2, <1>3, Zenon DEF Keeps, StopsOne

\* Nor does recompute change names, parents and guards that there are.
LEMMA RecomputedFields ==
  ASSUME CoordInv, NEW p \in Active, Recomputes(p), NEW t \in Token
  PROVE  /\ eng'[p][t].cluster = eng[p][t].cluster /\ eng'[p][t].parent = eng[p][t].parent
         /\ eng[p][t].fence # 0 => eng'[p][t].fence = eng[p][t].fence
         /\ next'[p] = next[p] /\ engaged'[p] = engaged[p] /\ live'[p] = live[p]
<1>1. PICK r \in Call, failed \in SUBSET Cluster, landed \in SUBSET Cluster :
        RecomputeLoop(p, r, failed, landed)
  BY Zenon DEF Recomputes
<1> DEFINE x == CallCtx(p, r.by)
<1>2. eng[p][t] \in Engagement
  BY DEF CoordInv, TypeOK
<1>3. eng'[p][t] = eng[p][t] \/ Begins(p, t, x) \/ Waits(p, t) \/ Ends(p, t)
  BY <1>1, RecomputeEngagements, Zenon
<1> HIDE DEF x
<1>4. /\ eng'[p][t].cluster = eng[p][t].cluster /\ eng'[p][t].parent = eng[p][t].parent
      /\ eng[p][t].fence # 0 => eng'[p][t].fence = eng[p][t].fence
  <2>1. CASE Begins(p, t, x)
    BY <1>2, <2>1, Zenon DEF Begins, GuardOf, Engagement
  <2>2. CASE Waits(p, t)
    BY <1>2, <2>2, Zenon DEF Waits, GuardOf, Engagement
  <2>3. CASE Ends(p, t)
    BY <1>2, <2>3, Zenon DEF Ends, Engagement
  <2> QED
    BY <1>3, <2>1, <2>2, <2>3, Zenon
<1> QED
  BY <1>1, <1>4, Zenon DEF RecomputeLoop

\* The steps of a peer keep its registered engagements in order.
LEMMA RegisteredStep ==
  ASSUME CoordInv, NEW p \in Active, Step(p)
  PROVE  RegisteredInv(p)'
<1>1. /\ next[p] \in 0..MaxTokens /\ \A c \in Cluster : engaged[p][c] \in 0..MaxTokens
      /\ \A c \in Cluster : engaged[p][c] # 0 => engaged[p][c] \in Token
      /\ \A t \in Token : eng[p][t].cluster \in Cluster
  BY CoordinatorAssumption DEF CoordInv, TypeOK, Token, Engagement
<1>2. RegisteredInv(p)
  BY Zenon DEF CoordInv
<1>3. ASSUME NEW c \in Cluster, NEW x \in Ctx, Engage(p, c, x) PROVE RegisteredInv(p)'
  <2>1. PICK t \in Token : Engages(p, c, t)
    BY <1>3, EngageEffect, Zenon
  <2>2. /\ t = next[p] + 1 /\ next'[p] = t /\ eng'[p][t].cluster = c
        /\ \A d \in Cluster : engaged'[p][d] = IF d = c THEN t ELSE engaged[p][d]
        /\ \A u \in Token : u # t => eng'[p][u].cluster = eng[p][u].cluster
        /\ \A d \in Cluster : engaged[p][d] # t
    BY <2>1, Zenon DEF Engages
  <2> QED
    BY <1>1, <1>2, <2>2 DEF RegisteredInv
<1>4. ASSUME NEW t \in Token, Cleanup(p, t) PROVE RegisteredInv(p)'
  <2>1. next'[p] = next[p]
    BY <1>4, Zenon DEF Cleanup
  <2>2. CASE Ignores(p)
    BY <1>2, <2>1, <2>2, Zenon DEF RegisteredInv, Ignores
  <2>3. CASE Removes(p, t)
    <3>1. /\ \A d \in Cluster : engaged'[p][d] = 0 \/ engaged'[p][d] = engaged[p][d]
          /\ \A u \in Token : eng'[p][u].cluster = eng[p][u].cluster
      BY <2>3, Zenon DEF Removes
    <3> QED
      BY <1>1, <1>2, <2>1, <3>1 DEF RegisteredInv
  <2> QED
    BY <1>4, <2>2, <2>3, CleanupEffect, Zenon
<1>5. ASSUME Recomputes(p) \/ Keeps(p) PROVE RegisteredInv(p)'
  <2>1. next'[p] = next[p] /\ engaged'[p] = engaged[p]
    <3>1. ASSUME NEW r, NEW failed, NEW landed, RecomputeLoop(p, r, failed, landed)
          PROVE  next' = next /\ engaged' = engaged
      BY <3>1, Zenon DEF RecomputeLoop
    <3> QED
      BY <1>5, <3>1, Zenon DEF Recomputes, Keeps
  <2>2. \A t \in Token : eng'[p][t].cluster = eng[p][t].cluster
    BY <1>5, RecomputedFields, KeptFields DEF CoordInv
  <2> QED
    BY <1>1, <1>2, <2>1, <2>2, Zenon DEF RegisteredInv
<1>6. ASSUME Crash(p) PROVE RegisteredInv(p)'
  BY <1>6, CoordinatorAssumption DEF Crash, RegisteredInv, CoordInv, TypeOK
<1> QED
  BY <1>3, <1>4, <1>5, <1>6, EngagementSteps, Zenon

\* The steps of a peer keep the guards and contexts of its engagements in order.
LEMMA EngagementStep ==
  ASSUME CoordInv, NEW p \in Active, Step(p)
  PROVE  EngagementInv(p)'
<1>1. EngagementInv(p) /\ \A t \in Token : eng[p][t] \in Engagement
  BY DEF CoordInv, TypeOK
<1>2. ASSUME NEW c \in Cluster, NEW x \in Ctx, Engage(p, c, x) PROVE EngagementInv(p)'
  <2> DEFINE cur == engaged[p][c]
  <2>1. PICK t \in Token : Engages(p, c, t)
    BY <1>2, EngageEffect, Zenon
  <2>2. /\ \A u \in Token : u # t /\ u # cur => eng'[p][u] = eng[p][u]
        /\ cur # 0 => ~eng'[p][cur].started /\ eng'[p][cur].cancel = NoWork
        /\ ~eng'[p][t].started /\ eng'[p][t].cancel = NoWork
    BY <2>1, Zenon DEF Engages
  <2>3. \A u \in Token : u # 0
    BY CoordinatorAssumption DEF Token
  <2> HIDE DEF cur
  <2> QED
    BY <1>1, <2>2, <2>3 DEF EngagementInv
<1>3. ASSUME NEW t \in Token, Cleanup(p, t) PROVE EngagementInv(p)'
  <2>1. CASE Ignores(p)
    BY <1>1, <2>1 DEF EngagementInv, Ignores
  <2>2. CASE Removes(p, t)
    <3>1. /\ \A u \in Token : u # t => eng'[p][u] = eng[p][u]
          /\ ~eng'[p][t].started /\ eng'[p][t].cancel = NoWork
      BY <2>2, Zenon DEF Removes
    <3> QED
      BY <1>1, <3>1, Zenon DEF EngagementInv
  <2> QED
    BY <1>3, <2>1, <2>2, CleanupEffect, Zenon
<1>4. ASSUME Keeps(p) PROVE EngagementInv(p)'
  <2>1. \A t \in Token :
          /\ eng'[p][t].fence = eng[p][t].fence /\ eng'[p][t].cancel = eng[p][t].cancel
          /\ eng'[p][t].started => eng[p][t].started
    BY <1>4, KeptFields, Zenon DEF CoordInv
  <2> QED
    BY <1>1, <2>1 DEF EngagementInv
<1>5. ASSUME Crash(p) PROVE EngagementInv(p)'
  BY <1>5 DEF Crash, EngagementInv, CoordInv, TypeOK, Unused
<1>6. ASSUME NEW r \in Call, NEW failed, NEW landed, RecomputeLoop(p, r, failed, landed),
             NEW t \in Token
      PROVE  /\ eng'[p][t].started => eng'[p][t].fence # 0 /\ eng'[p][t].cancel # NoWork
             /\ eng'[p][t].cancel # NoWork => eng'[p][t].cancel.token = t
  <2> DEFINE x == CallCtx(p, r.by)
  <2>1. eng'[p][t] = eng[p][t] \/ Begins(p, t, x) \/ Waits(p, t) \/ Ends(p, t)
    BY <1>6, RecomputeEngagements, Zenon
  <2>2. x \in Ctx \cup {Run}
    BY CallType, Zenon DEF CoordInv
  <2> HIDE DEF x
  <2>3. CASE Begins(p, t, x)
    <3>1. NextWork(p, t, x) \in WorkId /\ NextWork(p, t, x).token = t
      BY <1>1, <2>2, <2>3, CoordinatorAssumption
      DEF Begins, NextWork, Work, WorkId, Engagement
    <3>2. GuardOf(p, t) # 0
      BY CoordinatorAssumption DEF GuardOf, Token
    <3>3. eng'[p][t].fence = GuardOf(p, t) /\ eng'[p][t].cancel = NextWork(p, t, x)
      BY <1>1, <2>3, Zenon DEF Begins, Engagement
    <3> QED
      BY <3>1, <3>2, <3>3, CoordinatorAssumption, Zenon
  <2>4. CASE Waits(p, t)
    BY <1>1, <2>4, Zenon DEF Waits, Engagement, EngagementInv
  <2>5. CASE Ends(p, t)
    BY <1>1, <2>5 DEF Ends, Engagement, EngagementInv
  <2> QED
    BY <1>1, <2>1, <2>3, <2>4, <2>5, Zenon DEF EngagementInv
<1>7. ASSUME Recomputes(p) PROVE EngagementInv(p)'
  BY <1>6, <1>7, Zenon DEF Recomputes, EngagementInv
<1> QED
  BY <1>2, <1>3, <1>4, <1>5, <1>7, EngagementSteps, Zenon

\* What stays at a peer keeps its invariants.
LEMMA CoordStays ==
  ASSUME NEW q \in Active, Stays(q), RegisteredInv(q), EngagementInv(q)
  PROVE  RegisteredInv(q)' /\ EngagementInv(q)'
BY Zenon DEF Stays, RegisteredInv, EngagementInv

\* Steps of time touch the Leases alone.
LEMMA TimeStays ==
  ASSUME CoordInv, NEW f \in Fence, Expire(f) \/ UNCHANGED vars, NEW q \in Active
  PROVE  Stays(q)
BY Zenon DEF Expire, GuardFrame, vars, Stays

LEMMA CoordInit == Init => CoordInv
<1>1. SUFFICES ASSUME Init PROVE CoordInv
  BY Zenon
<1>2. IsABag(EmptyBag) /\ BagToSet(EmptyBag) = {}
  BY Zenon DEF EmptyBag, SetToBag, IsABag, BagToSet
<1>3. TypeOK
  <2>1. [t \in Token |-> Unused] \in [Token -> Engagement] /\ 0 \in 0..MaxTokens
    BY UnusedType, CoordinatorAssumption
  <2>2. /\ eng \in [Active -> [Token -> Engagement]] /\ next \in [Active -> 0..MaxTokens]
        /\ engaged \in [Active -> [Cluster -> 0..MaxTokens]]
    BY <1>1, <2>1, Zenon DEF Init
  <2> QED
    BY <1>1, <1>2, <2>2, Zenon DEF Init, TypeOK
<1>4. \A p \in Active : RegisteredInv(p) /\ EngagementInv(p)
  BY <1>1, CoordinatorAssumption DEF Init, RegisteredInv, EngagementInv, Unused
<1> QED
  BY <1>3, <1>4, Zenon DEF CoordInv

LEMMA CoordStep == CoordInv /\ [Next]_vars => CoordInv'
<1>1. SUFFICES ASSUME CoordInv, [Next]_vars PROVE CoordInv'
  BY Zenon
<1>2. ASSUME NEW p \in Active, Step(p) PROVE CoordInv'
  <2>1. TypeOK'
    BY <1>1, <1>2, TypeStep, Zenon
  <2>2. ASSUME NEW q \in Active PROVE RegisteredInv(q)' /\ EngagementInv(q)'
    <3>1. CASE q = p
      BY <1>1, <1>2, <3>1, RegisteredStep, EngagementStep, Zenon
    <3>2. CASE q # p
      <4>1. Stays(q)
        BY <1>1, <1>2, <3>2, OthersStay, Zenon DEF CoordInv
      <4> QED
        BY <1>1, <4>1, CoordStays, Zenon DEF CoordInv
    <3> QED
      BY <3>1, <3>2, Zenon
  <2> QED
    BY <2>1, <2>2, Zenon DEF CoordInv
<1>3. ASSUME NEW f \in Fence, Expire(f) PROVE CoordInv'
  <2>1. TypeOK'
    <3>1. lease' \in [Fence -> [holder : Peer \cup {Nobody}, valid : BOOLEAN]]
      BY <1>1, <1>3, Zenon DEF Expire, CoordInv, TypeOK
    <3> QED
      BY <1>1, <1>3, <3>1, Zenon DEF Expire, GuardFrame, CoordInv, TypeOK
  <2>2. \A q \in Active : Stays(q)
    BY <1>1, <1>3, TimeStays, Zenon
  <2> QED
    BY <1>1, <2>1, <2>2, CoordStays, Zenon DEF CoordInv
<1>4. CASE UNCHANGED vars
  BY <1>1, <1>4 DEF vars, CoordInv, TypeOK, RegisteredInv, EngagementInv
<1> QED
  BY <1>1, <1>2, <1>3, <1>4, Zenon DEF Next, Step

LEMMA CoordAlways == Spec => []CoordInv
BY CoordInit, CoordStep, PTL DEF Spec

\* The coordinators, their goroutines and the fences keep their types: in particular
\* a Release is only ever spawned for a guard there is, and recompute only cancels
\* contexts it has given out (coordinator.go:239,335,340,363).
THEOREM TypeCorrect == Spec => []TypeOK
<1>1. CoordInv => TypeOK
  BY Zenon DEF CoordInv
<1> QED
  BY <1>1, CoordAlways, PTL

-----------------------------------------------------------------------------
\* The newest engagement of a name.

NewestAt(p) ==
  \A t \in Token :
    (/\ t <= next[p] /\ CtxLive(p, eng[p][t].parent)
     /\ \A u \in Token : t < u /\ u <= next[p] => eng[p][u].cluster # eng[p][t].cluster)
      => Current(p, eng[p][t].cluster) = t

\* Only Engage makes a newest engagement, which it registers, and a cleanup removes
\* only one whose own parent is done.
LEMMA NewestStep ==
  ASSUME CoordInv, NEW p \in Active, Step(p), NewestAt(p)
  PROVE  NewestAt(p)'
<1>1. /\ next[p] \in 0..MaxTokens /\ Token \subseteq Nat
      /\ \A t \in Token : eng[p][t].cluster \in Cluster
  BY CoordinatorAssumption DEF CoordInv, TypeOK, Token, Engagement
<1>2. ASSUME NEW c \in Cluster, NEW x \in Ctx, Engage(p, c, x) PROVE NewestAt(p)'
  <2>n. PICK n \in Token : Engages(p, c, n)
    BY <1>2, EngageEffect, Zenon
  <2>1. /\ n = next[p] + 1 /\ next'[p] = n /\ eng'[p][n].cluster = c
        /\ \A d \in Cluster : engaged'[p][d] = IF d = c THEN n ELSE engaged[p][d]
        /\ \A u \in Token : u # n => /\ eng'[p][u].cluster = eng[p][u].cluster
                                     /\ eng'[p][u].parent = eng[p][u].parent
    BY <2>n, Zenon DEF Engages
  <2>2. live' = live
    BY <1>2, Zenon DEF Engage
  <2>3. SUFFICES ASSUME NEW t \in Token, t <= next'[p], CtxLive(p, eng[p][t].parent)',
                        \A u \in Token : t < u /\ u <= next'[p] =>
                          eng'[p][u].cluster # eng'[p][t].cluster
                 PROVE  engaged'[p][eng'[p][t].cluster] = t
    BY Zenon DEF NewestAt, Current
  <2>4. CASE t = n
    BY <2>1, <2>4, Zenon
  <2>5. CASE t # n
    <3>1. t <= next[p] /\ t < n
      BY <1>1, <2>1, <2>3, <2>5
    <3>2. eng[p][t].cluster # c
      <4>1. n <= next'[p]
        BY <1>1, <2>1
      <4> QED
        BY <2>1, <2>3, <2>5, <3>1, <4>1, Zenon
    <3>3. \A u \in Token : t < u /\ u <= next[p] => eng[p][u].cluster # eng[p][t].cluster
      BY <1>1, <2>1, <2>3, <2>5
    <3>4. CtxLive(p, eng[p][t].parent)
      BY <2>1, <2>2, <2>3, <2>5, Zenon DEF CtxLive
    <3>5. engaged[p][eng[p][t].cluster] = t
      BY <3>1, <3>3, <3>4, Zenon DEF NewestAt, Current
    <3> QED
      BY <1>1, <2>1, <2>5, <3>2, <3>5, Zenon
  <2> QED
    BY <2>4, <2>5, Zenon
<1>3. ASSUME /\ next'[p] = next[p] /\ live'[p] \subseteq live[p]
             /\ \A t \in Token : /\ eng'[p][t].cluster = eng[p][t].cluster
                                 /\ eng'[p][t].parent = eng[p][t].parent
                                 /\ CtxLive(p, eng[p][t].parent) /\ Registered(p, t)
                                      => engaged'[p][eng[p][t].cluster] = t
      PROVE  NewestAt(p)'
  <2>1. \A t \in Token : CtxLive(p, eng[p][t].parent)' => CtxLive(p, eng[p][t].parent)
    BY <1>3, Zenon DEF CtxLive
  <2> QED
    BY <1>3, <2>1 DEF NewestAt, Current, Registered
<1>4. ASSUME NEW t \in Token, Cleanup(p, t) PROVE NewestAt(p)'
  <2>1. next' = next /\ live' = live /\ ~CtxLive(p, eng[p][t].parent)
    BY <1>4, Zenon DEF Cleanup
  <2>2. CASE Ignores(p)
    BY <1>3, <2>1, <2>2, Zenon DEF Ignores, Registered
  <2>3. CASE Removes(p, t)
    <3>1. /\ Registered(p, t)
          /\ \A d \in Cluster : engaged'[p][d] = IF d = eng[p][t].cluster THEN 0
                                                 ELSE engaged[p][d]
          /\ \A u \in Token : /\ eng'[p][u].cluster = eng[p][u].cluster
                              /\ eng'[p][u].parent = eng[p][u].parent
      BY <2>3, Zenon DEF Removes
    <3>2. \A u \in Token : CtxLive(p, eng[p][u].parent) /\ Registered(p, u)
                             => engaged'[p][eng[p][u].cluster] = u
      BY <1>1, <2>1, <3>1, Zenon DEF Registered
    <3> QED
      BY <1>3, <2>1, <3>1, <3>2, Zenon
  <2> QED
    BY <1>4, <2>2, <2>3, CleanupEffect, Zenon
<1>5. ASSUME Recomputes(p) PROVE NewestAt(p)'
  <2>1. next'[p] = next[p] /\ engaged'[p] = engaged[p] /\ live'[p] = live[p]
    <3>1. ASSUME NEW r, NEW failed, NEW landed, RecomputeLoop(p, r, failed, landed)
          PROVE  next' = next /\ engaged' = engaged /\ live' = live
      BY <3>1, Zenon DEF RecomputeLoop
    <3> QED
      BY <1>5, <3>1, Zenon DEF Recomputes
  <2> QED
    BY <1>3, <1>5, <2>1, RecomputedFields, Zenon DEF Registered
<1>6. ASSUME Keeps(p) PROVE NewestAt(p)'
  <2>1. next'[p] = next[p] /\ engaged'[p] = engaged[p] /\ live'[p] \subseteq live[p]
    BY <1>6, Zenon DEF Keeps
  <2>2. \A t \in Token : /\ eng'[p][t].cluster = eng[p][t].cluster
                         /\ eng'[p][t].parent = eng[p][t].parent
    BY <1>6, KeptFields, Zenon DEF CoordInv
  <2> QED
    BY <1>3, <2>1, <2>2, Zenon DEF Registered
<1>7. ASSUME Crash(p) PROVE NewestAt(p)'
  <2>1. next'[p] = 0
    BY <1>7, Zenon DEF Crash, CoordInv, TypeOK
  <2> QED
    BY <2>1 DEF NewestAt, Token
<1> QED
  BY <1>2, <1>4, <1>5, <1>6, <1>7, EngagementSteps, Zenon

\* However Engage calls, cancellations and cleanups interleave, at every peer and for
\* any number of names and engagements, the last engagement of a name stays
\* registered while its own parent is live (coordinator.go:231,235,254).
THEOREM NewestKept == Spec => []NewestStaysEngaged
<1> DEFINE Inv == \A p \in Active : NewestAt(p)
<1>1. Init => Inv
  BY DEF Init, NewestAt, Token
<1>2. CoordInv /\ Inv /\ [Next]_vars => Inv'
  <2>1. SUFFICES ASSUME CoordInv, Inv, [Next]_vars, NEW q \in Active PROVE NewestAt(q)'
    BY Zenon
  <2>2. ASSUME Stays(q) PROVE NewestAt(q)'
    BY <2>1, <2>2, Zenon DEF Stays, NewestAt, CtxLive, Current
  <2>3. CASE UNCHANGED vars
    BY <2>2, <2>3, Zenon DEF vars, Stays
  <2>4. ASSUME NEW f \in Fence, Expire(f) PROVE NewestAt(q)'
    BY <2>1, <2>2, <2>4, TimeStays, Zenon
  <2>5. ASSUME NEW p \in Active, Step(p) PROVE NewestAt(q)'
    BY <2>1, <2>2, <2>5, NewestStep, OthersStay, Zenon DEF CoordInv
  <2> QED
    BY <2>1, <2>3, <2>4, <2>5, Zenon DEF Next, Step
<1>3. Inv => NewestStaysEngaged
  BY Zenon DEF NewestAt, NewestStaysEngaged
<1> QED
  BY <1>1, <1>2, <1>3, CoordAlways, PTL DEF Spec

-----------------------------------------------------------------------------
\* The contexts given to the clusters' work.

OnlyWorkAt(p) ==
  /\ \A t \in Token : Registered(p, t) /\ eng[p][t].started =>
       eng[p][t].cancel \in works[p] \ stopping[p]
  /\ \A w \in works[p] \ stopping[p] :
       Registered(p, w.token) /\ eng[p][w.token].started /\ eng[p][w.token].cancel = w

\* Contexts and what they say of their engagement.
LEMMA OwnContext ==
  ASSUME CoordInv, NEW p \in Active
  PROVE  /\ \A w \in works[p] : w \in WorkId /\ w.token \in Token /\ w # NoWork
         /\ \A t \in Token : eng[p][t].started => eng[p][t].cancel.token = t
         /\ \A t \in Token : eng[p][t].cancel \in works[p] => eng[p][t].cancel.token = t
<1>1. \A w \in works[p] : w \in WorkId /\ w.token \in Token /\ w # NoWork
  BY CoordinatorAssumption DEF CoordInv, TypeOK, WorkId
<1> QED
  BY <1>1, Zenon DEF CoordInv, EngagementInv

\* Stopping the engagements in D is right when exactly their contexts are cancelled.
LEMMA DropWork ==
  ASSUME CoordInv, NEW p \in Active, OnlyWorkAt(p), stopping[p] = {}, stopping'[p] = {},
         NEW D, \A t \in Token \cap D : ~eng'[p][t].started,
         \A t \in Token \ D : /\ eng'[p][t].started => eng[p][t].started
                              /\ eng[p][t].started =>
                                   /\ eng'[p][t].started /\ eng'[p][t].cancel = eng[p][t].cancel
                                   /\ Registered(p, t)' <=> Registered(p, t),
         \A w \in works[p] : w.token \notin D <=> w \in works'[p],
         works'[p] \subseteq works[p]
  PROVE  OnlyWorkAt(p)'
<1>1. ASSUME NEW t \in Token, Registered(p, t)', eng'[p][t].started
      PROVE  eng'[p][t].cancel \in works'[p] \ stopping'[p]
  <2>1. t \notin D /\ eng[p][t].started /\ Registered(p, t)
    BY <1>1, Zenon
  <2>2. eng[p][t].cancel \in works[p] /\ eng[p][t].cancel.token = t
    BY <2>1, OwnContext, Zenon DEF OnlyWorkAt
  <2> QED
    BY <2>1, <2>2
<1>2. ASSUME NEW w \in works'[p]
      PROVE  /\ Registered(p, w.token)' /\ eng'[p][w.token].started
             /\ eng'[p][w.token].cancel = w
  <2>1. w \in works[p] /\ w.token \notin D /\ w.token \in Token
    BY <1>2, OwnContext, Zenon
  <2>2. Registered(p, w.token) /\ eng[p][w.token].started /\ eng[p][w.token].cancel = w
    BY <2>1, Zenon DEF OnlyWorkAt
  <2> QED
    BY <2>1, <2>2, Zenon
<1> QED
  BY <1>1, <1>2, Zenon DEF OnlyWorkAt

\* Every action starts and cancels contexts together with its engagements.
LEMMA WorkStep ==
  ASSUME CoordInv, NEW p \in Active, Step(p), OnlyWorkAt(p)
  PROVE  OnlyWorkAt(p)'
<1>1. \A t \in Token : /\ eng[p][t] \in Engagement /\ eng[p][t].cluster \in Cluster /\ t # 0
                       /\ eng[p][t].started \in BOOLEAN
  BY CoordinatorAssumption DEF CoordInv, TypeOK, Engagement, Token
<1>2. ASSUME NEW c \in Cluster, NEW x \in Ctx, Engage(p, c, x) PROVE OnlyWorkAt(p)'
  <2> DEFINE cur == engaged[p][c]
  <2>n. PICK n \in Token : Engages(p, c, n)
    BY <1>2, EngageEffect, Zenon
  <2>1. /\ cur # n /\ (cur # 0 => cur \in Token)
        /\ \A d \in Cluster : engaged'[p][d] = IF d = c THEN n ELSE engaged[p][d]
        /\ \A d \in Cluster : engaged[p][d] # n
        /\ \A u \in Token : u # n /\ u # cur => eng'[p][u] = eng[p][u]
        /\ cur # 0 => ~eng'[p][cur].started
        /\ ~eng'[p][n].started
    BY <2>n, Zenon DEF Engages
  <2>2. stopping[p] = {} /\ stopping'[p] = {} /\ works'[p] = works[p] \ CancelOf(p, cur)
    BY <1>2, Zenon DEF Engage, CoordInv, TypeOK
  <2> HIDE DEF cur
  <2>3. \A t \in Token \ {n, cur} : Registered(p, t)' <=> Registered(p, t)
    <3>1. SUFFICES ASSUME NEW t \in Token \ {n, cur}
                   PROVE  Registered(p, t)' <=> Registered(p, t)
      BY Zenon
    <3>2. eng'[p][t] = eng[p][t] /\ eng[p][t].cluster \in Cluster
      BY <1>1, <2>1, Zenon
    <3> QED
      BY <2>1, <3>2, Zenon DEF Registered, cur
  <2>4. \A w \in works[p] : w.token \notin {n, cur} <=> w \in works'[p]
    <3>1. SUFFICES ASSUME NEW w \in works[p]
                   PROVE  w.token \notin {n, cur} <=> w \in works'[p]
      BY Zenon
    <3>2. /\ w.token \in Token /\ Registered(p, w.token) /\ eng[p][w.token].cancel = w
          /\ eng[p][w.token].cluster \in Cluster
      BY <1>1, <2>2, OwnContext, Zenon DEF OnlyWorkAt
    <3>3. w.token # n
      BY <2>1, <3>2, Zenon DEF Registered
    <3>4. w.token = cur <=> w \in CancelOf(p, cur)
      BY <1>1, <2>1, <3>2, OwnContext DEF CancelOf
    <3> QED
      BY <2>2, <3>3, <3>4, Zenon
  <2>5. works'[p] \subseteq works[p]
    BY <2>2, Zenon
  <2> QED
    BY <1>1, <2>1, <2>2, <2>3, <2>4, <2>5, DropWork, Zenon
<1>3. ASSUME NEW t \in Token, stopping[p] = {}, stopping'[p] = {}, ~eng'[p][t].started,
             \A u \in Token \ {t} : /\ eng'[p][u] = eng[p][u]
                                    /\ Registered(p, u)' <=> Registered(p, u),
             Registered(p, t),
             \/ works'[p] = works[p] \ {eng[p][t].cancel}
             \/ works'[p] = works[p] /\ ~eng[p][t].started
      PROVE  OnlyWorkAt(p)'
  <2>1. \A w \in works[p] : w.token \notin {t} <=> w \in works'[p]
    <3>1. SUFFICES ASSUME NEW w \in works[p] PROVE w.token # t <=> w \in works'[p]
      BY Zenon
    <3>2. w.token = t => eng[p][t].started /\ eng[p][t].cancel = w
      BY <1>3, Zenon DEF OnlyWorkAt
    <3>3. eng[p][t].cancel = w => w.token = t
      BY OwnContext, Zenon
    <3> QED
      BY <1>3, <3>2, <3>3, Zenon
  <2>2. works'[p] \subseteq works[p]
    BY <1>3, Zenon
  <2> QED
    BY <1>1, <1>3, <2>1, <2>2, DropWork, Zenon
<1>4. ASSUME NEW t \in Token, Cleanup(p, t) PROVE OnlyWorkAt(p)'
  <2>1. stopping[p] = {} /\ stopping'[p] = {}
    BY <1>4, Zenon DEF Cleanup
  <2>2. CASE Ignores(p)
    BY <2>1, <2>2 DEF Ignores, OnlyWorkAt, Registered
  <2>3. CASE Removes(p, t)
    <3>1. /\ Registered(p, t) /\ ~eng'[p][t].started
          /\ \A d \in Cluster : engaged'[p][d] = IF d = eng[p][t].cluster THEN 0
                                                 ELSE engaged[p][d]
          /\ \A u \in Token \ {t} : eng'[p][u] = eng[p][u]
          /\ \/ works'[p] = works[p] \ {eng[p][t].cancel}
             \/ works'[p] = works[p] /\ ~eng[p][t].started
      BY <2>3, Zenon DEF Removes
    <3>2. \A u \in Token \ {t} : Registered(p, u)' <=> Registered(p, u)
      BY <1>1, <3>1 DEF Registered
    <3> QED
      BY <1>3, <2>1, <3>1, <3>2, Zenon
  <2> QED
    BY <1>4, <2>2, <2>3, CleanupEffect, Zenon
<1>5. ASSUME Keeps(p) PROVE OnlyWorkAt(p)'
  <2>1. engaged'[p] = engaged[p]
    BY <1>5, Zenon DEF Keeps
  <2>2. \A u \in Token : Registered(p, u)' <=> Registered(p, u)
    BY <1>5, <2>1, KeptFields, Zenon DEF Registered, CoordInv
  <2>3. ASSUME eng'[p] = eng[p], works'[p] \ stopping'[p] = works[p] \ stopping[p]
        PROVE  OnlyWorkAt(p)'
    BY <2>1, <2>3 DEF OnlyWorkAt, Registered
  <2>4. ASSUME NEW t \in Token, eng'[p] = [eng[p] EXCEPT ![t].throttled = FALSE],
               works'[p] = works[p], stopping'[p] = stopping[p]
        PROVE  OnlyWorkAt(p)'
    <3>1. \A u \in Token : /\ eng'[p][u].started = eng[p][u].started
                           /\ eng'[p][u].cancel = eng[p][u].cancel
      BY <1>1, <2>4 DEF CoordInv, TypeOK, Engagement
    <3> QED
      BY <2>2, <2>4, <3>1, OwnContext DEF OnlyWorkAt
  <2>5. ASSUME StopsOne(p), stopping[p] = {}, stopping'[p] = {} PROVE OnlyWorkAt(p)'
    <3>1. CASE eng'[p] = eng[p] /\ works'[p] = works[p]
      BY <2>3, <2>5, <3>1, Zenon
    <3>2. ASSUME NEW t \in Token, Registered(p, t),
                 eng'[p] = [eng[p] EXCEPT ![t].started = FALSE],
                 works'[p] = works[p] \ {eng[p][t].cancel}
          PROVE  OnlyWorkAt(p)'
      <4>1. ~eng'[p][t].started /\ \A u \in Token \ {t} : eng'[p][u] = eng[p][u]
        BY <1>1, <3>2 DEF CoordInv, TypeOK, Engagement
      <4> QED
        BY <1>3, <2>2, <2>5, <3>2, <4>1, Zenon
    <3> QED
      BY <2>5, <3>1, <3>2, Zenon DEF StopsOne
  <2> QED
    BY <1>5, <2>3, <2>4, <2>5, Zenon DEF Keeps
<1>6. ASSUME Crash(p) PROVE OnlyWorkAt(p)'
  <2>1. works'[p] = {} /\ \A t \in Token : ~eng'[p][t].started
    BY <1>6, Zenon DEF Crash, CoordInv, TypeOK, Unused
  <2> QED
    BY <2>1, Zenon DEF OnlyWorkAt
<1>7. ASSUME NEW r \in Call, NEW failed, NEW landed, RecomputeLoop(p, r, failed, landed),
             Recomputes(p)
      PROVE  OnlyWorkAt(p)'
  <2> DEFINE x == CallCtx(p, r.by)
  <2>1. stopping[p] = {} /\ engaged'[p] = engaged[p]
    BY <1>7, Zenon DEF RecomputeLoop
  <2>2. /\ \A t \in Token :
             eng'[p][t] = eng[p][t] \/ Begins(p, t, x) \/ Waits(p, t) \/ Ends(p, t)
        /\ works'[p] = works[p] \cup {NextWork(p, t, x) : t \in {u \in Token : Begins(p, u, x)}}
        /\ stopping'[p] = {eng[p][t].cancel : t \in {u \in Token : Ends(p, u)}}
    BY <1>7, RecomputeEngagements, Zenon
  <2> HIDE DEF x
  <2>3. \A t \in Token : Registered(p, t)' <=> Registered(p, t)
    BY <1>7, <2>1, RecomputedFields, Zenon DEF Registered
  <2>4. ASSUME NEW t \in Token
        PROVE  /\ Begins(p, t, x) => /\ Registered(p, t) /\ eng'[p][t].started
                                     /\ eng'[p][t].cancel = NextWork(p, t, x)
                                     /\ NextWork(p, t, x).token = t /\ ~Ends(p, t)
               /\ Waits(p, t) => ~eng[p][t].started /\ ~eng'[p][t].started
               /\ Ends(p, t) => ~eng'[p][t].started /\ eng[p][t].cancel.token = t
    <3>1. ASSUME Begins(p, t, x) PROVE /\ Registered(p, t) /\ eng'[p][t].started
                                       /\ eng'[p][t].cancel = NextWork(p, t, x) /\ ~Ends(p, t)
      BY <1>1, <3>1, Zenon DEF Begins, Ends, Engagement
    <3>2. NextWork(p, t, x).token = t
      BY Zenon DEF NextWork, Work
    <3>3. ASSUME Waits(p, t) PROVE ~eng[p][t].started /\ ~eng'[p][t].started
      BY <1>1, <3>3, Zenon DEF Waits, Engagement
    <3>4. ASSUME Ends(p, t) PROVE ~eng'[p][t].started /\ eng[p][t].started
      BY <1>1, <3>4, Zenon DEF Ends, Engagement
    <3> QED
      BY <3>1, <3>2, <3>3, <3>4, OwnContext, Zenon
  <2>5. ASSUME NEW t \in Token, Registered(p, t)', eng'[p][t].started
        PROVE  eng'[p][t].cancel \in works'[p] \ stopping'[p]
    <3>1. \A u \in Token : Ends(p, u) => eng[p][u].cancel.token = u
      BY <2>4, Zenon
    <3>2. ~Ends(p, t) /\ ~Waits(p, t)
      BY <2>4, <2>5, Zenon
    <3>3. CASE Begins(p, t, x)
      BY <2>2, <2>4, <3>1, <3>2, <3>3
    <3>4. CASE eng'[p][t] = eng[p][t]
      <4>1. eng[p][t].cancel \in works[p] /\ eng[p][t].cancel.token = t
        BY <2>1, <2>3, <2>5, <3>4, OwnContext, Zenon DEF OnlyWorkAt
      <4> QED
        BY <2>2, <3>1, <3>2, <3>4, <4>1, Zenon
    <3> QED
      BY <2>2, <3>2, <3>3, <3>4, Zenon
  <2>6. ASSUME NEW w \in works'[p] \ stopping'[p]
        PROVE  /\ Registered(p, w.token)' /\ eng'[p][w.token].started
               /\ eng'[p][w.token].cancel = w
    <3>1. CASE w \in works[p]
      <4>1. /\ w.token \in Token /\ Registered(p, w.token) /\ eng[p][w.token].started
            /\ eng[p][w.token].cancel = w
        BY <2>1, <3>1, OwnContext, Zenon DEF OnlyWorkAt
      <4>2. ~Ends(p, w.token)
        BY <2>2, <2>6, <4>1, Zenon
      <4>3. ~Waits(p, w.token) /\ ~Begins(p, w.token, x)
        BY <2>4, <4>1, Zenon DEF Begins
      <4>4. eng'[p][w.token] = eng[p][w.token]
        BY <2>2, <4>1, <4>2, <4>3, Zenon
      <4> QED
        BY <2>3, <4>1, <4>4, Zenon
    <3>2. CASE w \notin works[p]
      <4>1. PICK t \in Token : Begins(p, t, x) /\ w = NextWork(p, t, x)
        BY <2>2, <2>6, <3>2, Zenon
      <4> QED
        BY <2>3, <2>4, <4>1, Zenon
    <3> QED
      BY <3>1, <3>2, Zenon
  <2> QED
    BY <2>5, <2>6, Zenon DEF OnlyWorkAt
<1> QED
  BY <1>2, <1>4, <1>5, <1>6, <1>7, EngagementSteps, Zenon DEF Recomputes

\* No work context is leaked and none is shared, for any number of clusters, starts,
\* losses and replacements: the contexts still uncancelled are those of the started
\* engagements and those recompute is about to cancel (coordinator.go:224,236,304,330,
\* 349,363).
THEOREM WorkAccounted == Spec => []StartedIsTheOnlyWork
<1> DEFINE Inv == \A p \in Active : OnlyWorkAt(p)
<1>1. Init => Inv
  BY DEF Init, OnlyWorkAt, Unused
<1>2. CoordInv /\ Inv /\ [Next]_vars => Inv'
  <2>1. SUFFICES ASSUME CoordInv, Inv, [Next]_vars, NEW q \in Active PROVE OnlyWorkAt(q)'
    BY Zenon
  <2>2. ASSUME Stays(q) PROVE OnlyWorkAt(q)'
    BY <2>1, <2>2 DEF Stays, OnlyWorkAt, Registered
  <2>3. CASE UNCHANGED vars
    BY <2>2, <2>3, Zenon DEF vars, Stays
  <2>4. ASSUME NEW f \in Fence, Expire(f) PROVE OnlyWorkAt(q)'
    BY <2>1, <2>2, <2>4, TimeStays, Zenon
  <2>5. ASSUME NEW p \in Active, Step(p) PROVE OnlyWorkAt(q)'
    BY <2>1, <2>2, <2>5, WorkStep, OthersStay, Zenon DEF CoordInv
  <2> QED
    BY <2>1, <2>3, <2>4, <2>5, Zenon DEF Next, Step
<1>3. CoordInv /\ Inv => StartedIsTheOnlyWork
  <2>1. SUFFICES ASSUME CoordInv, Inv, NEW p \in Active
                 PROVE  /\ \A c \in Cluster : Current(p, c) # 0 /\ eng[p][Current(p, c)].started =>
                             eng[p][Current(p, c)].cancel \in works[p] \ stopping[p]
                        /\ \A w \in works[p] \ stopping[p] :
                             LET t == Current(p, eng[p][w.token].cluster) IN
                             t = w.token /\ eng[p][t].started /\ eng[p][t].cancel = w
    BY Zenon DEF StartedIsTheOnlyWork
  <2>2. \A c \in Cluster : Current(p, c) # 0 => Current(p, c) \in Token
                                                /\ Registered(p, Current(p, c))
    BY <2>1, CoordinatorAssumption
    DEF CoordInv, TypeOK, RegisteredInv, Registered, Current, Token
  <2>3. OnlyWorkAt(p)
    BY <2>1, Zenon
  <2>4. \A c \in Cluster : Current(p, c) # 0 /\ eng[p][Current(p, c)].started =>
          eng[p][Current(p, c)].cancel \in works[p] \ stopping[p]
    BY <2>2, <2>3, Zenon DEF OnlyWorkAt
  <2> QED
    BY <2>3, <2>4, Zenon DEF OnlyWorkAt, Registered, Current
<1> QED
  BY <1>1, <1>2, <1>3, CoordAlways, PTL DEF Spec

-----------------------------------------------------------------------------
\* Guards, their renew loops and their releases.

FencesAt(p) ==
  \A g \in held[p] : (\E t \in Token : Registered(p, t) /\ eng[p][t].fence = g)
                     \/ GivingUp(p, g)

Loop(g) == Goroutine("loop", g, Background)

RenewersAt(p) ==
  \A g \in Token :
    /\ Count(Loop(g), fencing[p]) <= 1
    /\ Count(Loop(g), fencing[p]) = 1 => g \in held[p]
    /\ g \in held[p] => Count(Loop(g), fencing[p]) = 1 \/ GivingUp(p, g)

\* Spawning releases changes no renew loop and only adds to what gives up guards.
LEMMA SpawnReleases ==
  ASSUME CoordInv, NEW p \in Active, NEW S, \A r \in S : r.at # "loop",
         fencing'[p] = fencing[p] (+) SetToBag(S)
  PROVE  /\ \A g : Count(Loop(g), fencing'[p]) = Count(Loop(g), fencing[p])
         /\ \A g : GivingUp(p, g) => GivingUp(p, g)'
<1>1. IsABag(fencing[p])
  BY Zenon DEF CoordInv, TypeOK
<1>2. /\ BagToSet(fencing'[p]) = BagToSet(fencing[p]) \cup S
      /\ \A e : Count(e, fencing'[p]) = Count(e, fencing[p]) + (IF e \in S THEN 1 ELSE 0)
  BY <1>1, Spawned
<1>3. \A g : Loop(g) \notin S
  BY Zenon DEF Loop, Goroutine
<1>4. \A g : Count(Loop(g), fencing[p]) \in Nat
  BY <1>1, Copies, Zenon
<1>5. \A g : Count(Loop(g), fencing'[p]) = Count(Loop(g), fencing[p])
  BY <1>2, <1>3, <1>4
<1>6. \A g : GivingUp(p, g) => GivingUp(p, g)'
  BY <1>2, Zenon DEF GivingUp
<1> QED
  BY <1>5, <1>6, Zenon

\* The goroutines in E end and those in S take their place.
LEMMA Replaced ==
  ASSUME CoordInv, NEW p \in Active, NEW E, NEW S,
         fencing'[p] = (fencing[p] (-) SetToBag(E)) (+) SetToBag(S)
  PROVE  /\ BagToSet(fencing[p]) \ E \subseteq BagToSet(fencing'[p])
         /\ S \subseteq BagToSet(fencing'[p])
         /\ \A e : e \in BagToSet(fencing[p]) \cap E /\ e \notin S =>
                     Count(e, fencing'[p]) = Count(e, fencing[p]) - 1
         /\ \A e : e \notin E /\ e \notin S => Count(e, fencing'[p]) = Count(e, fencing[p])
         /\ \A e : e \notin BagToSet(fencing[p]) /\ e \notin S => Count(e, fencing'[p]) = 0
<1> DEFINE B == fencing[p]
           C == B (-) SetToBag(E)
<1>1. IsABag(B)
  BY Zenon DEF CoordInv, TypeOK
<1>2. /\ IsABag(C) /\ BagToSet(B) \ E \subseteq BagToSet(C)
      /\ \A e : Count(e, C) = IF e \in E /\ e \in BagToSet(B) THEN Count(e, B) - 1
                              ELSE Count(e, B)
  BY <1>1, Left
<1>3. /\ BagToSet(fencing'[p]) = BagToSet(C) \cup S
      /\ \A e : Count(e, fencing'[p]) = Count(e, C) + (IF e \in S THEN 1 ELSE 0)
  BY <1>2, Spawned
<1>4. \A e : Count(e, B) \in Nat /\ (e \notin BagToSet(B) => Count(e, B) = 0)
  BY <1>1, Zenon DEF IsABag, BagToSet, Count
<1> HIDE DEF B, C
<1>5. BagToSet(B) \ E \subseteq BagToSet(fencing'[p]) /\ S \subseteq BagToSet(fencing'[p])
  BY <1>2, <1>3, Zenon
<1>6. \A e : e \notin S => Count(e, fencing'[p]) = IF e \in E /\ e \in BagToSet(B)
                                                    THEN Count(e, B) - 1 ELSE Count(e, B)
  BY <1>2, <1>3, <1>4
<1> QED
  BY <1>4, <1>5, <1>6, Zenon DEF B

\* What a step may do to the guards of its peer.
GuardsKept(p) ==
  /\ \A g \in held[p] \cap held'[p] : GivingUp(p, g) => GivingUp(p, g)'
  /\ \A g \in held'[p] \ held[p] : \E t \in Token : Registered(p, t) /\ eng'[p][t].fence = g
  /\ RenewersAt(p) => RenewersAt(p)'

LEMMA QuietGuards ==
  ASSUME NEW p \in Active, held'[p] = held[p], fencing'[p] = fencing[p]
  PROVE  GuardsKept(p)
BY Zenon DEF GuardsKept, RenewersAt, GivingUp

LEMMA SpawnGuards ==
  ASSUME CoordInv, NEW p \in Active, NEW S, \A r \in S : r.at = "release",
         held'[p] = held[p], fencing'[p] = fencing[p] (+) SetToBag(S)
  PROVE  GuardsKept(p)
<1>1. /\ \A g : Count(Loop(g), fencing'[p]) = Count(Loop(g), fencing[p])
      /\ \A g : GivingUp(p, g) => GivingUp(p, g)'
  BY SpawnReleases, Zenon
<1> QED
  BY <1>1, Zenon DEF GuardsKept, RenewersAt

\* A goroutine that is no renew loop ends, and another may give the guard up.
LEMMA YieldGuards ==
  ASSUME CoordInv, NEW p \in Active, held'[p] = held[p],
         NEW r \in BagToSet(fencing[p]), NEW S, r.at # "loop", \A s \in S : s.at # "loop",
         r.at = "clear" \/ \E s \in S : s.guard = r.guard /\ s.at \in {"lost", "release"},
         fencing'[p] = (fencing[p] (-) SetToBag({r})) (+) SetToBag(S)
  PROVE  GuardsKept(p)
<1>1. \A g : Loop(g) # r /\ Loop(g) \notin S
  BY DEF Loop, Goroutine
<1>2. \A g : Count(Loop(g), fencing'[p]) = Count(Loop(g), fencing[p])
  BY <1>1, Replaced
<1>3. /\ BagToSet(fencing[p]) \ {r} \subseteq BagToSet(fencing'[p])
      /\ S \subseteq BagToSet(fencing'[p])
  BY Replaced, Zenon
<1>4. \A g : GivingUp(p, g) => GivingUp(p, g)'
  BY <1>3, Zenon DEF GivingUp
<1> QED
  BY <1>2, <1>4, Zenon DEF GuardsKept, RenewersAt

\* A renew loop that loses its Lease is gone as a loop and gives its guard up.
LEMMA LoseGuards ==
  ASSUME CoordInv, NEW p \in Active, held'[p] = held[p], NEW g \in Token,
         Loop(g) \in BagToSet(fencing[p]),
         fencing'[p] = (fencing[p] (-) SetToBag({Loop(g)}))
                         (+) SetToBag({Goroutine("lost", g, Background)})
  PROVE  GuardsKept(p)
<1> DEFINE lost == Goroutine("lost", g, Background)
<1>1. \A h \in Token : Loop(h) # lost /\ (h # g => Loop(h) # Loop(g))
  BY Zenon DEF Loop, Goroutine
<1>2. \A h \in Token : Count(Loop(h), fencing'[p]) =
                         IF h = g THEN Count(Loop(g), fencing[p]) - 1
                         ELSE Count(Loop(h), fencing[p])
  BY <1>1, Replaced
<1>3. /\ BagToSet(fencing[p]) \ {Loop(g)} \subseteq BagToSet(fencing'[p])
      /\ lost \in BagToSet(fencing'[p])
  BY Replaced, Zenon
<1>4. \A h : GivingUp(p, h) => GivingUp(p, h)'
  <2>1. Loop(g).at = "loop"
    BY Zenon DEF Loop, Goroutine
  <2> QED
    BY <1>3, <2>1, Zenon DEF GivingUp
<1>5. GivingUp(p, g)'
  BY <1>3, Zenon DEF GivingUp, Goroutine
<1>6. \A h \in Token : Count(Loop(h), fencing[p]) \in Nat
  BY Copies, Zenon DEF CoordInv, TypeOK
<1>7. Count(Loop(g), fencing[p]) > 0
  BY Copies, Zenon DEF CoordInv, TypeOK
<1>8. ASSUME RenewersAt(p) PROVE RenewersAt(p)'
  <2>1. SUFFICES ASSUME NEW h \in Token
                 PROVE  /\ Count(Loop(h), fencing'[p]) <= 1
                        /\ Count(Loop(h), fencing'[p]) = 1 => h \in held'[p]
                        /\ h \in held'[p] => Count(Loop(h), fencing'[p]) = 1 \/ GivingUp(p, h)'
    BY Zenon DEF RenewersAt
  <2>2. CASE h = g
    <3>1. Count(Loop(g), fencing[p]) <= 1
      BY <1>8, Zenon DEF RenewersAt
    <3>2. Count(Loop(g), fencing'[p]) = 0
      <4>1. /\ Count(Loop(g), fencing'[p]) = Count(Loop(g), fencing[p]) - 1
            /\ Count(Loop(g), fencing[p]) \in Nat
        BY <1>2, <1>6, Zenon
      <4> QED
        BY <1>7, <3>1, <4>1
    <3> QED
      BY <1>5, <2>2, <3>2
  <2>3. CASE h # g
    BY <1>2, <1>4, <1>8, <2>3, Zenon DEF RenewersAt
  <2> QED
    BY <2>2, <2>3, Zenon
<1> QED
  BY <1>4, <1>8, Zenon DEF GuardsKept

\* Release takes the guard back together with its renew loop.
LEMMA ReleaseGuards ==
  ASSUME CoordInv, NEW p \in Active, NEW r \in BagToSet(fencing[p]), Release(p, r)
  PROVE  GuardsKept(p)
<1> DEFINE g == r.guard
<1>1. r \in GuardGoroutine /\ g \in Token /\ r.at = "release"
  BY Zenon DEF CoordInv, TypeOK, GuardGoroutine, Release
<1>2. held'[p] = held[p] \ {g}
  BY Zenon DEF CoordInv, TypeOK, Release
<1>3. PICK E, S : /\ fencing'[p] = (fencing[p] (-) SetToBag(E)) (+) SetToBag(S)
                  /\ E \subseteq {r, Loop(g)} /\ (g \in held[p] => Loop(g) \in E)
                  /\ \A s \in S : s.guard = g /\ s.at # "loop"
  <2>1. CASE g \notin held[p]
    <3>1. fencing'[p] = (fencing[p] (-) SetToBag({r})) (+) SetToBag({})
      BY <2>1, Zenon DEF CoordInv, TypeOK, Release, Become
    <3> WITNESS {r}, {}
    <3> QED
      BY <2>1, <3>1, Zenon
  <2>2. CASE g \in held[p]
    <3>1. PICK S : /\ fencing' = [fencing EXCEPT ![p] =
                        (fencing[p] (-) SetToBag(Ended(r))) (+) SetToBag(S)]
                   /\ S \subseteq {Goroutine("clear", g, r.ctx), Goroutine("lost", g, Background)}
      BY <2>2, Zenon DEF Release
    <3>2. fencing'[p] = (fencing[p] (-) SetToBag(Ended(r))) (+) SetToBag(S)
      BY <3>1, Zenon DEF CoordInv, TypeOK
    <3>3. \A s \in S : s.guard = g /\ s.at # "loop"
      BY <3>1 DEF Goroutine
    <3>4. Ended(r) \subseteq {r, Loop(g)} /\ Loop(g) \in Ended(r)
      BY Zenon DEF Ended, Loop
    <3> WITNESS Ended(r), S
    <3> QED
      BY <3>2, <3>3, <3>4, Zenon
  <2> QED
    BY <2>1, <2>2, Zenon
<1>4. \A h \in Token : /\ Loop(h) \notin S /\ Loop(h) # r /\ Loop(h).guard = h
                       /\ h # g => Loop(h) \notin E
  BY <1>1, <1>3 DEF Loop, Goroutine
<1>5. \A h \in Token : h # g => Count(Loop(h), fencing'[p]) = Count(Loop(h), fencing[p])
  BY <1>3, <1>4, Replaced
<1>6. \A h \in Token : h # g /\ GivingUp(p, h) => GivingUp(p, h)'
  <2>1. BagToSet(fencing[p]) \ E \subseteq BagToSet(fencing'[p])
    BY <1>3, Replaced, Zenon
  <2>2. \A e \in E : e.guard = g
    BY <1>1, <1>3, <1>4, Zenon
  <2> QED
    BY <2>1, <2>2, Zenon DEF GivingUp
<1>7. ASSUME RenewersAt(p) PROVE Count(Loop(g), fencing'[p]) = 0
  <2>1. /\ Count(Loop(g), fencing[p]) \in Nat /\ Count(Loop(g), fencing[p]) <= 1
        /\ Loop(g) \in BagToSet(fencing[p]) <=> Count(Loop(g), fencing[p]) > 0
        /\ Count(Loop(g), fencing[p]) = 1 => g \in held[p]
    BY <1>1, <1>7, Copies, Zenon DEF CoordInv, TypeOK, RenewersAt
  <2>2. CASE Loop(g) \in BagToSet(fencing[p])
    <3>1. Loop(g) \in E /\ Loop(g) \notin S /\ Count(Loop(g), fencing[p]) = 1
      BY <1>1, <1>3, <1>4, <2>1, <2>2
    <3> QED
      BY <1>3, <2>2, <3>1, Replaced
  <2>3. CASE Loop(g) \notin BagToSet(fencing[p])
    BY <1>1, <1>3, <1>4, <2>3, Replaced
  <2> QED
    BY <2>2, <2>3, Zenon
<1>8. held[p] \subseteq Token
  BY Zenon DEF CoordInv, TypeOK
<1>9. ASSUME RenewersAt(p) PROVE RenewersAt(p)'
  <2>1. SUFFICES ASSUME NEW h \in Token
                 PROVE  /\ Count(Loop(h), fencing'[p]) <= 1
                        /\ Count(Loop(h), fencing'[p]) = 1 => h \in held'[p]
                        /\ h \in held'[p] => Count(Loop(h), fencing'[p]) = 1 \/ GivingUp(p, h)'
    BY Zenon DEF RenewersAt
  <2>2. CASE h = g
    BY <1>2, <1>7, <1>9, <2>2
  <2>3. CASE h # g
    BY <1>2, <1>5, <1>6, <1>9, <2>3, Zenon DEF RenewersAt
  <2> QED
    BY <2>2, <2>3, Zenon
<1> QED
  BY <1>2, <1>6, <1>8, <1>9, Zenon DEF GuardsKept

\* recompute acquires guards that were not held and starts one loop for each.
LEMMA RecomputeKeepsGuards ==
  ASSUME CoordInv, NEW p \in Active, NEW r \in Call, NEW failed, NEW landed,
         RecomputeLoop(p, r, failed, landed)
  PROVE  GuardsKept(p)
<1>1. PICK G \in SUBSET Token, R \in SUBSET GuardGoroutine :
        /\ G \cap held[p] = {} /\ held'[p] = held[p] \cup G
        /\ \A g \in G : \E t \in Token : Registered(p, t) /\ eng'[p][t].fence = g
        /\ \A o \in R : o.at = "release"
        /\ fencing'[p] = fencing[p] (+) SetToBag(
             {Goroutine("loop", g, Background) : g \in G} \cup R)
  BY RecomputeGuards, Zenon
<1> DEFINE S == {Loop(g) : g \in G} \cup R
<1>2. fencing'[p] = fencing[p] (+) SetToBag(S)
  BY <1>1, Zenon DEF Loop
<1>3. IsABag(fencing[p])
  BY Zenon DEF CoordInv, TypeOK
<1>4. /\ BagToSet(fencing'[p]) = BagToSet(fencing[p]) \cup S
      /\ \A e : Count(e, fencing'[p]) = Count(e, fencing[p]) + (IF e \in S THEN 1 ELSE 0)
  BY <1>2, <1>3, Spawned
<1>5. \A g \in Token : Loop(g) \in S <=> g \in G
  BY <1>1, Zenon DEF Loop, Goroutine
<1>6. \A g \in Token : Count(Loop(g), fencing[p]) \in Nat
  BY <1>3, Copies, Zenon
<1>7. \A g : GivingUp(p, g) => GivingUp(p, g)'
  BY <1>4, Zenon DEF GivingUp
<1> HIDE DEF S
<1>8. ASSUME RenewersAt(p), NEW g \in Token
      PROVE  /\ Count(Loop(g), fencing'[p]) <= 1
             /\ Count(Loop(g), fencing'[p]) = 1 => g \in held'[p]
             /\ g \in held'[p] => Count(Loop(g), fencing'[p]) = 1 \/ GivingUp(p, g)'
  <2>1. CASE g \in G
    <3>1. Count(Loop(g), fencing[p]) = 0
      BY <1>1, <1>6, <1>8, <2>1 DEF RenewersAt
    <3>2. Count(Loop(g), fencing'[p]) = 1
      BY <1>4, <1>5, <2>1, <3>1
    <3> QED
      BY <1>1, <2>1, <3>2
  <2>2. CASE g \notin G
    <3>1. Count(Loop(g), fencing'[p]) = Count(Loop(g), fencing[p])
      BY <1>4, <1>5, <1>6, <2>2
    <3> QED
      BY <1>1, <1>7, <1>8, <2>2, <3>1, Zenon DEF RenewersAt
  <2> QED
    BY <2>1, <2>2, Zenon
<1> QED
  BY <1>1, <1>7, <1>8, Zenon DEF GuardsKept, RenewersAt

\* Every step of a peer keeps its guards.
LEMMA GuardStep ==
  ASSUME CoordInv, NEW p \in Active, Step(p)
  PROVE  GuardsKept(p)
<1>a. TypeOK
  BY Zenon DEF CoordInv
<1>1. ASSUME \/ RecomputeEnd(p)
             \/ \E w : StartDone(p, w) \/ StartFailed(p, w)
             \/ \E t \in Token : Unthrottle(p, t)
             \/ \E c \in Cluster, x \in Ctx : Engage(p, c, x)
             \/ \E x \in Ctx : CancelCtx(p, x)
             \/ \E T, late : RefreshPeers(p, T, late)
      PROVE  GuardsKept(p)
  <2>1. held' = held /\ fencing' = fencing
    BY <1>1, Zenon
      DEF RecomputeEnd, StartDone, StartFailed, Unthrottle, GuardFrame, Engage, CancelCtx,
          RefreshPeers
  <2> QED
    BY <2>1, QuietGuards, Zenon
<1>2. ASSUME NEW t \in Token, Cleanup(p, t) PROVE GuardsKept(p)
  <2>1. held' = held
    BY <1>2, Zenon DEF Cleanup
  <2>2. CASE Ignores(p)
    BY <2>1, <2>2, QuietGuards, Zenon DEF Ignores
  <2>3. CASE Removes(p, t)
    <3>1. fencing'[p] = fencing[p] (+) SetToBag(RemovalRelease(p, t))
      BY <2>3, Zenon DEF Removes
    <3>2. \A r \in RemovalRelease(p, t) : r.at = "release"
      BY DEF RemovalRelease, Goroutine
    <3> QED
      BY <2>1, <3>1, <3>2, SpawnGuards, Zenon
  <2> QED
    BY <1>2, <2>2, <2>3, CleanupEffect, Zenon
<1>3. ASSUME NEW t \in Token, Renew(p, t) PROVE GuardsKept(p)
  <2>1. held' = held /\ Loop(t) \in BagToSet(fencing[p])
    BY <1>3, Zenon DEF Renew, Running, Loop
  <2>2. CASE fencing' = fencing
    BY <2>1, <2>2, QuietGuards, Zenon
  <2>3. CASE Become(p, Loop(t), {Goroutine("lost", t, Background)})
    <3>1. fencing'[p] = (fencing[p] (-) SetToBag({Loop(t)}))
                          (+) SetToBag({Goroutine("lost", t, Background)})
      BY <1>a, <2>3, Zenon DEF Become, TypeOK
    <3> QED
      BY <2>1, <3>1, LoseGuards, Zenon
  <2> QED
    BY <1>3, <2>2, <2>3, Zenon DEF Renew, Loop
<1>4. ASSUME NEW t \in Token, OnLost(p, t) PROVE GuardsKept(p)
  <2> DEFINE r == Goroutine("lost", t, Background)
             s == Goroutine("release", t, Background)
  <2>1. held' = held /\ r \in BagToSet(fencing[p]) /\ Become(p, r, {s})
    BY <1>4, Zenon DEF OnLost, Running
  <2>2. fencing'[p] = (fencing[p] (-) SetToBag({r})) (+) SetToBag({s})
    BY <1>a, <2>1, Zenon DEF Become, TypeOK
  <2>3. r.at = "lost" /\ s.at = "release" /\ s.guard = r.guard
    BY Zenon DEF Goroutine
  <2> HIDE DEF r, s
  <2> QED
    BY <2>1, <2>2, <2>3, YieldGuards
<1>5. ASSUME NEW r \in BagToSet(fencing[p]), Clear(p, r) PROVE GuardsKept(p)
  <2>1. held' = held /\ r.at = "clear" /\ Become(p, r, {})
    BY <1>5, Zenon DEF Clear
  <2>2. fencing'[p] = (fencing[p] (-) SetToBag({r})) (+) SetToBag({})
    BY <1>a, <2>1, Zenon DEF Become, TypeOK
  <2> QED
    BY <2>1, <2>2, YieldGuards
<1>6. ASSUME NEW r \in BagToSet(fencing[p]), Release(p, r) PROVE GuardsKept(p)
  BY <1>6, ReleaseGuards, Zenon
<1>7. ASSUME Recompute(p) PROVE GuardsKept(p)
  BY <1>7, <1>a, CallsTyped, RecomputeKeepsGuards, Zenon DEF Recompute
<1>8. ASSUME Crash(p) PROVE GuardsKept(p)
  <2>1. held'[p] = {} /\ fencing'[p] = EmptyBag
    BY <1>8, <1>a, Zenon DEF Crash, TypeOK
  <2>2. \A g : Count(Loop(g), fencing'[p]) = 0
    BY <2>1, Zenon DEF Count, BagToSet, EmptyBag, SetToBag
  <2> QED
    BY <2>1, <2>2 DEF GuardsKept, RenewersAt
<1> QED
  BY <1>1, <1>2, <1>3, <1>4, <1>5, <1>6, <1>7, <1>8, Zenon
  DEF Step, Internal, Goroutines, Throttle, External

\* Releases, losses and re-acquisitions never leave two live renew loops of a guard,
\* nor a live loop behind a guard that is not held, nor a held guard that nobody
\* renews and nobody is about to release, whatever the number of guards
\* (leaseguard.go:129-132,146-151,184-187).
THEOREM OneRenewerAlways == Spec => []OneRenewerPerFence
<1> DEFINE Inv == \A p \in Active : RenewersAt(p)
<1>1. Init => Inv
  BY DEF Init, RenewersAt, Count, BagToSet, EmptyBag, SetToBag
<1>2. CoordInv /\ Inv /\ [Next]_vars => Inv'
  <2>1. SUFFICES ASSUME CoordInv, Inv, [Next]_vars, NEW q \in Active PROVE RenewersAt(q)'
    BY Zenon
  <2>2. ASSUME Stays(q) PROVE RenewersAt(q)'
    BY <2>1, <2>2 DEF Stays, RenewersAt, GivingUp
  <2>3. CASE UNCHANGED vars
    BY <2>2, <2>3, Zenon DEF vars, Stays
  <2>4. ASSUME NEW f \in Fence, Expire(f) PROVE RenewersAt(q)'
    BY <2>1, <2>2, <2>4, TimeStays, Zenon
  <2>5. ASSUME NEW p \in Active, Step(p) PROVE RenewersAt(q)'
    BY <2>1, <2>2, <2>5, GuardStep, OthersStay, Zenon DEF CoordInv, GuardsKept
  <2> QED
    BY <2>1, <2>3, <2>4, <2>5, Zenon DEF Next, Step
<1>3. Inv => OneRenewerPerFence
  BY Zenon DEF RenewersAt, OneRenewerPerFence, Loop
<1> QED
  BY <1>1, <1>2, <1>3, CoordAlways, PTL DEF Spec

\* A registered engagement's guard stays with its name, or is on its way out.
LEMMA FencePersists ==
  ASSUME CoordInv, NEW p \in Active, Step(p), ~Crash(p), NEW g \in Token, NEW t \in Token,
         Registered(p, t), eng[p][t].fence = g
  PROVE  \/ \E u \in Token : Registered(p, u)' /\ eng'[p][u].fence = g
         \/ GivingUp(p, g)'
<1>1. eng[p][t].cluster \in Cluster /\ t # 0 /\ g # 0
  <2>1. \A u \in Token : u # 0
    BY CoordinatorAssumption DEF Token
  <2> QED
    BY <2>1, EngagementTyped, Zenon
<1>2. ASSUME NEW c \in Cluster, NEW x \in Ctx, Engage(p, c, x)
      PROVE  \E u \in Token : Registered(p, u)' /\ eng'[p][u].fence = g
  <2> DEFINE cur == engaged[p][c]
  <2>n. PICK n \in Token : Engages(p, c, n)
    BY <1>2, EngageEffect, Zenon
  <2>1. /\ eng'[p][n].cluster = c
        /\ \A d \in Cluster : engaged'[p][d] = IF d = c THEN n ELSE engaged[p][d]
        /\ \A d \in Cluster : engaged[p][d] # n
        /\ \A u \in Token : u # n /\ u # cur => eng'[p][u] = eng[p][u]
        /\ eng'[p][n].fence = IF cur = 0 THEN 0 ELSE eng[p][cur].fence
    BY <2>n, Zenon DEF Engages
  <2>2. CASE eng[p][t].cluster = c
    <3>1. cur = t
      BY <2>2, Zenon DEF Registered
    <3>2. Registered(p, n)' /\ eng'[p][n].fence = g
      BY <1>1, <2>1, <3>1, Zenon DEF Registered
    <3> QED
      BY <2>1, <3>2, Zenon
  <2>3. CASE eng[p][t].cluster # c
    <3>1. t # n
      BY <1>1, <2>1 DEF Registered
    <3>2. t # cur
      BY <1>1, <2>3, Zenon DEF CoordInv, RegisteredInv
    <3>3. eng'[p][t] = eng[p][t]
      BY <2>1, <3>1, <3>2, Zenon
    <3>4. Registered(p, t)'
      BY <1>1, <2>1, <2>3, <3>3 DEF Registered
    <3> QED
      BY <3>3, <3>4, Zenon
  <2> QED
    BY <2>2, <2>3, Zenon
<1>3. ASSUME NEW u \in Token, Cleanup(p, u)
      PROVE  \/ \E v \in Token : Registered(p, v)' /\ eng'[p][v].fence = g
             \/ GivingUp(p, g)'
  <2>1. CASE Ignores(p)
    <3>1. Registered(p, t)' /\ eng'[p][t].fence = g
      BY <2>1, Zenon DEF Ignores, Registered
    <3> QED
      BY <3>1, Zenon
  <2>2. CASE Removes(p, u) /\ u # t
    <3>1. /\ Registered(p, u) /\ eng'[p][t] = eng[p][t]
          /\ \A d \in Cluster : engaged'[p][d] = IF d = eng[p][u].cluster THEN 0
                                                 ELSE engaged[p][d]
      BY <2>2, Zenon DEF Removes
    <3>2. Registered(p, t)'
      BY <1>1, <2>2, <3>1, Zenon DEF Registered
    <3> QED
      BY <3>1, <3>2, Zenon
  <2>3. CASE Removes(p, u) /\ u = t
    <3>1. fencing'[p] = fencing[p] (+) SetToBag(RemovalRelease(p, t))
      BY <2>3, Zenon DEF Removes
    <3>2. RemovalRelease(p, t) = {Goroutine("release", g, Background)}
      BY <1>1, Zenon DEF RemovalRelease
    <3>3. IsABag(fencing[p])
      BY Zenon DEF CoordInv, TypeOK
    <3>4. Goroutine("release", g, Background) \in BagToSet(fencing'[p])
      BY <3>1, <3>2, <3>3, Spawned
    <3> QED
      BY <3>4, Zenon DEF GivingUp, Goroutine
  <2> QED
    BY <1>3, <2>1, <2>2, <2>3, CleanupEffect, Zenon
<1>4. ASSUME Recomputes(p) \/ Keeps(p)
      PROVE  Registered(p, t)' /\ eng'[p][t].fence = g
  <2>1. CASE Recomputes(p)
    <3>1. /\ eng'[p][t].cluster = eng[p][t].cluster /\ engaged'[p] = engaged[p]
          /\ eng[p][t].fence # 0 => eng'[p][t].fence = eng[p][t].fence
      BY <2>1, RecomputedFields, Zenon
    <3> QED
      BY <1>1, <3>1, Zenon DEF Registered
  <2>2. CASE Keeps(p)
    <3>1. eng'[p][t].cluster = eng[p][t].cluster /\ eng'[p][t].fence = eng[p][t].fence
      BY <2>2, KeptFields, Zenon DEF CoordInv
    <3>2. engaged'[p] = engaged[p]
      BY <2>2, Zenon DEF Keeps
    <3> QED
      BY <3>1, <3>2, Zenon DEF Registered
  <2> QED
    BY <1>4, <2>1, <2>2, Zenon
<1> QED
  BY <1>2, <1>3, <1>4, EngagementSteps, Zenon

\* A guard is only acquired for a registered engagement, which stays registered.
LEMMA NewGuards ==
  ASSUME CoordInv, NEW p \in Active, Step(p), NEW g \in held'[p], g \notin held[p]
  PROVE  \E t \in Token : Registered(p, t)' /\ eng'[p][t].fence = g
<1>1. TypeOK
  BY Zenon DEF CoordInv
<1>2. CASE Recompute(p)
  <2>1. PICK t \in Token : Registered(p, t) /\ eng'[p][t].fence = g
    BY GuardStep, Zenon DEF GuardsKept
  <2>2. Recomputes(p)
    BY <1>1, <1>2, CallsTyped, Zenon DEF Recompute, Recomputes
  <2>3. Registered(p, t)'
    BY <2>1, <2>2, RecomputedFields, Zenon DEF Registered
  <2> QED
    BY <2>1, <2>3, Zenon
<1>3. CASE ~Recompute(p)
  <2>1. held' = held \/ held'[p] \subseteq held[p]
    <3>1. ASSUME Goroutines(p) \/ Throttle(p) PROVE held' = held \/ held'[p] \subseteq held[p]
      <4>1. ASSUME NEW r, Release(p, r) PROVE held'[p] \subseteq held[p]
        BY <4>1, <1>1, Zenon DEF Release, TypeOK
      <4>2. ASSUME RecomputeEnd(p) PROVE held' = held
        BY <4>2, Zenon DEF RecomputeEnd
      <4>3. ASSUME NEW t, Cleanup(p, t) \/ Renew(p, t) \/ OnLost(p, t) \/ Unthrottle(p, t)
            PROVE  held' = held
        BY <4>3, Zenon DEF Cleanup, Renew, OnLost, Unthrottle
      <4>4. ASSUME NEW w, StartDone(p, w) \/ StartFailed(p, w) PROVE held' = held
        BY <4>4, Zenon DEF StartDone, StartFailed
      <4>5. ASSUME NEW r, Clear(p, r) PROVE held' = held
        BY <4>5, Zenon DEF Clear
      <4> QED
        BY <3>1, <4>1, <4>2, <4>3, <4>4, <4>5, Zenon DEF Goroutines, Throttle
    <3>2. ASSUME External(p) PROVE held' = held \/ held'[p] \subseteq held[p]
      BY <3>2, <1>1, Zenon DEF External, Engage, CancelCtx, RefreshPeers, Crash, TypeOK
    <3> QED
      BY <1>3, <3>1, <3>2, Zenon DEF Step, Internal
  <2> QED
    BY <2>1, Zenon
<1> QED
  BY <1>2, <1>3, Zenon

\* A fence is never forgotten, at any peer and through any replacements, removals and
\* losses: a held guard belongs to a registered engagement, or a goroutine is on its
\* way to release it (coordinator.go:220-222,239,258,340).
THEOREM FencesRemembered == Spec => []NoForgottenFence
<1> DEFINE Inv == \A p \in Active : FencesAt(p)
<1>1. Init => Inv
  BY Zenon DEF Init, FencesAt
<1>2. CoordInv /\ Inv /\ [Next]_vars => Inv'
  <2>1. SUFFICES ASSUME CoordInv, Inv, [Next]_vars, NEW q \in Active PROVE FencesAt(q)'
    BY Zenon
  <2>2. ASSUME Stays(q) PROVE FencesAt(q)'
    BY <2>1, <2>2 DEF Stays, FencesAt, GivingUp, Registered
  <2>3. CASE UNCHANGED vars
    BY <2>2, <2>3, Zenon DEF vars, Stays
  <2>4. ASSUME NEW f \in Fence, Expire(f) PROVE FencesAt(q)'
    BY <2>1, <2>2, <2>4, TimeStays, Zenon
  <2>5. ASSUME Step(q) PROVE FencesAt(q)'
    <3>1. CASE Crash(q)
      BY <2>1, <3>1, Zenon DEF Crash, FencesAt, CoordInv, TypeOK
    <3>2. CASE ~Crash(q)
      <4>1. SUFFICES ASSUME NEW g \in held'[q]
                     PROVE  \/ \E t \in Token : Registered(q, t)' /\ eng'[q][t].fence = g
                            \/ GivingUp(q, g)'
        BY Zenon DEF FencesAt
      <4>2. CASE g \notin held[q]
        BY <2>1, <2>5, <4>2, NewGuards, Zenon
      <4>3. CASE g \in held[q]
        <5>1. g \in Token
          BY <2>1, <4>3, Zenon DEF CoordInv, TypeOK
        <5>2. GivingUp(q, g) => GivingUp(q, g)'
          BY <2>1, <2>5, <4>1, <4>3, GuardStep, Zenon DEF GuardsKept
        <5>3. (\E t \in Token : Registered(q, t) /\ eng[q][t].fence = g) \/ GivingUp(q, g)
          BY <2>1, <4>3, Zenon DEF FencesAt
        <5> QED
          BY <2>1, <2>5, <3>2, <5>1, <5>2, <5>3, FencePersists, Zenon
      <4> QED
        BY <4>2, <4>3, Zenon
    <3> QED
      BY <3>1, <3>2, Zenon
  <2>6. ASSUME NEW p \in Active, Step(p) PROVE FencesAt(q)'
    BY <2>1, <2>2, <2>5, <2>6, OthersStay, Zenon DEF CoordInv
  <2> QED
    BY <2>1, <2>3, <2>4, <2>6, Zenon DEF Next, Step
<1>3. CoordInv /\ Inv => NoForgottenFence
  <2>1. SUFFICES ASSUME CoordInv, Inv, NEW p \in Active, NEW g \in held[p], ~GivingUp(p, g)
                 PROVE  \E c \in Cluster : Current(p, c) # 0 /\ eng[p][Current(p, c)].fence = g
    BY Zenon DEF NoForgottenFence
  <2>2. PICK t \in Token : Registered(p, t) /\ eng[p][t].fence = g
    BY <2>1, Zenon DEF FencesAt
  <2>3. eng[p][t].cluster \in Cluster
    BY <2>1, EngagementTyped, Zenon
  <2>4. t # 0
    BY CoordinatorAssumption DEF Token
  <2> QED
    BY <2>2, <2>3, <2>4, Zenon DEF Registered, Current
<1> QED
  BY <1>1, <1>2, <1>3, CoordAlways, PTL DEF Spec

\* Renewing in time only takes steps away: the theorems about Spec hold of the
\* behaviours in which the loops of renewLoop beat the expiry of their Leases.
THEOREM TimelyToo == TimelySpec => Spec
<1>1. [TimelyNext]_vars => [Next]_vars
  BY Zenon DEF TimelyNext, Next
<1> QED
  BY <1>1, PTL DEF TimelySpec, Spec

=============================================================================
