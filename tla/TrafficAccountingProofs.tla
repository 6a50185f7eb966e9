----------------------- MODULE TrafficAccountingProofs -----------------------
(***************************************************************************)
(* Proofs about TrafficAccounting, for any number of overlapping syncs and  *)
(* heartbeats and any amount of traffic: no byte is billed twice or lost    *)
(* without being known as lost, and nobody is suspended before half of the  *)
(* quota.                                                                  *)
(*                                                                         *)
(* Conservation adds up over the syncs with a fold.  The first part proves  *)
(* what that fold computes: the library's induction theorems take an        *)
(* operator, but the one that gives a minimal element takes a set.          *)
(***************************************************************************)
EXTENDS TrafficAccounting, FiniteSetTheorems, WellFoundedInduction, TLAPS

(***************************************************************************)
(* Sums over a finite set.                                                 *)
(***************************************************************************)
Picked(s) == CHOOSE x \in s : TRUE

\* g maps every subset of S to the sum of f over it, as the fold computes it.
Sums(g, f, S) ==
    g = [s \in SUBSET S |-> IF s = {} THEN 0 ELSE f[Picked(s)] + g[s \ {Picked(s)}]]

\* A family of finite sets has a member none of whose proper subsets is one:
\* induction over finite sets, as a fact about sets.
LEMMA MinimalMember ==
  ASSUME NEW S, IsFiniteSet(S), NEW Family, Family \subseteq SUBSET S, Family # {}
  PROVE  \E s \in Family : \A r \in Family : r \subseteq s => r = s
<1>1. IsWellFoundedOn(StrictSubsetOrdering(S), SUBSET S)
  BY FS_StrictSubsetOrderingWellFounded, FS_FiniteSubsetsOfFinite
<1>2. PICK s \in Family : \A r \in Family : <<r, s>> \notin StrictSubsetOrdering(S)
  BY <1>1, WFMin
<1>3. ASSUME NEW r \in Family, r \subseteq s, r # s
      PROVE  <<r, s>> \in StrictSubsetOrdering(S)
  <2>1. <<r, s>> \in (SUBSET S) \X (SUBSET S)
    OBVIOUS
  <2>2. <<r, s>>[1] = r /\ <<r, s>>[2] = s
    OBVIOUS
  <2>3. QED
    BY <1>3, <2>1, <2>2 DEF StrictSubsetOrdering
<1>4. \A r \in Family : r \subseteq s => r = s
  BY <1>2, <1>3
<1>5. QED
  BY <1>4

\* What Sums says of a set and of the empty set.
LEMMA SumsUnfold ==
  ASSUME NEW S, NEW f, NEW g, Sums(g, f, S), NEW s \in SUBSET S
  PROVE  /\ s = {} => g[s] = 0
         /\ s # {} => /\ Picked(s) \in s
                      /\ g[s] = f[Picked(s)] + g[s \ {Picked(s)}]
<1>1. s # {} => Picked(s) \in s
  BY DEF Picked
<1>2. g[s] = IF s = {} THEN 0 ELSE f[Picked(s)] + g[s \ {Picked(s)}]
  BY DEF Sums
<1>3. QED
  BY <1>1, <1>2

\* Two functions that agree on a set have the same sum over it.
LEMMA SumsAgree ==
  ASSUME NEW S, NEW R, NEW T, IsFiniteSet(T), T \subseteq S, T \subseteq R,
         NEW f, NEW g, Sums(g, f, S), NEW f2, NEW g2, Sums(g2, f2, R),
         \A x \in T : f[x] = f2[x]
  PROVE  g[T] = g2[T]
<1> DEFINE Differ == {s \in SUBSET T : g[s] # g2[s]}
<1>1. SUFFICES ASSUME Differ # {}
               PROVE  FALSE
  OBVIOUS
<1>2. PICK s \in Differ : \A r \in Differ : r \subseteq s => r = s
  <2>1. Differ \subseteq SUBSET T
    OBVIOUS
  <2> HIDE DEF Differ
  <2>2. QED
    BY <1>1, <2>1, MinimalMember
<1>3. s \in SUBSET S /\ s \in SUBSET R /\ s \in SUBSET T /\ g[s] # g2[s]
  OBVIOUS
<1>4. s # {}
  BY <1>3, SumsUnfold
<1>5. /\ Picked(s) \in s
      /\ g[s] = f[Picked(s)] + g[s \ {Picked(s)}]
      /\ g2[s] = f2[Picked(s)] + g2[s \ {Picked(s)}]
  BY <1>3, <1>4, SumsUnfold
<1>6. g[s \ {Picked(s)}] = g2[s \ {Picked(s)}]
  BY <1>2, <1>3, <1>5
<1>7. QED
  BY <1>3, <1>5, <1>6

\* The recursion has a solution for every finite set.
LEMMA SumsExist ==
  ASSUME NEW S, IsFiniteSet(S), NEW f
  PROVE  \E g : Sums(g, f, S)
<1> DEFINE Without == {s \in SUBSET S : ~ \E g : Sums(g, f, s)}
<1>1. SUFFICES ASSUME Without # {}
               PROVE  FALSE
  OBVIOUS
<1>2. PICK u \in Without : \A r \in Without : r \subseteq u => r = u
  <2>1. Without \subseteq SUBSET S
    OBVIOUS
  <2> HIDE DEF Without
  <2>2. QED
    BY <1>1, <2>1, MinimalMember
<1> DEFINE G(s) == CHOOSE g : Sums(g, f, s)
           Value(s) == IF s = {} THEN 0 ELSE f[Picked(s)] + G(s \ {Picked(s)})[s \ {Picked(s)}]
           h == [s \in SUBSET u |-> Value(s)]
<1>3. \A s \in SUBSET u : s # u => Sums(G(s), f, s)
  BY <1>2
<1>4. ASSUME NEW s \in SUBSET u, s # u
      PROVE  G(s)[s] = Value(s)
  <2>1. CASE s = {}
    BY <1>3, <1>4, <2>1, SumsUnfold
  <2>2. CASE s # {}
    <3> DEFINE r == s \ {Picked(s)}
    <3>1. /\ Picked(s) \in s
          /\ G(s)[s] = f[Picked(s)] + G(s)[r]
      BY <1>3, <1>4, <2>2, SumsUnfold
    <3>2. r \in SUBSET u /\ r # u /\ r \subseteq s /\ IsFiniteSet(r)
      BY <1>4, <3>1, FS_Subset
    <3>3. Sums(G(s), f, s) /\ Sums(G(r), f, r)
      BY <1>3, <1>4, <3>2
    <3> HIDE DEF r, G
    <3>4. G(s)[r] = G(r)[r]
      BY <3>2, <3>3, SumsAgree
    <3>5. QED
      BY <2>2, <3>1, <3>4 DEF r
  <2>3. QED
    BY <2>1, <2>2
<1>5. \A s \in SUBSET u : s # {} => Picked(s) \in s
  BY DEF Picked
<1> HIDE DEF G
<1>6. ASSUME NEW s \in SUBSET u, s # {}
      PROVE  h[s] = f[Picked(s)] + h[s \ {Picked(s)}]
  <2>1. s \ {Picked(s)} \in SUBSET u /\ s \ {Picked(s)} # u
    BY <1>5, <1>6
  <2>2. h[s \ {Picked(s)}] = G(s \ {Picked(s)})[s \ {Picked(s)}]
    BY <1>4, <2>1
  <2>3. QED
    BY <1>6, <2>2
<1>7. h[{}] = 0
  OBVIOUS
<1> HIDE DEF Value
<1>8. h = [s \in SUBSET u |-> IF s = {} THEN 0 ELSE f[Picked(s)] + h[s \ {Picked(s)}]]
  BY <1>6, <1>7
<1>9. Sums(h, f, u)
  BY <1>8 DEF Sums
<1>10. QED
  BY <1>2, <1>9

\* A sum of naturals is a natural.
LEMMA SumsType ==
  ASSUME NEW S, IsFiniteSet(S), NEW f \in [S -> Nat], NEW g, Sums(g, f, S)
  PROVE  \A s \in SUBSET S : g[s] \in Nat
<1> DEFINE Bad == {s \in SUBSET S : g[s] \notin Nat}
<1>1. SUFFICES ASSUME Bad # {}
               PROVE  FALSE
  OBVIOUS
<1>2. PICK s \in Bad : \A r \in Bad : r \subseteq s => r = s
  <2>1. Bad \subseteq SUBSET S
    OBVIOUS
  <2> HIDE DEF Bad
  <2>2. QED
    BY <1>1, <2>1, MinimalMember
<1>3. s \in SUBSET S /\ g[s] \notin Nat
  OBVIOUS
<1>4. s # {}
  <2>1. s = {} => g[s] = 0
    BY <1>3, SumsUnfold
  <2>2. QED
    BY <1>3, <2>1
<1>5. /\ Picked(s) \in s
      /\ g[s] = f[Picked(s)] + g[s \ {Picked(s)}]
  BY <1>3, <1>4, SumsUnfold
<1>6. g[s \ {Picked(s)}] \in Nat
  BY <1>2, <1>3, <1>5
<1>7. QED
  BY <1>3, <1>5, <1>6

\* The sum of zeros is zero.
LEMMA SumsZero ==
  ASSUME NEW S, IsFiniteSet(S), NEW f, \A x \in S : f[x] = 0, NEW g, Sums(g, f, S)
  PROVE  g[S] = 0
<1> DEFINE Bad == {s \in SUBSET S : g[s] # 0}
<1>1. SUFFICES ASSUME Bad # {}
               PROVE  FALSE
  OBVIOUS
<1>2. PICK s \in Bad : \A r \in Bad : r \subseteq s => r = s
  <2>1. Bad \subseteq SUBSET S
    OBVIOUS
  <2> HIDE DEF Bad
  <2>2. QED
    BY <1>1, <2>1, MinimalMember
<1>3. s \in SUBSET S /\ g[s] # 0
  OBVIOUS
<1>4. /\ Picked(s) \in s
      /\ g[s] = f[Picked(s)] + g[s \ {Picked(s)}]
  BY <1>3, SumsUnfold
<1>5. g[s \ {Picked(s)}] = 0
  BY <1>2, <1>3, <1>4
<1>6. QED
  BY <1>3, <1>4, <1>5

\* Any element may be taken out first, whichever the fold picks.
LEMMA SumsRemove ==
  ASSUME NEW S, IsFiniteSet(S), NEW f \in [S -> Nat], NEW g, Sums(g, f, S)
  PROVE  \A s \in SUBSET S : \A x \in s : g[s] = f[x] + g[s \ {x}]
<1> DEFINE Bad == {s \in SUBSET S : \E x \in s : g[s] # f[x] + g[s \ {x}]}
<1>1. SUFFICES ASSUME Bad # {}
               PROVE  FALSE
  OBVIOUS
<1>2. PICK s \in Bad : \A r \in Bad : r \subseteq s => r = s
  <2>1. Bad \subseteq SUBSET S
    OBVIOUS
  <2> HIDE DEF Bad
  <2>2. QED
    BY <1>1, <2>1, MinimalMember
<1>3. PICK x \in s : g[s] # f[x] + g[s \ {x}]
  OBVIOUS
<1> DEFINE p == Picked(s)
<1>4. s \in SUBSET S /\ s # {}
  BY <1>3
<1>5. p \in s /\ g[s] = f[p] + g[s \ {p}]
  BY <1>4, SumsUnfold
<1> HIDE DEF p
<1>6. x # p
  BY <1>3, <1>5
<1>7. g[s \ {p}] = f[x] + g[(s \ {p}) \ {x}]
  BY <1>2, <1>3, <1>5, <1>6
<1>8. g[s \ {x}] = f[p] + g[(s \ {x}) \ {p}]
  BY <1>2, <1>3, <1>5, <1>6
<1>9. (s \ {p}) \ {x} = (s \ {x}) \ {p}
  OBVIOUS
<1>10. /\ f[x] \in Nat /\ f[p] \in Nat
       /\ g[(s \ {x}) \ {p}] \in Nat
  BY <1>3, <1>4, <1>5, SumsType
<1>11. g[s] = f[x] + g[s \ {x}]
  <2>1. g[s] = f[p] + (f[x] + g[(s \ {x}) \ {p}])
    BY <1>5, <1>7, <1>9
  <2>2. f[x] + g[s \ {x}] = f[x] + (f[p] + g[(s \ {x}) \ {p}])
    BY <1>8
  <2> DEFINE a == f[p]
             b == f[x]
             c == g[(s \ {x}) \ {p}]
  <2>3. a \in Nat /\ b \in Nat /\ c \in Nat
    BY <1>10
  <2> HIDE DEF a, b, c
  <2>4. a + (b + c) = b + (a + c)
    BY <2>3
  <2>5. QED
    BY <2>1, <2>2, <2>4 DEF a, b, c
<1>12. QED
  BY <1>3, <1>11

\* One element against the rest.
LEMMA SumsTake ==
  ASSUME NEW S, IsFiniteSet(S), NEW x \in S
  PROVE  \A f \in [S -> Nat] : \A g : Sums(g, f, S) =>
            /\ g[S] = f[x] + g[S \ {x}]
            /\ g[S] \in Nat /\ g[S \ {x}] \in Nat /\ f[x] \in Nat
<1> TAKE f \in [S -> Nat]
<1> TAKE g
<1> HAVE Sums(g, f, S)
<1>1. g[S] = f[x] + g[S \ {x}]
  BY SumsRemove
<1>2. g[S] \in Nat /\ g[S \ {x}] \in Nat
  BY SumsType
<1>3. QED
  BY <1>1, <1>2

\* The rest does not depend on the one element.
LEMMA SumsRest ==
  ASSUME NEW S, IsFiniteSet(S), NEW x \in S, NEW f, NEW f2,
         \A y \in S : y # x => f[y] = f2[y]
  PROVE  \A g, g2 : Sums(g, f, S) /\ Sums(g2, f2, S) => g[S \ {x}] = g2[S \ {x}]
<1>1. SUFFICES ASSUME NEW g, NEW g2, Sums(g, f, S), Sums(g2, f2, S)
               PROVE  g[S \ {x}] = g2[S \ {x}]
  OBVIOUS
<1> DEFINE R == S \ {x}
<1>2. R \subseteq S /\ IsFiniteSet(R) /\ \A y \in R : f[y] = f2[y]
  BY FS_Subset
<1> HIDE DEF R
<1>3. g[R] = g2[R]
  BY <1>1, <1>2, SumsAgree
<1>4. QED
  BY <1>3 DEF R

\* A sum in which one term changes.
LEMMA SumsChange ==
  ASSUME NEW S, IsFiniteSet(S), NEW x \in S,
         NEW f \in [S -> Nat], NEW g, Sums(g, f, S),
         NEW f2 \in [S -> Nat], NEW g2, Sums(g2, f2, S),
         \A y \in S : y # x => f[y] = f2[y]
  PROVE  /\ g[S] \in Nat /\ g2[S] \in Nat
         /\ f2[x] = f[x] => g2[S] = g[S]
         /\ f[x] = 0 => g2[S] = g[S] + f2[x]
         /\ f2[x] = 0 => g2[S] + f[x] = g[S]
<1>1. g[S \ {x}] = g2[S \ {x}]
  BY SumsRest
<1>2. /\ g[S] = f[x] + g[S \ {x}]
      /\ g[S] \in Nat /\ g[S \ {x}] \in Nat /\ f[x] \in Nat
  BY SumsTake
<1>3. /\ g2[S] = f2[x] + g2[S \ {x}]
      /\ g2[S] \in Nat /\ g2[S \ {x}] \in Nat /\ f2[x] \in Nat
  BY SumsTake
<1>4. QED
  BY <1>1, <1>2, <1>3

(***************************************************************************)
(* The bytes in the hands of syncs.                                        *)
(***************************************************************************)
InHands == [s \in Syncs |-> InHand(s)]
Total == MapThenSumSet(InHand, Syncs)

\* The fold of Conservation is such a sum.
LEMMA TotalIsSum == \E g : Sums(g, InHands, Syncs) /\ Total = g[Syncs]
<1> DEFINE R(g) == g = [s \in SUBSET Syncs |->
                          IF s = {} THEN 0 ELSE InHand(Picked(s)) + g[s \ {Picked(s)}]]
<1>1. \A s \in SUBSET Syncs : s # {} => Picked(s) \in s
  BY DEF Picked
<1>2. \A g : Sums(g, InHands, Syncs) <=> R(g)
  <2>1. TAKE g
  <2>2. \A s \in SUBSET Syncs :
          (IF s = {} THEN 0 ELSE InHand(Picked(s)) + g[s \ {Picked(s)}])
          = (IF s = {} THEN 0 ELSE InHands[Picked(s)] + g[s \ {Picked(s)}])
    BY <1>1 DEF InHands
  <2>3. QED
    BY <2>2 DEF Sums
<1>3. Total = (CHOOSE g : R(g))[Syncs]
  BY DEF Total, MapThenSumSet, MapThenFoldSet, Picked
<1> HIDE DEF R
<1>4. \E g : Sums(g, InHands, Syncs)
  BY AccountingAssumption, SumsExist
<1>5. R(CHOOSE g : R(g))
  BY <1>2, <1>4
<1>6. QED
  BY <1>2, <1>3, <1>5

\* And so it is after a step.
LEMMA TotalIsSumAfter == (\E g : Sums(g, InHands, Syncs) /\ Total = g[Syncs])'
  BY TotalIsSum, PTL

\* What a sync holds is a natural number.
LEMMA InHandsType == TypeOK => InHands \in [Syncs -> Nat]
  BY DEF TypeOK, InHands, InHand

\* A step of one sync changes the total by what that sync holds.
LEMMA TotalChanges ==
  ASSUME TypeOK, TypeOK', NEW s \in Syncs,
         \A t \in Syncs : t # s => sync'[t] = sync[t]
  PROVE  /\ Total \in Nat /\ Total' \in Nat
         /\ InHand(s)' = InHand(s) => Total' = Total
         /\ InHand(s) = 0 => Total' = Total + InHand(s)'
         /\ InHand(s)' = 0 => Total' + InHand(s) = Total
<1>1. PICK g : Sums(g, InHands, Syncs) /\ Total = g[Syncs]
  BY TotalIsSum
<1>2. PICK g2 : Sums(g2, InHands', Syncs) /\ Total' = g2[Syncs]
  BY TotalIsSumAfter
<1>3. InHands \in [Syncs -> Nat] /\ InHands' \in [Syncs -> Nat]
  BY InHandsType DEF TypeOK, InHands, InHand
<1>4. InHands[s] = InHand(s) /\ InHands'[s] = InHand(s)'
  BY DEF InHands
<1>5. \A t \in Syncs : t # s => InHands[t] = InHands'[t]
  BY DEF InHands, InHand
<1>6. IsFiniteSet(Syncs)
  BY AccountingAssumption
<1>7. /\ g[Syncs] \in Nat /\ g2[Syncs] \in Nat
      /\ InHands'[s] = InHands[s] => g2[Syncs] = g[Syncs]
      /\ InHands[s] = 0 => g2[Syncs] = g[Syncs] + InHands'[s]
      /\ InHands'[s] = 0 => g2[Syncs] + InHands[s] = g[Syncs]
  BY <1>1, <1>2, <1>3, <1>5, <1>6, SumsChange
<1>8. QED
  BY <1>1, <1>2, <1>4, <1>7

\* A step of none does not.
LEMMA TotalStays ==
  ASSUME TypeOK, UNCHANGED sync
  PROVE  Total \in Nat /\ Total' = Total
<1>1. PICK g : Sums(g, InHands, Syncs) /\ Total = g[Syncs]
  BY TotalIsSum
<1>2. Total' = Total
  BY DEF Total, InHand, MapThenSumSet, MapThenFoldSet
<1>3. Total \in Nat
  BY <1>1, InHandsType, AccountingAssumption, SumsType
<1>4. QED
  BY <1>2, <1>3

(***************************************************************************)
(* Types.                                                                  *)
(***************************************************************************)
SyncState == [pc : {"idle", "queued", "abandoned", "update", "check", "suspend", "record"},
              amount : Nat]
HeartbeatState == [pc : {"idle", "sent", "abandoned"}, value : Nat]

\* Nothing was sent, nothing is under way.
LEMMA TypeInit == Init => TypeOK
<1> SUFFICES ASSUME Init PROVE TypeOK
  OBVIOUS
<1>1. sync \in [Syncs -> SyncState]
  BY DEF Init, NoSync, SyncState
<1>2. heartbeat \in [Heartbeats -> HeartbeatState]
  BY DEF Init, NoHeartbeat, HeartbeatState
<1>3. failures \in 0..MaxFailures /\ traffic \in 0..MaxTraffic
  BY AccountingAssumption DEF Init
<1>4. QED
  BY <1>1, <1>2, <1>3 DEF Init, TypeOK, SyncState, HeartbeatState

\* A whole number of gigabytes.
LEMMA GigabytesType == \A bytes \in Nat : bytes \div GB \in Nat
  BY AccountingAssumption

\* Every step of hysteria, the agent and the panel keeps the types.
LEMMA TypeNext == TypeOK /\ [Next]_vars => TypeOK'
<1> SUFFICES ASSUME TypeOK, [Next]_vars
             PROVE  TypeOK'
  OBVIOUS
<1> USE AccountingAssumption
<1>t. /\ sync \in [Syncs -> SyncState]
      /\ heartbeat \in [Heartbeats -> HeartbeatState]
  BY DEF TypeOK, SyncState, HeartbeatState
<1>n. NoSync \in SyncState /\ NoHeartbeat \in HeartbeatState
  BY DEF NoSync, NoHeartbeat, SyncState, HeartbeatState
<1>f. ASSUME Fail PROVE failures' \in 0..MaxFailures
  BY <1>f DEF Fail, TypeOK
<1>q. ASSUME sync' \in [Syncs -> SyncState], heartbeat' \in [Heartbeats -> HeartbeatState],
             UNCHANGED <<traffic, row, node>>,
             counter' \in Nat, lost' \in Nat, failures' \in 0..MaxFailures
      PROVE  TypeOK'
  BY <1>q DEF TypeOK, row, node, SyncState, HeartbeatState
<1>1. CASE UseTraffic
  BY <1>1, <1>t DEF UseTraffic, TypeOK, row, node
<1>2. CASE HysteriaRestart
  BY <1>2, <1>t, <1>f, <1>q DEF HysteriaRestart, TypeOK
<1>3. ASSUME NEW s \in Syncs,
             StartSync(s) \/ GiveUp(s) \/ CheckQuota(s) \/ CheckFails(s)
      PROVE  TypeOK'
  <2>1. sync' \in [Syncs -> SyncState]
    BY <1>3, <1>t DEF StartSync, GiveUp, CheckQuota, CheckFails, SyncState
  <2>2. /\ UNCHANGED <<traffic, lost, counter, row, node, heartbeat>>
        /\ failures' \in 0..MaxFailures
    BY <1>3, <1>f DEF StartSync, GiveUp, CheckQuota, CheckFails, TypeOK
  <2>3. QED
    BY <2>1, <2>2, <1>t, <1>q DEF TypeOK
<1>4. ASSUME NEW s \in Syncs, TaskExpires(s)
      PROVE  TypeOK'
  BY <1>4, <1>t, <1>n, <1>q DEF TaskExpires, TypeOK
<1>5. ASSUME NEW s \in Syncs, FetchTraffic(s)
      PROVE  TypeOK'
  <2>1. PICK pc \in {"update", "record"} :
            sync' = [sync EXCEPT ![s] = [pc |-> pc, amount |-> counter]]
    <3>1. CASE counter > 0
      BY <1>5, <3>1 DEF FetchTraffic
    <3>2. CASE ~(counter > 0)
      BY <1>5, <3>2 DEF FetchTraffic
    <3>3. QED
      BY <3>1, <3>2
  <2>2. [pc |-> pc, amount |-> counter] \in SyncState
    BY DEF TypeOK, SyncState
  <2>3. sync' \in [Syncs -> SyncState]
    BY <1>t, <2>1, <2>2
  <2>4. /\ UNCHANGED <<traffic, lost, row, node, heartbeat, failures>>
        /\ counter' = 0
    BY <1>5 DEF FetchTraffic, AfterRead
  <2>5. QED
    BY <1>t, <1>q, <2>3, <2>4 DEF TypeOK
<1>6. ASSUME NEW s \in Syncs, FetchFails(s)
      PROVE  TypeOK'
  <2>1. [pc |-> "record", amount |-> 0] \in SyncState
    BY DEF SyncState
  <2>2. counter' \in Nat /\ lost' \in Nat
    BY <1>6 DEF FetchFails, TypeOK
  <2>3. QED
    BY <1>6, <1>t, <1>f, <1>q, <2>1, <2>2 DEF FetchFails
<1>7. ASSUME NEW s \in Syncs, FetchInVain(s)
      PROVE  TypeOK'
  <2>1. failures' \in 0..MaxFailures
    BY <1>7, <1>f DEF FetchInVain, TypeOK
  <2>2. QED
    BY <1>7, <1>t, <1>n, <1>q, <2>1 DEF FetchInVain, TypeOK
<1>8. ASSUME NEW s \in Syncs, UpdateUsage(s)
      PROVE  TypeOK'
  <2>1. sync[s].amount \in Nat
    BY <1>t DEF SyncState
  <2>2. usedBytes' \in Nat /\ usedGB' \in Nat
    <3> DEFINE bytes == usedBytes + sync[s].amount + sync[s].amount
    <3>1. usedBytes' = usedBytes + sync[s].amount /\ usedGB' = bytes \div GB
      BY <1>8 DEF UpdateUsage, GigabytesAfter
    <3>2. usedBytes + sync[s].amount \in Nat /\ bytes \in Nat
      BY <2>1 DEF TypeOK
    <3> HIDE DEF bytes
    <3>3. QED
      BY <3>1, <3>2, GigabytesType
  <2>3. sync' \in [Syncs -> SyncState]
    BY <1>8, <1>t DEF UpdateUsage, SyncState
  <2>4. QED
    BY <1>8, <2>2, <2>3 DEF UpdateUsage, TypeOK, node, SyncState
<1>9. ASSUME NEW s \in Syncs, UpdateFails(s)
      PROVE  TypeOK'
  <2>1. sync[s].amount \in Nat
    BY <1>t DEF SyncState
  <2>2. QED
    BY <1>9, <1>t, <1>n, <1>f, <1>q, <2>1 DEF UpdateFails, TypeOK
<1>10. ASSUME NEW s \in Syncs, Suspend(s)
       PROVE  TypeOK'
  <2>1. sync' \in [Syncs -> SyncState]
    BY <1>10, <1>t DEF Suspend, SyncState
  <2>2. QED
    BY <1>10, <2>1 DEF Suspend, TypeOK, node, SyncState
<1>11. ASSUME NEW s \in Syncs, RecordSnapshot(s)
       PROVE  TypeOK'
  <2>1. sync[s].amount \in Nat
    BY <1>t DEF SyncState
  <2>2. history' \in Nat
    BY <1>11 DEF RecordSnapshot, Delta, TypeOK, None
  <2>3. sync' \in [Syncs -> SyncState]
    BY <1>11, <1>t, <1>n DEF RecordSnapshot
  <2>4. QED
    BY <1>11, <2>1, <2>2, <2>3 DEF RecordSnapshot, TypeOK, row, SyncState
<1>12. ASSUME NEW h \in Heartbeats, SendHeartbeat(h)
       PROVE  TypeOK'
  <2>1. [pc |-> "sent", value |-> counter] \in HeartbeatState
    BY DEF TypeOK, HeartbeatState
  <2>2. QED
    BY <1>12, <1>t, <1>q, <2>1 DEF SendHeartbeat, TypeOK
<1>13. ASSUME NEW h \in Heartbeats, HeartbeatTimesOut(h)
       PROVE  TypeOK'
  <2>1. heartbeat' \in [Heartbeats -> HeartbeatState]
    BY <1>13, <1>t DEF HeartbeatTimesOut, HeartbeatState
  <2>2. QED
    BY <1>13, <1>t, <1>f, <1>q, <2>1 DEF HeartbeatTimesOut, TypeOK
<1>14. ASSUME NEW h \in Heartbeats, HandleHeartbeat(h)
       PROVE  TypeOK'
  <2>1. heartbeat[h].value \in Nat /\ heartbeat' \in [Heartbeats -> HeartbeatState]
    BY <1>14, <1>t, <1>n DEF HandleHeartbeat, HeartbeatState
  <2>2. QED
    BY <1>14, <2>1 DEF HandleHeartbeat, TypeOK, HeartbeatState
<1>15. ASSUME NEW h \in Heartbeats, HeartbeatFails(h)
       PROVE  TypeOK'
  <2>1. heartbeat[h].value \in Nat /\ heartbeat' \in [Heartbeats -> HeartbeatState]
    BY <1>15, <1>t, <1>n DEF HeartbeatFails, HeartbeatState
  <2>2. lastTotal' \in Nat /\ failures' \in 0..MaxFailures
    BY <1>15, <1>f, <2>1 DEF HeartbeatFails, TypeOK
  <2>3. QED
    BY <1>15, <2>1, <2>2 DEF HeartbeatFails, TypeOK, HeartbeatState, row
<1>16. CASE UNCHANGED vars
  BY <1>16 DEF vars, TypeOK, row, node
<1>17. QED
  BY <1>1, <1>2, <1>3, <1>4, <1>5, <1>6, <1>7, <1>8, <1>9, <1>10, <1>11, <1>12,
     <1>13, <1>14, <1>15, <1>16 DEF Next

\* Every counter stays a natural number, whatever syncs and heartbeats overlap.
THEOREM TypeCorrect == Spec => []TypeOK
  BY TypeInit, TypeNext, PTL DEF Spec

(***************************************************************************)
(* Every byte is in one place.                                             *)
(***************************************************************************)
\* Conservation speaks of the total.
LEMMA ConservationIsTotal == Conservation <=> usedBytes + Total + counter + lost = traffic
  BY DEF Conservation, Total

\* A new account has sent nothing.
LEMMA ConservationInit == Init => Conservation
<1> SUFFICES ASSUME Init PROVE Conservation
  OBVIOUS
<1>1. PICK g : Sums(g, InHands, Syncs) /\ Total = g[Syncs]
  BY TotalIsSum
<1>2. \A s \in Syncs : InHands[s] = 0
  BY DEF Init, InHands, InHand, NoSync
<1>3. Total = 0
  BY <1>1, <1>2, AccountingAssumption, SumsZero
<1>4. QED
  BY <1>3, ConservationIsTotal DEF Init

\* Every step moves bytes from one place to another, or sends one more.
LEMMA ConservationNext ==
  TypeOK /\ TypeOK' /\ Conservation /\ [Next]_vars => Conservation'
<1> SUFFICES ASSUME TypeOK, TypeOK', Conservation, [Next]_vars
             PROVE  Conservation'
  OBVIOUS
<1>c. usedBytes + Total + counter + lost = traffic
  BY ConservationIsTotal
<1>p. usedBytes' + Total' + counter' + lost' = traffic' => Conservation'
  BY DEF Conservation, Total
<1>n. /\ traffic \in Nat /\ lost \in Nat /\ counter \in Nat /\ usedBytes \in Nat
      /\ \A s \in Syncs : sync[s].amount \in Nat
  BY AccountingAssumption DEF TypeOK
<1>u. ASSUME UNCHANGED sync PROVE Total \in Nat /\ Total' = Total
  BY <1>u, TotalStays
<1>1. CASE UseTraffic
  BY <1>1, <1>c, <1>n, <1>p, <1>u DEF UseTraffic, row
<1>2. CASE HysteriaRestart
  BY <1>2, <1>c, <1>n, <1>p, <1>u DEF HysteriaRestart, row
<1>3. ASSUME NEW h \in Heartbeats,
             \/ SendHeartbeat(h) \/ HeartbeatTimesOut(h) \/ HandleHeartbeat(h)
             \/ HeartbeatFails(h)
      PROVE  Conservation'
  <2>1. UNCHANGED <<traffic, lost, counter, usedBytes, sync>>
    BY <1>3 DEF SendHeartbeat, HeartbeatTimesOut, HandleHeartbeat, HeartbeatFails, row
  <2>2. QED
    BY <2>1, <1>c, <1>n, <1>p, <1>u
<1>4. CASE UNCHANGED vars
  BY <1>4, <1>c, <1>n, <1>p, <1>u DEF vars, row
<1>5. ASSUME NEW s \in Syncs,
             \/ StartSync(s) \/ GiveUp(s) \/ TaskExpires(s) \/ FetchTraffic(s)
             \/ FetchFails(s) \/ FetchInVain(s) \/ UpdateUsage(s) \/ UpdateFails(s)
             \/ CheckQuota(s) \/ CheckFails(s) \/ Suspend(s) \/ RecordSnapshot(s)
      PROVE  Conservation'
  <2>1. sync \in [Syncs -> SyncState]
    BY DEF TypeOK, SyncState
  <2>2. \A t \in Syncs : t # s => sync'[t] = sync[t]
    BY <1>5, <2>1 DEF StartSync, GiveUp, TaskExpires, FetchTraffic, FetchFails, FetchInVain,
                      UpdateUsage, UpdateFails, CheckQuota, CheckFails, Suspend, RecordSnapshot
  <2>3. /\ Total \in Nat /\ Total' \in Nat
        /\ InHand(s)' = InHand(s) => Total' = Total
        /\ InHand(s) = 0 => Total' = Total + InHand(s)'
        /\ InHand(s)' = 0 => Total' + InHand(s) = Total
    BY <2>2, TotalChanges
  <2>4. CASE \/ StartSync(s) \/ GiveUp(s) \/ TaskExpires(s) \/ CheckQuota(s)
             \/ CheckFails(s) \/ Suspend(s) \/ RecordSnapshot(s)
    <3>1. UNCHANGED <<traffic, lost, counter, usedBytes>>
      BY <2>4 DEF StartSync, GiveUp, TaskExpires, CheckQuota, CheckFails, Suspend,
                  RecordSnapshot, row
    <3>2. InHand(s) = 0 /\ InHand(s)' = 0
      BY <2>1, <2>4 DEF StartSync, GiveUp, TaskExpires, CheckQuota, CheckFails, Suspend,
                        RecordSnapshot, InHand, NoSync, SyncState
    <3>3. Total' = Total
      BY <2>3, <3>2
    <3>4. QED
      BY <1>c, <1>n, <1>p, <2>3, <3>1, <3>3
  <2>5. CASE FetchTraffic(s)
    <3>1. UNCHANGED <<traffic, lost, usedBytes>> /\ counter' = 0
      BY <2>5 DEF FetchTraffic, AfterRead, row
    <3>2. InHand(s) = 0 /\ InHand(s)' = counter
      <4>1. sync[s].pc = "queued"
        BY <2>5 DEF FetchTraffic
      <4>2. CASE counter > 0
        BY <2>1, <2>5, <4>1, <4>2 DEF FetchTraffic, InHand, SyncState
      <4>3. CASE ~(counter > 0)
        <5>1. counter = 0
          BY <1>n, <4>3
        <5>2. sync'[s].pc = "record"
          BY <2>1, <2>5, <4>3 DEF FetchTraffic
        <5>3. QED
          BY <4>1, <5>1, <5>2 DEF InHand
      <4>4. QED
        BY <4>2, <4>3
    <3>3. Total' = Total + counter
      BY <2>3, <3>2
    <3>4. QED
      BY <1>c, <1>n, <1>p, <2>3, <3>1, <3>3
  <2>6. CASE FetchFails(s) \/ FetchInVain(s)
    <3>1. /\ UNCHANGED <<traffic, usedBytes>>
          /\ \/ UNCHANGED <<counter, lost>>
             \/ counter' = 0 /\ lost' = lost + counter
      BY <2>6 DEF FetchFails, FetchInVain, row
    <3>2. InHand(s) = 0 /\ InHand(s)' = 0
      BY <2>1, <2>6 DEF FetchFails, FetchInVain, InHand, NoSync, SyncState
    <3>3. Total' = Total
      BY <2>3, <3>2
    <3>4. QED
      BY <1>c, <1>n, <1>p, <2>3, <3>1, <3>3
  <2>7. CASE UpdateUsage(s)
    <3>1. UNCHANGED <<traffic, lost, counter>> /\ usedBytes' = usedBytes + sync[s].amount
      BY <2>7 DEF UpdateUsage
    <3>2. InHand(s) = sync[s].amount /\ InHand(s)' = 0
      BY <2>1, <2>7 DEF UpdateUsage, InHand, SyncState
    <3>3. Total' + sync[s].amount = Total
      BY <2>3, <3>2
    <3>4. QED
      BY <1>c, <1>n, <1>p, <2>3, <3>1, <3>3
  <2>8. CASE UpdateFails(s)
    <3>1. UNCHANGED <<traffic, counter, usedBytes>> /\ lost' = lost + sync[s].amount
      BY <2>8 DEF UpdateFails, row
    <3>2. InHand(s) = sync[s].amount /\ InHand(s)' = 0
      BY <2>1, <2>8 DEF UpdateFails, InHand, NoSync, SyncState
    <3>3. Total' + sync[s].amount = Total
      BY <2>3, <3>2
    <3>4. QED
      BY <1>c, <1>n, <1>p, <2>3, <3>1, <3>3
  <2>9. QED
    BY <1>5, <2>4, <2>5, <2>6, <2>7, <2>8
<1>6. QED
  BY <1>1, <1>2, <1>3, <1>4, <1>5 DEF Next

\* Whatever hysteria counted is in its counter, in the hands of one sync, in the
\* row or known to be lost, and nowhere twice, however syncs overlap: a sync
\* reads and clears the counter in one call.
THEOREM NothingBilledTwice == Spec => []Conservation
  BY TypeInit, TypeNext, ConservationInit, ConservationNext, PTL DEF Spec

(***************************************************************************)
(* Nobody is suspended before half of the quota.                           *)
(***************************************************************************)
\* The two ways to count a byte twice: the amount of a sync that checks the
\* quota is in the row already, and a heartbeat may have reported it before.
HalfInv ==
    /\ \A s \in Syncs : sync[s].pc = "check" => sync[s].amount <= usedBytes
    /\ \A s \in Syncs : sync[s].pc = "suspend" => 2 * traffic >= Quota
    /\ \A h \in Heartbeats : heartbeat[h].value <= traffic
    /\ SuspendedAfterHalf

\* What the row and the counter hold was sent.
LEMMA AccountedWasSent ==
  TypeOK /\ Conservation => usedBytes <= traffic /\ counter <= traffic
<1> SUFFICES ASSUME TypeOK, Conservation
             PROVE  usedBytes <= traffic /\ counter <= traffic
  OBVIOUS
<1>1. usedBytes + Total + counter + lost = traffic
  BY ConservationIsTotal
<1>2. PICK g : Sums(g, InHands, Syncs) /\ Total = g[Syncs]
  BY TotalIsSum
<1>3. Total \in Nat
  BY <1>2, InHandsType, AccountingAssumption, SumsType
<1>4. QED
  BY <1>1, <1>3, AccountingAssumption DEF TypeOK

\* A new account is active.
LEMMA HalfInit == Init => HalfInv
  BY DEF Init, HalfInv, SuspendedAfterHalf, NoSync, NoHeartbeat

\* Every step keeps the bounds: the row and the traffic only grow.
LEMMA HalfNext ==
  TypeOK /\ Conservation /\ HalfInv /\ [Next]_vars => HalfInv'
<1> SUFFICES ASSUME TypeOK, Conservation, HalfInv, [Next]_vars
             PROVE  HalfInv'
  OBVIOUS
<1>a. usedBytes <= traffic /\ counter <= traffic
  BY AccountedWasSent
<1>n. /\ traffic \in Nat /\ counter \in Nat /\ usedBytes \in Nat /\ Quota \in Nat
      /\ \A s \in Syncs : sync[s].amount \in Nat
      /\ \A h \in Heartbeats : heartbeat[h].value \in Nat
      /\ sync \in [Syncs -> SyncState] /\ heartbeat \in [Heartbeats -> HeartbeatState]
  BY AccountingAssumption DEF TypeOK, SyncState, HeartbeatState
<1>1. CASE UseTraffic
  <2>1. traffic' = traffic + 1 /\ UNCHANGED <<usedBytes, status, sync, heartbeat>>
    BY <1>1 DEF UseTraffic, row
  <2>2. QED
    BY <1>n, <2>1 DEF HalfInv, SuspendedAfterHalf
<1>2. CASE HysteriaRestart \/ UNCHANGED vars
  <2>1. UNCHANGED <<traffic, usedBytes, status, sync, heartbeat>>
    BY <1>2 DEF HysteriaRestart, vars, row
  <2>2. QED
    BY <2>1 DEF HalfInv, SuspendedAfterHalf
<1>3. ASSUME NEW s \in Syncs,
             \/ StartSync(s) \/ GiveUp(s) \/ TaskExpires(s) \/ FetchTraffic(s)
             \/ FetchFails(s) \/ FetchInVain(s) \/ UpdateFails(s) \/ CheckFails(s)
             \/ RecordSnapshot(s)
      PROVE  HalfInv'
  <2>1. UNCHANGED <<traffic, usedBytes, status, heartbeat>>
    BY <1>3 DEF StartSync, GiveUp, TaskExpires, FetchTraffic, FetchFails, FetchInVain,
                UpdateFails, CheckFails, RecordSnapshot, row
  <2>2. /\ \A t \in Syncs : t # s => sync'[t] = sync[t]
        /\ sync'[s].pc \notin {"check", "suspend"}
    BY <1>3, <1>n DEF StartSync, GiveUp, TaskExpires, FetchTraffic, FetchFails, FetchInVain,
                UpdateFails, CheckFails, RecordSnapshot, NoSync, SyncState
  <2>3. QED
    BY <2>1, <2>2 DEF HalfInv, SuspendedAfterHalf
<1>4. ASSUME NEW s \in Syncs, UpdateUsage(s)
      PROVE  HalfInv'
  <2>1. /\ usedBytes' = usedBytes + sync[s].amount
        /\ UNCHANGED <<traffic, status, heartbeat>>
    BY <1>4 DEF UpdateUsage
  <2>2. /\ \A t \in Syncs : t # s => sync'[t] = sync[t]
        /\ sync'[s].pc = "check" /\ sync'[s].amount = sync[s].amount
    BY <1>4, <1>n DEF UpdateUsage, SyncState
  <2>3. \A t \in Syncs : sync'[t].pc = "check" => sync'[t].amount <= usedBytes'
    BY <1>n, <2>1, <2>2 DEF HalfInv
  <2>4. QED
    BY <2>1, <2>2, <2>3 DEF HalfInv, SuspendedAfterHalf
<1>5. ASSUME NEW s \in Syncs, CheckQuota(s)
      PROVE  HalfInv'
  <2>1. UNCHANGED <<traffic, usedBytes, status, heartbeat>> /\ sync[s].pc = "check"
    BY <1>5 DEF CheckQuota, row
  <2>2. /\ \A t \in Syncs : t # s => sync'[t] = sync[t]
        /\ sync'[s].pc \in {"suspend", "record"}
        /\ sync'[s].pc = "suspend" => usedBytes + sync[s].amount >= Quota
    BY <1>5, <1>n DEF CheckQuota, NextUsedBytes, SyncState
  <2>3. sync'[s].pc = "suspend" => 2 * traffic >= Quota
    BY <1>a, <1>n, <2>1, <2>2 DEF HalfInv
  <2>4. QED
    BY <2>1, <2>2, <2>3 DEF HalfInv, SuspendedAfterHalf
<1>6. ASSUME NEW s \in Syncs, Suspend(s)
      PROVE  HalfInv'
  <2>1. UNCHANGED <<traffic, usedBytes, heartbeat>> /\ 2 * traffic >= Quota
    BY <1>6 DEF Suspend, HalfInv
  <2>2. /\ \A t \in Syncs : t # s => sync'[t] = sync[t]
        /\ sync'[s].pc = "record"
    BY <1>6, <1>n DEF Suspend, SyncState
  <2>3. QED
    BY <2>1, <2>2 DEF HalfInv, SuspendedAfterHalf
<1>7. ASSUME NEW h \in Heartbeats,
             SendHeartbeat(h) \/ HeartbeatTimesOut(h) \/ HeartbeatFails(h)
      PROVE  HalfInv'
  <2>1. UNCHANGED <<traffic, usedBytes, status, sync>>
    BY <1>7 DEF SendHeartbeat, HeartbeatTimesOut, HeartbeatFails, row
  <2>2. /\ \A k \in Heartbeats : k # h => heartbeat'[k] = heartbeat[k]
        /\ heartbeat'[h].value \in {counter, heartbeat[h].value, 0}
    BY <1>7, <1>n DEF SendHeartbeat, HeartbeatTimesOut, HeartbeatFails, NoHeartbeat,
                      HeartbeatState
  <2>3. \A k \in Heartbeats : heartbeat'[k].value <= traffic
    BY <1>a, <1>n, <2>2 DEF HalfInv
  <2>4. QED
    BY <2>1, <2>3 DEF HalfInv, SuspendedAfterHalf
<1>8. ASSUME NEW h \in Heartbeats, HandleHeartbeat(h)
      PROVE  HalfInv'
  <2>1. /\ UNCHANGED <<traffic, usedBytes, sync>>
        /\ status' = "suspended" =>
             usedBytes + heartbeat[h].value >= Quota \/ status = "suspended"
    BY <1>8 DEF HandleHeartbeat, LiveUsedBytes
  <2>2. /\ \A k \in Heartbeats : k # h => heartbeat'[k] = heartbeat[k]
        /\ heartbeat'[h].value = 0
    BY <1>8, <1>n DEF HandleHeartbeat, NoHeartbeat
  <2>3. \A k \in Heartbeats : heartbeat'[k].value <= traffic
    BY <1>n, <2>2 DEF HalfInv
  <2>4. status' = "suspended" => 2 * traffic >= Quota
    <3>1. usedBytes + heartbeat[h].value <= 2 * traffic
      BY <1>a, <1>n DEF HalfInv
    <3>2. QED
      BY <1>n, <2>1, <3>1 DEF HalfInv, SuspendedAfterHalf
  <2>5. QED
    BY <2>1, <2>3, <2>4 DEF HalfInv, SuspendedAfterHalf
<1>9. QED
  BY <1>1, <1>2, <1>3, <1>4, <1>5, <1>6, <1>7, <1>8 DEF Next

\* CheckQuota adds an amount the row holds already, and a heartbeat handled late
\* reports bytes a sync has accounted since: a user may be suspended early, but
\* not before half of the quota was really used.
THEOREM NotBeforeHalf == Spec => []SuspendedAfterHalf
<1>1. Init => TypeOK /\ Conservation /\ HalfInv
  BY TypeInit, ConservationInit, HalfInit
<1>2. TypeOK /\ Conservation /\ HalfInv /\ [Next]_vars
      => (TypeOK /\ Conservation /\ HalfInv)'
  BY TypeNext, ConservationNext, HalfNext
<1>3. HalfInv => SuspendedAfterHalf
  BY DEF HalfInv
<1>4. QED
  BY <1>1, <1>2, <1>3, PTL DEF Spec

(***************************************************************************)
(* What reaches the row.                                                    *)
(***************************************************************************)
\* The sync that wrote the row compares it with the quota afterwards, unless it fails to.
Noticed ==
    usedBytes >= Quota =>
        \/ status = "suspended"
        \/ \E s \in Syncs : sync[s].pc \in {"check", "suspend"}
        \/ failures > 0

\* Nothing takes a failure back.
LEMMA FailuresGrow == TypeOK /\ [Next]_vars => (failures > 0 => failures' > 0)
<1> SUFFICES ASSUME TypeOK, [Next]_vars, failures > 0
             PROVE  failures' > 0
  OBVIOUS
<1>1. failures' = failures \/ failures' = failures + 1
  BY DEF Next, vars, Fail, UseTraffic, HysteriaRestart, StartSync, GiveUp, TaskExpires,
     FetchTraffic, FetchFails, FetchInVain, UpdateUsage, UpdateFails, CheckQuota, CheckFails,
     Suspend, RecordSnapshot, SendHeartbeat, HeartbeatTimesOut, HandleHeartbeat,
     HeartbeatFails
<1>2. failures \in Nat
  BY AccountingAssumption DEF TypeOK
<1>3. QED
  BY <1>1, <1>2

\* A sync checks what it wrote, and one that finds the user suspended already relies on
\* a status that nothing here takes back.
LEMMA NoticedNext == TypeOK /\ Noticed /\ [Next]_vars => Noticed'
<1> SUFFICES ASSUME TypeOK, Noticed, [Next]_vars
             PROVE  Noticed'
  OBVIOUS
<1>n. /\ usedBytes \in Nat /\ Quota \in Nat /\ sync \in [Syncs -> SyncState]
      /\ \A s \in Syncs : sync[s].amount \in Nat
      /\ failures \in Nat
  BY AccountingAssumption DEF TypeOK, SyncState
<1>f. failures > 0 => failures' > 0
  BY FailuresGrow
<1>0. CASE failures' > 0
  BY <1>0 DEF Noticed
<1>1. CASE \/ UseTraffic \/ HysteriaRestart \/ UNCHANGED vars
           \/ \E h \in Heartbeats :
                SendHeartbeat(h) \/ HeartbeatTimesOut(h) \/ HeartbeatFails(h)
  <2>1. UNCHANGED <<usedBytes, status, sync>>
    BY <1>1 DEF UseTraffic, HysteriaRestart, vars, row, SendHeartbeat, HeartbeatTimesOut,
                HeartbeatFails
  <2>2. QED
    BY <1>f, <2>1 DEF Noticed
<1>2. ASSUME NEW s \in Syncs,
             \/ StartSync(s) \/ GiveUp(s) \/ TaskExpires(s) \/ FetchTraffic(s)
             \/ FetchFails(s) \/ FetchInVain(s) \/ UpdateFails(s) \/ RecordSnapshot(s)
      PROVE  Noticed'
  <2>1. UNCHANGED <<usedBytes, status>> /\ sync[s].pc \notin {"check", "suspend"}
    BY <1>2 DEF StartSync, GiveUp, TaskExpires, FetchTraffic, FetchFails, FetchInVain,
                UpdateFails, RecordSnapshot, row, NoSync
  <2>2. \A t \in Syncs : t # s => sync'[t] = sync[t]
    BY <1>2, <1>n DEF StartSync, GiveUp, TaskExpires, FetchTraffic, FetchFails, FetchInVain,
                UpdateFails, RecordSnapshot
  <2>3. QED
    BY <1>f, <2>1, <2>2 DEF Noticed
<1>3. ASSUME NEW s \in Syncs, UpdateUsage(s)
      PROVE  Noticed'
  <2>1. sync'[s].pc = "check"
    BY <1>3, <1>n DEF UpdateUsage, SyncState
  <2>2. QED
    BY <2>1 DEF Noticed
<1>4. ASSUME NEW s \in Syncs, CheckQuota(s)
      PROVE  Noticed'
  <2>1. /\ UNCHANGED <<usedBytes, status>>
        /\ sync'[s].pc = IF usedBytes + sync[s].amount >= Quota /\ status # "suspended"
                         THEN "suspend" ELSE "record"
    BY <1>4, <1>n DEF CheckQuota, NextUsedBytes, SyncState, row
  <2>2. usedBytes >= Quota => usedBytes + sync[s].amount >= Quota
    BY <1>n
  <2>3. QED
    BY <1>f, <2>1, <2>2 DEF Noticed
<1>5. ASSUME NEW s \in Syncs, CheckFails(s)
      PROVE  failures' > 0
  BY <1>5, <1>n DEF CheckFails, Fail
<1>6. ASSUME NEW s \in Syncs, Suspend(s)
      PROVE  Noticed'
  BY <1>6 DEF Suspend, Noticed
<1>7. ASSUME NEW h \in Heartbeats, HandleHeartbeat(h)
      PROVE  Noticed'
  <2>1. UNCHANGED <<usedBytes, sync>> /\ (status = "suspended" => status' = "suspended")
    BY <1>7 DEF HandleHeartbeat
  <2>2. QED
    BY <1>f, <2>1 DEF Noticed
<1>8. QED
  BY <1>0, <1>1, <1>2, <1>3, <1>4, <1>5, <1>6, <1>7 DEF Next

\* applyTrafficUsagePayload: a row that holds the quota belongs to a suspended user, or
\* to one whom a sync is about to suspend, unless something failed, however syncs overlap:
\* the check of one does not hide what another one added.  This is the half of
\* QuotaEnforced that needs no fairness.
THEOREM OverQuotaIsNoticed == Spec => []Noticed
<1>1. Init => Noticed
  BY AccountingAssumption DEF Init, Noticed
<1>2. QED
  BY <1>1, NoticedNext, TypeCorrect, PTL DEF Spec

\* How far used_gb is off: MySQL adds the amount of a sync twice, but starts each time
\* from the bytes.
GigabytesWithinTwice ==
    usedBytes \div GB <= usedGB /\ usedGB <= (2 * usedBytes) \div GB

\* Gigabytes grow with bytes.
LEMMA GigabytesGrow ==
    ASSUME NEW a \in Nat, NEW b \in Nat, a <= b
    PROVE  a \div GB <= b \div GB
<1> DEFINE p == a \div GB
           q == b \div GB
<1>1. p \in Nat /\ q \in Nat
  BY GigabytesType
<1>2. GB * p <= a /\ b < GB * q + GB
  BY AccountingAssumption
<1> HIDE DEF p, q
<1>3. SUFFICES ASSUME q + 1 <= p PROVE FALSE
  BY <1>1 DEF p, q
<1>4. GB * (q + 1) <= GB * p
  BY <1>1, <1>3, AccountingAssumption
<1>5. GB * (q + 1) = GB * q + GB
  BY <1>1, AccountingAssumption
<1>6. QED
  BY <1>1, <1>2, <1>4, <1>5, AccountingAssumption

\* The error of used_gb does not add up over the syncs.
LEMMA GigabytesNext ==
  TypeOK /\ GigabytesWithinTwice /\ [Next]_vars => GigabytesWithinTwice'
<1> SUFFICES ASSUME TypeOK, GigabytesWithinTwice, [Next]_vars
             PROVE  GigabytesWithinTwice'
  OBVIOUS
<1>1. CASE \E s \in Syncs : UpdateUsage(s)
  <2>1. PICK s \in Syncs : UpdateUsage(s)
    BY <1>1
  <2> DEFINE amount == sync[s].amount
  <2>2. usedBytes \in Nat /\ amount \in Nat
    BY DEF TypeOK
  <2>3. /\ usedBytes' = usedBytes + amount
        /\ usedGB' = (usedBytes + amount + amount) \div GB
    BY <2>1 DEF UpdateUsage, GigabytesAfter
  <2> HIDE DEF amount
  <2>4. /\ usedBytes + amount \in Nat /\ usedBytes + amount + amount \in Nat
        /\ 2 * (usedBytes + amount) \in Nat
        /\ usedBytes + amount <= usedBytes + amount + amount
        /\ usedBytes + amount + amount <= 2 * (usedBytes + amount)
    BY <2>2
  <2>5. (usedBytes + amount) \div GB <= (usedBytes + amount + amount) \div GB
    BY <2>4, GigabytesGrow
  <2>6. (usedBytes + amount + amount) \div GB <= (2 * (usedBytes + amount)) \div GB
    BY <2>4, GigabytesGrow
  <2>7. QED
    BY <2>3, <2>5, <2>6 DEF GigabytesWithinTwice
<1>2. CASE ~ \E s \in Syncs : UpdateUsage(s)
  <2>1. UNCHANGED <<usedBytes, usedGB>>
    BY <1>2 DEF Next, vars, row, UseTraffic, HysteriaRestart, StartSync, GiveUp, TaskExpires,
       FetchTraffic, FetchFails, FetchInVain, UpdateFails, CheckQuota, CheckFails, Suspend,
       RecordSnapshot, SendHeartbeat, HeartbeatTimesOut, HandleHeartbeat, HeartbeatFails
  <2>2. QED
    BY <2>1 DEF GigabytesWithinTwice
<1>3. QED
  BY <1>1, <1>2

\* UsedGBConsistent, which the migration promises, does not hold (run traffic_gigabytes);
\* this much does, after any number of syncs: used_gb is never less than used_bytes in
\* gigabytes and never more than twice as much.
THEOREM GigabytesBounded == Spec => []GigabytesWithinTwice
<1>1. Init => GigabytesWithinTwice
  <2>1. 0 \div GB = 0
    BY AccountingAssumption
  <2>2. QED
    BY <2>1 DEF Init, GigabytesWithinTwice
<1>2. QED
  BY <1>1, GigabytesNext, TypeCorrect, PTL DEF Spec
=============================================================================
