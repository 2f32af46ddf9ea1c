----------------------------- MODULE PlanProofs -----------------------------
(***************************************************************************)
(* The decisions of plan() are the right ones, for every table of          *)
(* residents, every budget and every requirement: what MCScheduler checks  *)
(* of small tables is proved of all.                                       *)
(***************************************************************************)
EXTENDS MCScheduler, SchedulerProofs

(***************************************************************************)
(* What the lifecycle manager presents, and a plan, if any, that plan()    *)
(* can return for it: this is inductive, and what follows reasons about    *)
(* the plan alone.                                                         *)
(***************************************************************************)
TableOK ==
  /\ Residents(table)
  /\ \A r \in table : /\ r.name # NewName
                      /\ r.expired \in BOOLEAN /\ r.priority \in Nat /\ r.idle \in Nat
PlanInv ==
  /\ TableOK
  /\ Decided => required \in Nat /\ plan \in Plans(NewName, required, table)

LEMMA InitPlan == Init => PlanInv
<1> SUFFICES ASSUME Init PROVE PlanInv
  OBVIOUS
<1> USE MCSchedulerAssumption
<1>1. PICK S \in SUBSET Names : \E f \in [S -> Infos] :
             table = {[f[n] EXCEPT !.name = n] : n \in S}
  BY DEF Init
<1>2. PICK f \in [S -> Infos] : table = {[f[n] EXCEPT !.name = n] : n \in S}
  BY <1>1
<1> DEFINE info(n) == [f[n] EXCEPT !.name = n]
<1>3. ASSUME NEW n \in S
      PROVE  /\ info(n).name = n /\ info(n).bytes \in Nat
             /\ info(n).expired \in BOOLEAN
             /\ info(n).priority \in Nat /\ info(n).idle \in Nat
  <2>1. f[n] \in [name : {NewName}, bytes : 1 .. MaxBytes, active : 0 .. 1,
                  idle : 0 .. MaxIdle, priority : 0 .. 1, expired : BOOLEAN,
                  pinned : BOOLEAN]
    BY DEF Infos
  <2> QED
    BY <2>1
<1>4. table = {info(n) : n \in S}
  BY <1>2
<1>5. IsFiniteSet(table)
  <2> DEFINE g == [n \in S |-> info(n)]
  <2>1. g \in Surjection(S, {info(n) : n \in S})
    BY DEF Surjection
  <2>2. IsFiniteSet(S)
    BY FS_Subset
  <2> HIDE DEF g, info
  <2> QED
    BY <1>4, <2>1, <2>2, FS_Surjection
<1>6. \A r \in table : \E n \in S : r = info(n)
  BY <1>4
<1> HIDE DEF info
<1>7. Residents(table)
  BY <1>3, <1>5, <1>6 DEF Residents
<1>8. TableOK
  BY <1>3, <1>6, <1>7 DEF TableOK
<1> QED
  BY <1>8 DEF Init, PlanInv, Decided

LEMMA NextPlan == PlanInv /\ [Next]_vars => PlanInv'
<1> SUFFICES ASSUME PlanInv, [Next]_vars PROVE PlanInv'
  OBVIOUS
<1>1. CASE Decide
  <2>1. table' = table /\ required' \in Nat /\ plan' \in Plans(NewName, required', table)
    BY <1>1, MCSchedulerAssumption DEF Decide
  <2> QED
    BY <2>1 DEF PlanInv, TableOK
<1>2. CASE UNCHANGED vars
  BY <1>2 DEF PlanInv, TableOK, Decided, vars
<1> QED
  BY <1>1, <1>2 DEF Next

\* Every plan that is made is one that plan() can return for the table
LEMMA PlanInvariant == Spec => []PlanInv
<1> QED
  BY InitPlan, NextPlan, PTL DEF Spec

----------------------------------------------------------------------------
(* What a plan is                                                          *)

Few == Candidates(NewName, table)

\* the loop has found the plan on the ranking q, taking k candidates
TakenFrom(q, k) ==
  /\ q \in Rankings(Few) /\ k \in 0 .. Len(q)
  /\ AdmittedAfter(plan, q, k, required, table)

\* the model fits at once
AtOnce ==
  /\ plan = Admit(<<>>, "enough_memory")
  /\ Fits(Cardinality(table), Available(table), required)

\* the loop has found nothing on the ranking q
NothingFrom(q) ==
  q \in Rankings(Few) /\ RefusedAfter(plan, q, required, table)

\* The candidates are those who may leave
LEMMA FewAreEvictable ==
  ASSUME TableOK
  PROVE  /\ Few = Evictable /\ Few \subseteq table /\ IsFiniteSet(Few)
<1>1. Few = Evictable
  BY DEF Few, Candidates, Evictable, TableOK
<1> QED
  BY <1>1, CandidatesFacts DEF Few, TableOK, Residents

\* A plan is made at once, or by the loop, or is a refusal
LEMMA PlanForms ==
  ASSUME PlanInv, Decided
  PROVE  AtOnce \/ (\E q : NothingFrom(q)) \/ (\E q, k : TakenFrom(q, k))
<1>1. \A r \in table : r.name # NewName
  BY DEF PlanInv, TableOK
<1>2. CASE Fits(Cardinality(table), Available(table), required)
  <2>1. plan = Admit(<<>>, "enough_memory")
    BY <1>1, <1>2 DEF PlanInv, Plans
  <2> QED
    BY <1>2, <2>1 DEF AtOnce
<1>3. CASE ~Fits(Cardinality(table), Available(table), required)
  <2>1. PICK q \in Rankings(Few) : plan = Greedy(q, required, table)
    BY <1>1, <1>3 DEF PlanInv, Plans, Few
  <2>2. IsFiniteSet(Few)
    BY FewAreEvictable DEF PlanInv
  <2>3. \/ RefusedAfter(plan, q, required, table)
        \/ \E k \in 0 .. Len(q) : AdmittedAfter(plan, q, k, required, table)
    BY <2>1, <2>2, GreedyFacts
  <2> QED
    BY <2>1, <2>3 DEF NothingFrom, TakenFrom
<1> QED
  BY <1>2, <1>3

\* The evicted ones are the first k of the ranking
LEMMA EvictedFacts ==
  ASSUME PlanInv, NEW q, NEW k, TakenFrom(q, k)
  PROVE  /\ Len(q) \in Nat
         /\ q \in [1 .. Len(q) -> Few]
         /\ Len(plan.evictions) = k
         /\ \A i \in 1 .. k : plan.evictions[i] = q[i].name
         /\ Evicted = Leaving(q, k)
<1>1. Few \subseteq table /\ IsFiniteSet(Few) /\ Residents(table)
  BY FewAreEvictable DEF PlanInv, TableOK
<1>2. q \in Rankings(Few) /\ k \in 0 .. Len(q) /\ plan.evictions = [i \in 1 .. k |-> q[i].name]
  BY DEF TakenFrom, AdmittedAfter
<1>3. Len(q) \in Nat /\ q \in [1 .. Len(q) -> Few]
  BY <1>1, <1>2, RankingFacts
<1>4. /\ DOMAIN plan.evictions = 1 .. k /\ Len(plan.evictions) = k
      /\ \A i \in 1 .. k : plan.evictions[i] = q[i].name
  BY <1>2, <1>3
<1>5. \A r \in table : r \in Leaving(q, k) <=> \E i \in 1 .. k : q[i].name = r.name
  BY <1>1, <1>2, LeavingNames
<1>6. Leaving(q, k) \subseteq table
  BY <1>1, <1>2, LeavingFacts
<1>7. Evicted = {r \in table : \E i \in 1 .. k : q[i].name = r.name}
  BY <1>4 DEF Evicted
<1> HIDE DEF Few
<1>8. Evicted = Leaving(q, k)
  BY <1>5, <1>6, <1>7, Zenon
<1> QED
  BY <1>3, <1>4, <1>8

----------------------------------------------------------------------------
(* What the loop computes by what it frees, said of what is left           *)

\* Where there is room without the first k, the loop sees it
LEMMA RoomIsSeen ==
  ASSUME PlanInv, Decided, NEW q \in Rankings(Few), NEW k \in 0 .. Len(q),
         Room(table \ Leaving(q, k))
  PROVE  Enough(q, k, required, table)
<1> USE SchedulerAssumption
<1> DEFINE L == Leaving(q, k)
<1>1. Few \subseteq table /\ IsFiniteSet(Few) /\ Residents(table) /\ required \in Nat
  BY FewAreEvictable DEF PlanInv, TableOK
<1>2. /\ Used(table) = Used(table \ L) + Used(L)
      /\ Used(table \ L) \in Nat /\ Used(L) \in Nat
      /\ Cardinality(table \ L) = Cardinality(table) - k
  BY <1>1, LeavingRoom
<1> HIDE DEF L
<1>3. Available(table) \in Nat /\ Available(table) >= Budget - Used(table)
  BY <1>2 DEF Available
<1>4. Fits(Cardinality(table) - k, Available(table) + Used(L), required)
  BY <1>1, <1>2, <1>3 DEF Room, Fits, L
<1> QED
  BY <1>4 DEF Enough, L

\* In a table within the budget, what the loop sees is there
LEMMA SeenIsRoom ==
  ASSUME PlanInv, Decided, Budget = 0 \/ Used(table) <= Budget,
         NEW q \in Rankings(Few), NEW k \in 0 .. Len(q),
         Enough(q, k, required, table)
  PROVE  Room(table \ Leaving(q, k))
<1> USE SchedulerAssumption
<1> DEFINE L == Leaving(q, k)
<1>1. Few \subseteq table /\ IsFiniteSet(Few) /\ Residents(table) /\ required \in Nat
  BY FewAreEvictable DEF PlanInv, TableOK
<1>2. /\ Used(table) = Used(table \ L) + Used(L)
      /\ Used(table \ L) \in Nat /\ Used(L) \in Nat
      /\ Cardinality(table \ L) = Cardinality(table) - k
  BY <1>1, LeavingRoom
<1>3. Fits(Cardinality(table) - k, Available(table) + Used(L), required)
  BY DEF Enough
<1> HIDE DEF L
<1>4. Budget > 0 => Available(table) = Budget - Used(table)
  BY <1>2 DEF Available
<1>5. Room(table \ L)
  BY <1>1, <1>2, <1>3, <1>4 DEF Room, Fits
<1> QED
  BY <1>5 DEF L

----------------------------------------------------------------------------
(***************************************************************************)
(* Executing an admitted plan makes room for the new model, although the   *)
(* loop never adds up what is left: for every table within the budget      *)
(* (scheduler.py, plan).                                                   *)
(***************************************************************************)
THEOREM AdmittedPlansMakeRoom == Spec => []PlanMakesRoom
<1>1. ASSUME PlanInv PROVE PlanMakesRoom
  <2> SUFFICES ASSUME Decided, plan.admitted, Budget = 0 \/ Used(table) <= Budget
               PROVE  Room(table \ Evicted)
    BY DEF PlanMakesRoom
  <2>1. ASSUME AtOnce PROVE Room(table \ Evicted)
    <3>1. Evicted = {} /\ table \ {} = table
      BY <2>1 DEF AtOnce, Admit, Evicted
    <3>2. Used(table) \in Nat /\ required \in Nat
      BY <1>1, OccupiedFinite DEF PlanInv, TableOK
    <3>3. Room(table)
      BY <2>1, <3>2, SchedulerAssumption DEF AtOnce, Fits, Available, Room
    <3> QED
      BY <3>1, <3>3
  <2>2. ASSUME NEW q, NEW k, TakenFrom(q, k) PROVE Room(table \ Evicted)
    BY <1>1, <2>2, SeenIsRoom, EvictedFacts DEF TakenFrom, AdmittedAfter
  <2>3. ASSUME NEW q, NothingFrom(q) PROVE FALSE
    BY <2>3 DEF NothingFrom, RefusedAfter
  <2> QED
    BY <1>1, <2>1, <2>2, <2>3, PlanForms
<1> QED
  BY <1>1, PlanInvariant, PTL

(***************************************************************************)
(* The plan stops at the first eviction that suffices: without its last    *)
(* victim there is no room, however the ties were broken and whether the   *)
(* table is within the budget or not (scheduler.py, plan).                 *)
(***************************************************************************)
THEOREM PlansAreMinimal == Spec => []PlanIsMinimal
<1>1. ASSUME PlanInv PROVE PlanIsMinimal
  <2> DEFINE last == plan.evictions[Len(plan.evictions)]
             kept == {r \in table : r \notin Evicted \/ r.name = last}
  <2> SUFFICES ASSUME Decided, plan.evictions # <<>> PROVE ~Room(kept)
    BY DEF PlanIsMinimal
  <2>1. PICK q, k : TakenFrom(q, k)
    BY <1>1, PlanForms DEF AtOnce, Admit, NothingFrom, RefusedAfter
  <2>2. q \in Rankings(Few) /\ k \in 0 .. Len(q)
    BY <2>1 DEF TakenFrom
  <2>3. /\ Len(q) \in Nat /\ q \in [1 .. Len(q) -> Few]
        /\ Len(plan.evictions) = k
        /\ \A i \in 1 .. k : plan.evictions[i] = q[i].name
        /\ Evicted = Leaving(q, k)
    BY <1>1, <2>1, EvictedFacts
  <2>4. k > 0
    <3> SUFFICES ASSUME k = 0 PROVE FALSE
      BY <2>2, <2>3
    <3> QED
      BY <2>1 DEF TakenFrom, AdmittedAfter
  <2>5. Few \subseteq table /\ IsFiniteSet(Few) /\ Residents(table)
    BY <1>1, FewAreEvictable DEF PlanInv, TableOK
  <2>6. k - 1 \in 0 .. Len(q)
    BY <2>2, <2>3, <2>4
  <2>7. last = q[k].name /\ q[k] \in table
    BY <2>2, <2>3, <2>4, <2>5
  <2>8. kept = table \ Leaving(q, k - 1)
    <3>1. \A r \in table : r.name = last <=> r = q[k]
      BY <2>5, <2>7 DEF Residents
    <3>2. Leaving(q, k) = Leaving(q, k - 1) \cup {q[k]}
      BY <2>2, <2>3, <2>4 DEF Leaving
    <3>3. q[k] \notin Leaving(q, k - 1)
      <4>1. \A i, j \in 1 .. Len(q) : i # j => q[i] # q[j]
        BY <2>2, <2>5, RankingFacts
      <4> QED
        BY <2>2, <2>3, <2>4, <4>1 DEF Leaving
    <3> HIDE DEF last
    <3> QED
      BY <2>3, <3>1, <3>2, <3>3
  <2>9. ~Enough(q, k - 1, required, table)
    BY <2>1, <2>4 DEF TakenFrom, AdmittedAfter
  <2> HIDE DEF kept
  <2> QED
    BY <1>1, <2>2, <2>6, <2>8, <2>9, RoomIsSeen
<1> QED
  BY <1>1, PlanInvariant, PTL

(***************************************************************************)
(* A request is refused only when nothing that may leave would help, and   *)
(* told to retry exactly when the model would fit on an empty machine.     *)
(***************************************************************************)
THEOREM RefusalsAreJustified == Spec => []RefusesOnlyWithoutRecourse
<1>1. ASSUME PlanInv PROVE RefusesOnlyWithoutRecourse
  <2> SUFFICES ASSUME Decided, ~plan.admitted
               PROVE  /\ ~Room(table \ Evictable)
                      /\ plan.reason = "all_residents_busy" <=> Room({})
    BY DEF RefusesOnlyWithoutRecourse
  <2>1. PICK q : NothingFrom(q)
    <3>1. ~AtOnce
      BY DEF AtOnce, Admit
    <3>2. ASSUME NEW q, NEW k PROVE ~TakenFrom(q, k)
      BY DEF TakenFrom, AdmittedAfter
    <3> QED
      BY <1>1, <3>1, <3>2, PlanForms
  <2>2. Few = Evictable /\ IsFiniteSet(Few)
    BY <1>1, FewAreEvictable DEF PlanInv
  <2>3. Leaving(q, Len(q)) = Few /\ Len(q) \in Nat /\ q \in Rankings(Few)
    BY <2>1, <2>2, RankingIsComplete, RankingFacts DEF NothingFrom
  <2>4. ~Room(table \ Evictable)
    <3>1. Len(q) \in 0 .. Len(q)
      BY <2>3
    <3> QED
      BY <1>1, <2>1, <2>2, <2>3, <3>1, RoomIsSeen DEF NothingFrom, RefusedAfter
  <2>5. Room({}) <=> Fits(0, Budget, required)
    <3>1. Occupied({}) = {}
      BY DEF Occupied
    <3>2. Used({}) = 0 /\ Cardinality({}) = 0
      BY <3>1, FS_EmptySet DEF Used
    <3>3. required \in Nat
      BY <1>1 DEF PlanInv
    <3> QED
      BY <3>2, <3>3, SchedulerAssumption DEF Room, Fits
  <2>6. plan.reason = "all_residents_busy" <=> Fits(0, Budget, required)
    BY <2>1 DEF NothingFrom, RefusedAfter
  <2> QED
    BY <2>4, <2>5, <2>6
<1> QED
  BY <1>1, PlanInvariant, PTL

(***************************************************************************)
(* Only those who may leave are evicted, and in the right order: the       *)
(* expired first, then low priorities, then the least recently used        *)
(* (scheduler.py, _eviction_candidates).                                   *)
(***************************************************************************)
THEOREM EvictionsFollowThePolicy == Spec => []EvictionPolicy
<1>1. ASSUME PlanInv PROVE EvictionPolicy
  <2> SUFFICES ASSUME Decided, Evicted # {} PROVE EvictionPolicy
    BY DEF EvictionPolicy
  <2>1. PICK q, k : TakenFrom(q, k)
    BY <1>1, PlanForms DEF AtOnce, Admit, NothingFrom, RefusedAfter, Evicted
  <2>2. q \in Rankings(Few) /\ k \in 0 .. Len(q)
    BY <2>1 DEF TakenFrom
  <2>3. /\ Len(q) \in Nat /\ q \in [1 .. Len(q) -> Few]
        /\ Evicted = Leaving(q, k)
    BY <1>1, <2>1, EvictedFacts
  <2>4. Few = Evictable /\ Few \subseteq table /\ IsFiniteSet(Few)
    BY <1>1, FewAreEvictable DEF PlanInv
  <2>5. Leaving(q, Len(q)) = Few
    BY <2>2, <2>4, RankingIsComplete
  <2>6. ASSUME NEW v \in Evicted, NEW s \in Evictable \ Evicted PROVE ~Before(s, v)
    <3>1. PICK i \in 1 .. k : v = q[i]
      BY <2>3 DEF Leaving
    <3>2. PICK j \in 1 .. Len(q) : s = q[j]
      BY <2>4, <2>5 DEF Leaving
    <3>3. j > k
      BY <2>2, <2>3, <3>2 DEF Leaving
    <3>4. i < j /\ i \in DOMAIN q /\ j \in DOMAIN q
      BY <2>2, <2>3, <3>1, <3>2, <3>3
    <3> QED
      BY <2>2, <3>1, <3>2, <3>4 DEF Rankings
  <2>7. \A r \in table : r.expired \in BOOLEAN /\ r.priority \in Nat /\ r.idle \in Nat
    BY <1>1 DEF PlanInv, TableOK
  <2>8. ASSUME NEW v \in Evicted, NEW s \in Evictable \ Evicted
        PROVE  \/ v.expired /\ ~s.expired
               \/ v.expired = s.expired /\ v.priority < s.priority
               \/ v.expired = s.expired /\ v.priority = s.priority /\ v.idle >= s.idle
    <3>1. v \in table /\ s \in table
      BY DEF Evicted, Evictable
    <3>2. ~Before(s, v)
      BY <2>6
    <3> QED
      BY <2>7, <3>1, <3>2 DEF Before
  <2>9. Evicted \subseteq Evictable
    BY <2>2, <2>3, <2>4, LeavingFacts
  <2> QED
    BY <2>8, <2>9 DEF EvictionPolicy
<1> QED
  BY <1>1, PlanInvariant, PTL
==============================================================================
