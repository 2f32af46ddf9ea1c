--------------------------- MODULE SchedulerProofs ---------------------------
(***************************************************************************)
(* What plan() guarantees, for every budget, every limit and every set of  *)
(* residents: the facts that the manager relies on when it executes a plan.*)
(***************************************************************************)
EXTENDS Scheduler, FiniteSetTheorems, SequenceTheorems, TLAPS

\* The residents that plan() is given: finitely many, with distinct names
Residents(R) ==
  /\ IsFiniteSet(R)
  /\ \A r \in R : r.bytes \in Nat
  /\ \A r, s \in R : r.name = s.name => r = s

----------------------------------------------------------------------------
(* Least elements: initial segments are well ordered by inclusion          *)

\* A non-empty set of naturals has a least element, which Min chooses
LEMMA LeastNatural ==
  ASSUME NEW S, S \subseteq Nat, S # {}
  PROVE  Min(S) \in S /\ \A y \in S : Min(S) =< y
<1> DEFINE D(k) == 0 .. k
           T == {D(k) : k \in S}
<1>1. T \subseteq FiniteSubsetsOf(Nat)
  <2> SUFFICES ASSUME NEW k \in S PROVE D(k) \in FiniteSubsetsOf(Nat)
    OBVIOUS
  <2>1. IsFiniteSet(0 .. k)
    BY FS_Interval
  <2> QED
    BY <2>1 DEF FiniteSubsetsOf
<1>2. T # {}
  OBVIOUS
<1>3. \E x \in T : \A y \in T : ~ (<<y, x>> \in StrictSubsetOrdering(Nat))
  <2> HIDE DEF T
  <2> QED
    BY <1>1, <1>2, FS_StrictSubsetOrderingWellFounded, WFMin
<1>4. PICK k \in S : \A y \in S : ~ (<<D(y), D(k)>> \in StrictSubsetOrdering(Nat))
  BY <1>3
<1>5. ASSUME NEW y \in S PROVE k =< y
  <2> SUFFICES ASSUME y < k PROVE FALSE
    OBVIOUS
  <2>1. D(y) \subseteq D(k) /\ k \in D(k) /\ k \notin D(y)
    OBVIOUS
  <2>2. <<D(y), D(k)>> \in StrictSubsetOrdering(Nat)
    BY <2>1 DEF StrictSubsetOrdering
  <2> QED
    BY <2>2, <1>4
<1>6. \E x \in S : \A y \in S : x =< y
  BY <1>5
<1> QED
  BY <1>6 DEF Min

(***************************************************************************)
(* The loop over the candidates stops: at the first position that gives    *)
(* enough room, or at the end if there is none.                            *)
(***************************************************************************)
LEMMA LoopStops ==
  ASSUME NEW required, NEW R, NEW q, Len(q) \in Nat
  PROVE  /\ Taken(q, required, R) \in 0 .. Len(q)
         /\ Taken(q, required, R) = Len(q) \/ Enough(q, Taken(q, required, R), required, R)
         /\ \A j \in 0 .. (Taken(q, required, R) - 1) : ~Enough(q, j, required, R)
<1> DEFINE E(k) == Enough(q, k, required, R)
           S == {k \in 0 .. Len(q) : k = Len(q) \/ E(k)}
<1>1. Min(S) \in S /\ \A k \in S : Min(S) =< k
  <2>1. S \subseteq Nat /\ Len(q) \in S
    OBVIOUS
  <2> HIDE DEF S
  <2> QED
    BY <2>1, LeastNatural
<1>2. \A j \in 0 .. (Min(S) - 1) : ~E(j)
  <2> SUFFICES ASSUME NEW j \in 0 .. (Min(S) - 1), E(j) PROVE FALSE
    OBVIOUS
  <2>1. j \in S
    BY <1>1
  <2> QED
    BY <2>1, <1>1
<1>3. \E k \in 0 .. Len(q) : /\ k = Len(q) \/ E(k)
                             /\ \A j \in 0 .. (k - 1) : ~E(j)
  BY <1>1, <1>2
<1> HIDE DEF E
<1>4. Taken(q, required, R) =
        CHOOSE k \in 0 .. Len(q) : /\ k = Len(q) \/ E(k)
                                   /\ \A j \in 0 .. (k - 1) : ~E(j)
  BY DEF Taken, E
<1>5. /\ Taken(q, required, R) \in 0 .. Len(q)
      /\ Taken(q, required, R) = Len(q) \/ E(Taken(q, required, R))
      /\ \A j \in 0 .. (Taken(q, required, R) - 1) : ~E(j)
  BY <1>3, <1>4
<1> QED
  BY <1>5 DEF E

----------------------------------------------------------------------------
(* Rankings of the candidates                                              *)

\* The candidates are residents that are neither busy nor the model itself
LEMMA CandidatesFacts ==
  ASSUME NEW name, NEW R, IsFiniteSet(R)
  PROVE  /\ Candidates(name, R) \subseteq R
         /\ IsFiniteSet(Candidates(name, R))
         /\ \A r \in Candidates(name, R) : ~IsBusy(r) /\ r.name # name
<1>1. Candidates(name, R) \subseteq R
  BY DEF Candidates
<1> QED
  BY <1>1, FS_Subset DEF Candidates

\* A ranking lists each candidate once
LEMMA RankingFacts ==
  ASSUME NEW C, IsFiniteSet(C), NEW q \in Rankings(C)
  PROVE  /\ Len(q) \in Nat
         /\ q \in [1 .. Len(q) -> C]
         /\ \A i, j \in 1 .. Len(q) : i # j => q[i] # q[j]
<1> DEFINE n == Cardinality(C)
<1>1. n \in Nat
  BY FS_CardinalityType
<1>2. q \in [1 .. n -> C] /\ \A i, j \in 1 .. n : i # j => q[i] # q[j]
  BY DEF Rankings, SetToSeqs
<1>3. Len(q) = n
  BY <1>1, <1>2
<1> QED
  BY <1>1, <1>2, <1>3

\* the first k of them are k different residents
LEMMA LeavingFacts ==
  ASSUME NEW C, IsFiniteSet(C), NEW q \in Rankings(C), NEW k \in 0 .. Len(q)
  PROVE  /\ Leaving(q, k) \subseteq C
         /\ Cardinality(Leaving(q, k)) = k
<1>1. /\ Len(q) \in Nat
      /\ q \in [1 .. Len(q) -> C]
      /\ \A i, j \in 1 .. Len(q) : i # j => q[i] # q[j]
  BY RankingFacts
<1> DEFINE f == [i \in 1 .. k |-> q[i]]
<1>2. Leaving(q, k) \subseteq C
  BY <1>1 DEF Leaving
<1>3. f \in Bijection(1 .. k, Leaving(q, k))
  <2>1. f \in [1 .. k -> Leaving(q, k)]
    BY DEF Leaving
  <2>2. \A i, j \in 1 .. k : f[i] = f[j] => i = j
    BY <1>1
  <2>3. \A r \in Leaving(q, k) : \E i \in 1 .. k : f[i] = r
    BY DEF Leaving
  <2> QED
    BY <2>1, <2>2, <2>3 DEF Bijection, Injection, Surjection, IsInjective
<1>4. IsFiniteSet(1 .. k) /\ Cardinality(1 .. k) = k
  BY FS_Interval
<1> QED
  BY <1>2, <1>3, <1>4, FS_Bijection DEF ExistsBijection

\* and a ranking leaves nobody out
LEMMA RankingIsComplete ==
  ASSUME NEW C, IsFiniteSet(C), NEW q \in Rankings(C)
  PROVE  Leaving(q, Len(q)) = C /\ Len(q) = Cardinality(C)
<1> DEFINE n == Cardinality(C)
<1>1. n \in Nat
  BY FS_CardinalityType
<1>2. q \in [1 .. n -> C]
  BY DEF Rankings, SetToSeqs
<1>3. Len(q) = n
  BY <1>1, <1>2
<1>4. n \in 0 .. Len(q)
  BY <1>1, <1>3
<1>5. Leaving(q, n) \subseteq C /\ Cardinality(Leaving(q, n)) = n
  BY <1>4, LeavingFacts
<1>6. Leaving(q, n) = C
  BY <1>5, FS_Subset
<1> QED
  BY <1>3, <1>6

----------------------------------------------------------------------------
(* What the residents occupy                                               *)

\* A resident occupies as many cells as it has bytes
LEMMA CellsFacts ==
  ASSUME NEW x, NEW b \in Nat
  PROVE  /\ IsFiniteSet({x} \X (1 .. b))
         /\ Cardinality({x} \X (1 .. b)) = b
<1>1. IsFiniteSet({x}) /\ Cardinality({x}) = 1
  BY FS_Singleton
<1>2. IsFiniteSet(1 .. b) /\ Cardinality(1 .. b) = b
  BY FS_Interval
<1>3. /\ IsFiniteSet({x} \X (1 .. b))
      /\ Cardinality({x} \X (1 .. b)) = Cardinality({x}) * Cardinality(1 .. b)
  BY <1>1, <1>2, FS_Product
<1> QED
  BY <1>1, <1>2, <1>3

\* Finitely many residents use a finite amount of memory
LEMMA OccupiedFinite ==
  ASSUME NEW R, Residents(R)
  PROVE  IsFiniteSet(Occupied(R)) /\ Used(R) \in Nat
<1> DEFINE cells(r) == {r.name} \X (1 .. r.bytes)
           f == [r \in R |-> cells(r)]
           T == {cells(r) : r \in R}
<1>1. IsFiniteSet(T)
  <2>1. f \in Surjection(R, T)
    BY DEF Surjection
  <2> QED
    BY <2>1, FS_Surjection DEF Residents
<1>2. ASSUME NEW r \in R PROVE IsFiniteSet(cells(r))
  BY CellsFacts DEF Residents
<1>3. IsFiniteSet(UNION T)
  <2>1. \A x \in T : IsFiniteSet(x)
    BY <1>2
  <2> HIDE DEF T
  <2> QED
    BY <1>1, <2>1, FS_UNION
<1> QED
  BY <1>3, FS_CardinalityType DEF Occupied, Used

\* What is left of the residents is a set of residents
LEMMA ResidentsSubset ==
  ASSUME NEW R, Residents(R), NEW S \in SUBSET R
  PROVE  Residents(S)
BY FS_Subset DEF Residents

\* the sums of two disjoint sets of residents add up
LEMMA UsedSplit ==
  ASSUME NEW R, Residents(R), NEW E \in SUBSET R
  PROVE  Used(R) = Used(R \ E) + Used(E)
<1>1. IsFiniteSet(Occupied(R \ E)) /\ IsFiniteSet(Occupied(E))
  BY ResidentsSubset, OccupiedFinite
<1>2. Occupied(R) = Occupied(R \ E) \cup Occupied(E)
  BY DEF Occupied
<1>3. Occupied(R \ E) \cap Occupied(E) = {}
  <2> SUFFICES ASSUME NEW c \in Occupied(R \ E), c \in Occupied(E) PROVE FALSE
    OBVIOUS
  <2>1. PICK r \in R \ E : c \in {r.name} \X (1 .. r.bytes)
    BY DEF Occupied
  <2>2. PICK s \in E : c \in {s.name} \X (1 .. s.bytes)
    BY DEF Occupied
  <2>3. r.name = s.name
    BY <2>1, <2>2
  <2> QED
    BY <2>3 DEF Residents
<1>4. /\ Cardinality(Occupied(R)) =
           Cardinality(Occupied(R \ E)) + Cardinality(Occupied(E)) - Cardinality({})
      /\ Cardinality({}) = 0
  BY <1>1, <1>2, <1>3, FS_Union, FS_EmptySet, ZenonT(30)
<1>5. Cardinality(Occupied(R \ E)) \in Nat /\ Cardinality(Occupied(E)) \in Nat
  BY <1>1, FS_CardinalityType
<1> QED
  BY <1>4, <1>5 DEF Used

\* Fewer residents use no more memory
LEMMA UsedMonotone ==
  ASSUME NEW R, Residents(R), NEW S \in SUBSET R
  PROVE  Used(S) \in Nat /\ Used(S) =< Used(R)
<1>1. Used(R) = Used(R \ S) + Used(S)
  BY UsedSplit
<1>2. Used(S) \in Nat /\ Used(R \ S) \in Nat
  BY ResidentsSubset, OccupiedFinite
<1> QED
  BY <1>1, <1>2

\* one more resident, with a new name
LEMMA UsedAdd ==
  ASSUME NEW R, Residents(R), NEW r, r.bytes \in Nat, \A s \in R : s.name # r.name
  PROVE  /\ Residents(R \cup {r})
         /\ Used(R \cup {r}) = Used(R) + r.bytes
         /\ Cardinality(R \cup {r}) = Cardinality(R) + 1
<1>1. r \notin R
  OBVIOUS
<1>2. IsFiniteSet(R \cup {r}) /\ Cardinality(R \cup {r}) = Cardinality(R) + 1
  BY <1>1, FS_AddElement DEF Residents
<1>3. Residents(R \cup {r})
  BY <1>2 DEF Residents
<1>4. Used(R \cup {r}) = Used((R \cup {r}) \ {r}) + Used({r})
  BY <1>3, UsedSplit
<1>5. (R \cup {r}) \ {r} = R
  BY <1>1
<1>6. Used({r}) = r.bytes
  <2>1. Occupied({r}) = {r.name} \X (1 .. r.bytes)
    BY DEF Occupied
  <2>2. Cardinality({r.name} \X (1 .. r.bytes)) = r.bytes
    BY CellsFacts
  <2> QED
    BY <2>1, <2>2 DEF Used
<1> QED
  BY <1>2, <1>3, <1>4, <1>5, <1>6

----------------------------------------------------------------------------
(* The plans                                                               *)

\* the residents that are left once a plan is executed
Left(plan, R) == {r \in R : \A i \in DOMAIN plan.evictions : plan.evictions[i] # r.name}

\* all candidates together do not make enough room
RefusedAfter(plan, q, required, R) ==
  /\ ~plan.admitted /\ plan.evictions = <<>>
  /\ ~Enough(q, Len(q), required, R)
  /\ plan.reason = IF Fits(0, Budget, required) THEN "all_residents_busy"
                   ELSE "insufficient_memory"

\* the first k candidates do, and not one less
AdmittedAfter(plan, q, k, required, R) ==
  /\ plan.admitted
  /\ Enough(q, k, required, R)
  /\ k > 0 => ~Enough(q, k - 1, required, R)
  /\ plan.evictions = [i \in 1 .. k |-> q[i].name]

(***************************************************************************)
(* A greedy plan either refuses, all candidates together being too few, or *)
(* takes the first k of the ranking: enough of them, and not with one less.*)
(***************************************************************************)
LEMMA GreedyFacts ==
  ASSUME NEW C, IsFiniteSet(C), NEW q \in Rankings(C), NEW required, NEW R,
         NEW plan, plan = Greedy(q, required, R)
  PROVE  \/ RefusedAfter(plan, q, required, R)
         \/ \E k \in 0 .. Len(q) : AdmittedAfter(plan, q, k, required, R)
<1> DEFINE k == Taken(q, required, R)
<1>1. Len(q) \in Nat
  BY RankingFacts
<1>2. /\ k \in 0 .. Len(q)
      /\ k = Len(q) \/ Enough(q, k, required, R)
      /\ \A j \in 0 .. (k - 1) : ~Enough(q, j, required, R)
  BY <1>1, LoopStops
<1> HIDE DEF k
<1>3. CASE ~Enough(q, k, required, R)
  BY <1>2, <1>3 DEF Greedy, Refuse, RefusedAfter, k
<1>4. CASE Enough(q, k, required, R)
  <2>1. plan.admitted /\ plan.evictions = [i \in 1 .. k |-> q[i].name]
    BY <1>4 DEF Greedy, Admit, k
  <2>2. k > 0 => k - 1 \in 0 .. (k - 1)
    BY <1>1, <1>2
  <2> QED
    BY <1>2, <1>4, <2>1, <2>2 DEF AdmittedAfter
<1> QED
  BY <1>3, <1>4

\* the names of a prefix of the ranking are those of the residents that leave
LEMMA LeavingNames ==
  ASSUME NEW R, Residents(R), NEW C, C \subseteq R, IsFiniteSet(C),
         NEW q \in Rankings(C), NEW k \in 0 .. Len(q)
  PROVE  \A r \in R : r \in Leaving(q, k) <=> \E i \in 1 .. k : q[i].name = r.name
<1>1. Len(q) \in Nat /\ q \in [1 .. Len(q) -> C]
  BY RankingFacts
<1>2. ASSUME NEW r \in R, NEW i \in 1 .. k, q[i].name = r.name PROVE r \in Leaving(q, k)
  <2>1. q[i] \in R
    BY <1>1
  <2>2. q[i] = r
    BY <1>2, <2>1 DEF Residents
  <2> QED
    BY <2>2 DEF Leaving
<1>3. \A r \in Leaving(q, k) : \E i \in 1 .. k : q[i].name = r.name
  BY DEF Leaving
<1> QED
  BY <1>2, <1>3

\* what the first k of the ranking free, in memory and in slots
LEMMA LeavingRoom ==
  ASSUME NEW R, Residents(R), NEW C, C \subseteq R, IsFiniteSet(C),
         NEW q \in Rankings(C), NEW k \in 0 .. Len(q)
  PROVE  /\ Used(R) = Used(R \ Leaving(q, k)) + Used(Leaving(q, k))
         /\ Used(R \ Leaving(q, k)) \in Nat /\ Used(Leaving(q, k)) \in Nat
         /\ Cardinality(R \ Leaving(q, k)) = Cardinality(R) - k
<1> DEFINE E == Leaving(q, k)
<1>1. E \subseteq R /\ Cardinality(E) = k
  BY LeavingFacts
<1> HIDE DEF E
<1>2. Used(R) = Used(R \ E) + Used(E) /\ Used(R \ E) \in Nat /\ Used(E) \in Nat
  BY <1>1, UsedSplit, UsedMonotone
<1>3. Cardinality(R \ E) = Cardinality(R) - k
  <2>1. R \cap E = E
    BY <1>1
  <2>2. Cardinality(R \ E) = Cardinality(R) - Cardinality(R \cap E)
    BY FS_Difference DEF Residents
  <2> QED
    BY <1>1, <2>1, <2>2
<1> QED
  BY <1>2, <1>3 DEF E

\* the names are those of residents that are not busy, and not the model itself
NoneBusy(names, name, R) ==
  \A i \in 1 .. Len(names) :
    \E r \in R : r.name = names[i] /\ ~IsBusy(r) /\ r.name # name

(***************************************************************************)
(* A plan names existing residents that serve no request and are not       *)
(* loading, and never the model that is to be loaded.                      *)
(***************************************************************************)
THEOREM PlanSparesTheBusy ==
  ASSUME NEW name, NEW required, NEW R, IsFiniteSet(R),
         NEW plan \in Plans(name, required, R)
  PROVE  /\ plan.evictions \in Seq({r.name : r \in R})
         /\ NoneBusy(plan.evictions, name, R)
<1> DEFINE N == {r.name : r \in R}
<1>1. CASE plan.evictions = <<>>
  BY <1>1 DEF NoneBusy
<1>2. CASE \E q \in Rankings(Candidates(name, R)) : plan = Greedy(q, required, R)
  <2>1. PICK q \in Rankings(Candidates(name, R)) : plan = Greedy(q, required, R)
    BY <1>2
  <2>2. IsFiniteSet(Candidates(name, R))
    BY CandidatesFacts
  <2>3. CASE \E k \in 0 .. Len(q) : AdmittedAfter(plan, q, k, required, R)
    <3>1. PICK k \in 0 .. Len(q) : plan.evictions = [i \in 1 .. k |-> q[i].name]
      BY <2>3 DEF AdmittedAfter
    <3>2. Len(q) \in Nat /\ q \in [1 .. Len(q) -> Candidates(name, R)]
      BY <2>2, RankingFacts
    <3>3. \A i \in 1 .. k : q[i] \in R /\ ~IsBusy(q[i]) /\ q[i].name # name
      BY <3>2, CandidatesFacts
    <3>4. plan.evictions \in [1 .. k -> N] /\ k \in Nat
      BY <3>1, <3>2, <3>3
    <3>5. plan.evictions \in Seq(N) /\ Len(plan.evictions) = k
      BY <3>4
    <3> QED
      BY <3>1, <3>3, <3>5 DEF NoneBusy
  <2>4. CASE RefusedAfter(plan, q, required, R)
    BY <1>1, <2>4 DEF RefusedAfter
  <2> QED
    BY <2>1, <2>2, <2>3, <2>4, GreedyFacts
<1>3. plan.evictions = <<>>
      \/ \E q \in Rankings(Candidates(name, R)) : plan = Greedy(q, required, R)
  <2>1. \/ plan = Admit(<<>>, "already_resident")
        \/ plan = Admit(<<>>, "enough_memory")
        \/ plan \in {Greedy(q, required, R) : q \in Rankings(Candidates(name, R))}
    BY DEF Plans
  <2> QED
    BY <2>1 DEF Admit
<1> QED
  BY <1>1, <1>2, <1>3

(***************************************************************************)
(* Executing an admitted plan makes room: what is left of the residents    *)
(* fits the budget together with the new model, and a slot is free.        *)
(***************************************************************************)
THEOREM AdmittedPlanFits ==
  ASSUME NEW name, NEW required \in Nat, NEW R, Residents(R),
         \A r \in R : r.name # name,
         Budget > 0 => Used(R) =< Budget,
         NEW plan \in Plans(name, required, R), plan.admitted
  PROVE  /\ Budget > 0 => Used(Left(plan, R)) + required =< Budget
         /\ Cardinality(Left(plan, R)) < MaxLoaded
<1> USE SchedulerAssumption
<1>1. Used(R) \in Nat /\ Cardinality(R) \in Nat
  BY OccupiedFinite, FS_CardinalityType DEF Residents
<1>2. CASE Fits(Cardinality(R), Available(R), required) /\ plan.evictions = <<>>
  <2>1. Left(plan, R) = R
    BY <1>2 DEF Left
  <2> QED
    BY <1>1, <1>2, <2>1 DEF Fits, Available
<1>3. CASE \E q \in Rankings(Candidates(name, R)) : plan = Greedy(q, required, R)
  <2> DEFINE C == Candidates(name, R)
  <2>1. PICK q \in Rankings(C) : plan = Greedy(q, required, R)
    BY <1>3
  <2>2. C \subseteq R /\ IsFiniteSet(C)
    BY CandidatesFacts DEF Residents
  <2>3. PICK k \in 0 .. Len(q) : /\ Enough(q, k, required, R)
                                /\ plan.evictions = [i \in 1 .. k |-> q[i].name]
    <3>1. \/ RefusedAfter(plan, q, required, R)
          \/ \E k \in 0 .. Len(q) : AdmittedAfter(plan, q, k, required, R)
      BY <2>1, <2>2, GreedyFacts
    <3> QED
      BY <3>1 DEF RefusedAfter, AdmittedAfter
  <2> DEFINE E == Leaving(q, k)
  <2>4. Len(q) \in Nat
    BY <2>2, RankingFacts
  <2>5. Left(plan, R) = R \ E
    <3>1. DOMAIN plan.evictions = 1 .. k /\ \A i \in 1 .. k : plan.evictions[i] = q[i].name
      BY <2>3
    <3>2. \A r \in R : r \in E <=> \E i \in 1 .. k : q[i].name = r.name
      BY <2>2, LeavingNames
    <3> HIDE DEF E
    <3> QED
      BY <3>1, <3>2 DEF Left
  <2>6. /\ Used(R) = Used(R \ E) + Used(E) /\ Used(R \ E) \in Nat /\ Used(E) \in Nat
        /\ Cardinality(R \ E) = Cardinality(R) - k
    BY <2>2, LeavingRoom
  <2>7. Fits(Cardinality(R) - k, Available(R) + Used(E), required)
    BY <2>3 DEF Enough
  <2> HIDE DEF E
  <2>8. Available(R) = Budget - Used(R) \/ Budget = 0
    BY <1>1 DEF Available
  <2> QED
    BY <1>1, <2>4, <2>5, <2>6, <2>7, <2>8 DEF Fits
<1> QED
  BY <1>2, <1>3 DEF Plans, Admit
==============================================================================
