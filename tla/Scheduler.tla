------------------------------ MODULE Scheduler ------------------------------
(***************************************************************************)
(* ollamacpp/runtime/scheduler.py: the pure decision "may this model be    *)
(* loaded, and which residents must leave first".  A resident is a record  *)
(* of the class ResidentInfo:                                              *)
(*   [name, bytes, active, idle, priority, expired, pinned].               *)
(* Residents form a set: their names are the keys of a dict.  The order of *)
(* that dict only breaks ties of the sort, and here any order may break    *)
(* them: Plans is the set of the plans that plan() could return.           *)
(***************************************************************************)
EXTENDS Integers, FiniteSets, Sequences, SequencesExt

CONSTANTS Budget,     \* memory_budget_bytes; 0 means that no measure is available
          MaxLoaded,  \* max_loaded_models
          Grace       \* eviction_grace_s

ASSUME SchedulerAssumption ==
  /\ Budget \in Nat
  /\ MaxLoaded \in Nat \ {0}
  /\ Grace \in Nat

IsPinned(r) == r.pinned
IsBusy(r) == r.active > 0 \/ r.pinned

(***************************************************************************)
(* sum(r.estimated_bytes for r in residents), as the cardinality of the    *)
(* disjoint union of what each resident occupies.                          *)
(***************************************************************************)
Occupied(R) == UNION {{r.name} \X (1 .. r.bytes) : r \in R}
Used(R) == Cardinality(Occupied(R))

\* max(0, budget - used); irrelevant when the budget is 0
Available(R) == IF Used(R) <= Budget THEN Budget - Used(R) ELSE 0

\* _is_satisfied
FitsAtLimit(count, available, required) ==
  /\ Budget = 0 \/ required <= available
  /\ count <= MaxLoaded
Fits(count, available, required) ==
  /\ Budget = 0 \/ required <= available
  /\ count < MaxLoaded

----------------------------------------------------------------------------
(* _eviction_candidates: who may leave, and the order in which they leave  *)

CandidatesExpiredToo(name, R) ==
  {r \in R : ~IsBusy(r) /\ r.name # name /\ r.idle >= Grace}
Candidates(name, R) ==
  {r \in R : /\ ~IsBusy(r)
             /\ r.name # name
             /\ r.expired \/ r.idle >= Grace}

\* the sort key (not expired, priority, -idle) puts r strictly before s
BeforeYoungest(r, s) ==
  \/ r.expired /\ ~s.expired
  \/ r.expired = s.expired /\ r.priority < s.priority
  \/ r.expired = s.expired /\ r.priority = s.priority /\ r.idle < s.idle
Before(r, s) ==
  \/ r.expired /\ ~s.expired
  \/ r.expired = s.expired /\ r.priority < s.priority
  \/ r.expired = s.expired /\ r.priority = s.priority /\ r.idle > s.idle

Rankings(C) ==
  {q \in SetToSeqs(C) : \A i, j \in DOMAIN q : i < j => ~Before(q[j], q[i])}

----------------------------------------------------------------------------
(* plan                                                                    *)

Admit(evictions, reason) ==
  [admitted |-> TRUE, evictions |-> evictions, reason |-> reason]
Refuse(reason) == [admitted |-> FALSE, evictions |-> <<>>, reason |-> reason]

Leaving(q, k) == {q[i] : i \in 1 .. k}

\* the loop over the candidates ranked q has made enough room after k evictions
Enough(q, k, required, R) ==
  Fits(Cardinality(R) - k, Available(R) + Used(Leaving(q, k)), required)

\* how many candidates the loop takes: it tests before each one
TakenOneTooMany(q, required, R) ==
  CHOOSE k \in 0 .. Len(q) :
    /\ k = Len(q) \/ (k > 0 /\ Enough(q, k - 1, required, R))
    /\ \A j \in 0 .. (k - 1) : j = 0 \/ ~Enough(q, j - 1, required, R)
Taken(q, required, R) ==
  CHOOSE k \in 0 .. Len(q) :
    /\ k = Len(q) \/ Enough(q, k, required, R)
    /\ \A j \in 0 .. (k - 1) : ~Enough(q, j, required, R)

EvictionReason(r, required, R) ==
  IF r.expired THEN "keep_alive_expired"
  ELSE IF Budget = 0 \/ required <= Available(R) THEN "max_loaded_models"
  ELSE "memory_pressure"

Greedy(q, required, R) ==
  LET k == Taken(q, required, R)
  IN  IF Enough(q, k, required, R)
      THEN Admit([i \in 1 .. k |-> q[i].name],
                 IF k = 0 THEN "enough_memory"
                 ELSE EvictionReason(q[1], required, R))
      ELSE Refuse(IF Fits(0, Budget, required) THEN "all_residents_busy"
                  ELSE "insufficient_memory")

Plans(name, required, R) ==
  IF \E r \in R : r.name = name THEN {Admit(<<>>, "already_resident")}
  ELSE IF Fits(Cardinality(R), Available(R), required)
       THEN {Admit(<<>>, "enough_memory")}
       ELSE {Greedy(q, required, R) : q \in Rankings(Candidates(name, R))}

----------------------------------------------------------------------------
\* expired(): the residents that the periodic sweep should unload
Expired(R) == {r \in R : r.expired /\ ~IsBusy(r)}
==============================================================================
