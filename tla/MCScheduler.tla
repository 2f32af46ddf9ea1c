----------------------------- MODULE MCScheduler -----------------------------
(***************************************************************************)
(* Every admission request over small sets of residents, and every plan    *)
(* that Scheduler allows for it.                                           *)
(***************************************************************************)
EXTENDS Scheduler

CONSTANTS Names, NewName, MaxBytes, MaxIdle, MaxRequired

ASSUME MCSchedulerAssumption ==
  /\ IsFiniteSet(Names) /\ NewName \notin Names
  /\ MaxBytes \in Nat /\ MaxIdle \in Nat /\ MaxRequired \in Nat

VARIABLES table,     \* the residents that plan() is given
          required,  \* the memory that the new model needs
          plan       \* the plan, or a placeholder before it is made

vars == <<table, required, plan>>

Unplanned == [admitted |-> FALSE, evictions |-> <<>>, reason |-> "none"]

(***************************************************************************)
(* The residents that the lifecycle manager can present: a loading one is  *)
(* pinned and serves nobody; none that serves a request is expired.  The   *)
(* priority and the idle time of those that never leave are not varied.    *)
(***************************************************************************)
Infos ==
  { r \in [name : {NewName}, bytes : 1 .. MaxBytes, active : 0 .. 1, idle : 0 .. MaxIdle,
           priority : 0 .. 1, expired : BOOLEAN, pinned : BOOLEAN] :
      /\ r.expired => r.active = 0
      /\ IsBusy(r) => r.priority = 0 /\ r.idle = 0
      /\ r.pinned => r.active = 0 }

Init ==
  /\ \E S \in SUBSET Names : \E f \in [S -> Infos] :
       table = {[f[n] EXCEPT !.name = n] : n \in S}
  /\ required = 0
  /\ plan = Unplanned

Decide ==
  /\ plan = Unplanned
  /\ required' \in 1 .. MaxRequired
  /\ plan' \in Plans(NewName, required', table)
  /\ UNCHANGED table

Next == Decide

Spec == Init /\ [][Next]_vars

----------------------------------------------------------------------------
Decided == plan # Unplanned
Evicted == {r \in table : \E i \in DOMAIN plan.evictions : plan.evictions[i] = r.name}
Room(R) == /\ Budget = 0 \/ Used(R) + required <= Budget
           /\ Cardinality(R) < MaxLoaded
Evictable == {r \in table : ~IsBusy(r) /\ (r.expired \/ r.idle >= Grace)}

(***************************************************************************)
(* Executing an admitted plan really makes room for the new model, within  *)
(* the memory budget and the number of slots together, although the code   *)
(* never adds up what is left: it accumulates what each eviction frees.    *)
(* Stated of tables within the budget, which the manager guarantees.       *)
(***************************************************************************)
PlanMakesRoom ==
  Decided /\ plan.admitted /\ (Budget = 0 \/ Used(table) <= Budget) =>
    Room(table \ Evicted)

(***************************************************************************)
(* The plan stops at the first eviction that suffices: with its last       *)
(* victim kept, the model would not fit.                                   *)
(***************************************************************************)
PlanIsMinimal ==
  Decided /\ plan.evictions # <<>> =>
    LET last == plan.evictions[Len(plan.evictions)]
    IN  ~Room({r \in table : r \notin Evicted \/ r.name = last})

(***************************************************************************)
(* The manager is told to refuse only when nothing that may leave would    *)
(* help, be the table within the budget or not, and "retry"                *)
(* (all_residents_busy) only when the model would fit on an empty machine. *)
(***************************************************************************)
RefusesOnlyWithoutRecourse ==
  Decided /\ ~plan.admitted =>
    /\ ~Room(table \ Evictable)
    /\ plan.reason = "all_residents_busy" <=> Room({})

(***************************************************************************)
(* Nobody leaves who serves a request, is loading, or answered within the  *)
(* grace period with its keep_alive still running; and among those who may *)
(* leave, expired ones go first, then low priorities, then the least       *)
(* recently used: no one stays who should have gone before a victim.       *)
(***************************************************************************)
EvictionPolicy ==
  Decided =>
    /\ Evicted \subseteq Evictable
    /\ \A v \in Evicted, s \in Evictable \ Evicted :
         \/ v.expired /\ ~s.expired
         \/ v.expired = s.expired /\ v.priority < s.priority
         \/ v.expired = s.expired /\ v.priority = s.priority /\ v.idle >= s.idle
==============================================================================
