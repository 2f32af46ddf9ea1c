------------------------------ MODULE Residency ------------------------------
(***************************************************************************)
(* What ModelLifecycleManager promises about the memory: a model is        *)
(* unloaded, loading or serving; one that loads or serves holds some       *)
(* memory; a load begins only if what is held, together with it, fits the  *)
(* budget and the slots at that very moment; and a load does not last for  *)
(* ever.  How long evictions take, and what else happens meanwhile, does   *)
(* not appear: Lifecycle has to make the admission look atomic.            *)
(***************************************************************************)
EXTENDS Integers, FiniteSets

CONSTANTS Models, Budget, MaxLoaded, Sizes

VARIABLES stage,  \* unloaded, loading, serving
          held    \* the memory that each model holds

vars == <<stage, held>>

Holders == {m \in Models : stage[m] # "unloaded"}
Cells(S) == UNION {{m} \X (1 .. held[m]) : m \in S}

TypeOK ==
  /\ stage \in [Models -> {"unloaded", "loading", "serving"}]
  /\ held \in [Models -> Sizes \cup {0}]

Init ==
  /\ stage = [m \in Models |-> "unloaded"]
  /\ held = [m \in Models |-> 0]

Emptied(f, S, zero) == [m \in Models |-> IF m \in S THEN zero ELSE f[m]]

\* some models are unloaded, for whatever reason: eviction, expiry, failure, order
Vacate(S) ==
  /\ S # {}
  /\ S \subseteq Holders
  /\ stage' = Emptied(stage, S, "unloaded")
  /\ held' = Emptied(held, S, 0)

\* after that, model m is admitted with size n
Reserve(S, m, n) ==
  /\ S \subseteq Holders
  /\ m \notin Holders
  /\ Cardinality(Holders \ S) < MaxLoaded
  /\ Budget > 0 => Cardinality(Cells(Holders \ S)) + n <= Budget
  /\ stage' = [Emptied(stage, S, "unloaded") EXCEPT ![m] = "loading"]
  /\ held' = [Emptied(held, S, 0) EXCEPT ![m] = n]

Complete(m) ==
  /\ stage[m] = "loading"
  /\ stage' = [stage EXCEPT ![m] = "serving"]
  /\ UNCHANGED held

Next ==
  \/ \E S \in SUBSET Models : Vacate(S)
  \/ \E S \in SUBSET Models, m \in Models, n \in Sizes : Reserve(S, m, n)
  \/ \E m \in Models : Complete(m)

Spec == Init /\ [][Next]_vars

\* a load does not last for ever
LoadsEnd == \A m \in Models : []<>(stage[m] # "loading")

LiveSpec == Spec /\ LoadsEnd
==============================================================================
