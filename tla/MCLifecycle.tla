---------------------------- MODULE MCLifecycle ----------------------------
(***************************************************************************)
(* Small instances of Lifecycle.                                           *)
(***************************************************************************)
EXTENDS Lifecycle

AskFor(m, x, ka, k) == [model |-> m, runtime |-> x, keepAlive |-> ka, kind |-> k]
Plain(m, k) == AskFor(m, "small", Unset, k)

\* interchangeable models: calls, with or without keep_alive 0, and unloads
CallsAndUnloads ==
  UNION {{Plain(m, "call"), AskFor(m, "small", 0, "call"), Plain(m, "unload")} :
         m \in Models}

\* c needs the room of a and b together
Contention == {Plain(m, "call") : m \in Models}

\* the same with a model that is unloaded by name, or by keep_alive 0, and with d,
\* which misses an artifact
MixedWork ==
  {Plain(m, "call") : m \in Models \ {"a"}} \cup
  {AskFor("a", "small", 0, "call"), Plain("a", "unload")}

\* the same model with two configurations
Reconfiguration ==
  {AskFor("a", x, Unset, "call") : x \in Runtimes} \cup
  {AskFor("b", "large", Infinite, "preload"), Plain("b", "stream"), Plain("a", "unload")}

UnitEstimate == [m \in Models |-> [x \in Runtimes |-> 1]]
LargeC == [m \in Models |-> [x \in Runtimes |-> IF m = "c" THEN 2 ELSE 1]]
ByRuntime == [m \in Models |-> [x \in Runtimes |-> IF x = "large" THEN 2 ELSE 1]]
SamePriority == [m \in Models |-> 0]
FirstPriority == [m \in Models |-> IF m = "a" THEN 1 ELSE 0]

RequestSymmetry == Permutations(Requests)
AllSymmetry == Permutations(Requests) \cup Permutations(Models)
==============================================================================
