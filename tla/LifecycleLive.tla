--------------------------- MODULE LifecycleLive ---------------------------
(***************************************************************************)
(* Lifecycle with the fairness that its environment justifies, the         *)
(* progress it promises, and the abstract specification it implements.     *)
(***************************************************************************)
EXTENDS Lifecycle

(***************************************************************************)
(* The event loop runs every coroutine that is ready (asyncio.Lock is      *)
(* FIFO, and here a finite number of loads contend for it); spawn polls    *)
(* /health under a deadline; an inference is bounded by request_timeout_s; *)
(* terminate ends with a SIGKILL, unless it is cancelled; the sweep loop   *)
(* wakes up every SWEEP_INTERVAL_S.  Clients, time and StopService owe     *)
(* nothing.                                                                *)
(***************************************************************************)
RequestProgress(q) ==
  Resume(q) \/ Wake(q) \/ Release(q) \/ EndStop(q) \/ EndStream(q)
ServiceProgress == SweepStart \/ SweepNext \/ CloseStart \/ CloseNext

Fairness ==
  /\ \A q \in Requests : /\ WF_vars(RequestProgress(q))
                         /\ WF_vars(LoadStep(q))
                         /\ WF_vars(Exit(q) /\ StopAwaited(q))
  /\ \A m \in Models : WF_vars(Callback(m))
  /\ WF_vars(ServiceProgress)

FairSpec == Spec /\ Fairness

(***************************************************************************)
(* Every request that was received gets its answer, an error included: no  *)
(* waiter outlives its load, no load waits for the lock for ever.          *)
(***************************************************************************)
EveryRequestEnds == \A q \in Requests : pc[q] # "new" ~> pc[q] = "done"

(***************************************************************************)
(* keep_alive is effective without any new request: a model left unused    *)
(* for that long is unloaded, unless it is used again or the service stops.*)
(***************************************************************************)
Stale(m) ==
  /\ phase = "up"
  /\ residents[m] # None
  /\ rsd[residents[m]].active = 0
  /\ rsd[residents[m]].state \in {"READY", "IDLE"}
  /\ rsd[residents[m]].keepAlive \in 0 .. rsd[residents[m]].idle
KeepAliveEnforced == \A m \in Models : Stale(m) ~> ~Stale(m)

\* a stop of the service comes to its end
StopEnds == phase = "loads" ~> phase = "down"

----------------------------------------------------------------------------
(* The abstract view: state(name), and the memory that the table holds     *)

Stage(m) ==
  IF residents[m] = None THEN "unloaded"
  ELSE IF rsd[residents[m]].state = "LOADING" THEN "loading" ELSE "serving"
Held(m) == IF residents[m] = None THEN 0 ELSE Bytes(residents[m])

StageOf == [m \in Models |-> Stage(m)]
HeldOf == [m \in Models |-> Held(m)]
Sizes == UNION {{Estimate[m][x] : x \in Runtimes} : m \in Models}

Abstract == INSTANCE Residency WITH stage <- StageOf, held <- HeldOf, Sizes <- Sizes

(***************************************************************************)
(* The manager implements Residency: the check that plan() makes before    *)
(* the evictions is still good when the placeholder is inserted after      *)
(* them, and every load ends.                                              *)
(***************************************************************************)
ImplementsResidency == Abstract!LiveSpec
==============================================================================
