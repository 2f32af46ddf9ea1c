------------------------------ MODULE Lifecycle ------------------------------
(***************************************************************************)
(* ollamacpp/runtime/lifecycle.py: ModelLifecycleManager, with the HTTP    *)
(* handlers that call it, its periodic sweep and its shutdown.             *)
(*                                                                         *)
(* Everything runs on one asyncio event loop, so a step is the code that a *)
(* coroutine runs between two awaits that really suspend it.  A load task  *)
(* and the Resident object it makes are named after the request whose      *)
(* ensure_ready created the task: a request creates at most one.           *)
(* A llama-server process is known here by the Resident it belongs to.     *)
(* Time is the age of last_used, saturating at MaxIdle.                    *)
(***************************************************************************)
EXTENDS Scheduler

CONSTANTS Models,            \* the lifecycle keys (display_shortest of a ref)
          Requests,          \* HTTP requests; each one is served once
          Runtimes,          \* effective runtime configurations (num_ctx...)
          Asks,              \* what a request may ask for
          DefaultKeepAlive,  \* keep_alive of the manifest or the configuration
          Estimate,          \* [Models -> [Runtimes -> Nat]]
          Priority,          \* [Models -> Int]
          Incomplete,        \* models with a missing artifact
          MaxIdle,           \* bound: ages above it are not told apart
          None, Unset

Infinite == -1
KeepAlives == ({a.keepAlive : a \in Asks} \ {Unset}) \cup {DefaultKeepAlive}

ASSUME LifecycleAssumption ==
  /\ IsFiniteSet(Models) /\ IsFiniteSet(Requests)
  /\ Asks \subseteq [model : Models, runtime : Runtimes,
                     keepAlive : Nat \cup {Infinite, Unset},
                     kind : {"call", "stream", "preload", "unload"}]
  /\ \A a \in Asks : a.kind = "preload" => a.keepAlive \notin {Unset, 0}
  /\ DefaultKeepAlive \in Nat \cup {Infinite}
  /\ Estimate \in [Models -> [Runtimes -> Nat]]
  /\ Priority \in [Models -> Int]
  /\ MaxIdle \in Nat
  /\ None \notin Requests
  /\ Unset \notin Nat \cup {Infinite}
  /\ None \notin Models

VARIABLES
  residents,  \* _residents: [Models -> Requests \cup {None}]
  rsd,        \* the Resident objects, in the table or not
  proc,       \* their llama-server: none, starting, up, stopping, gone
  lost,       \* history: those whose process nobody undertakes to stop
  loading,    \* _loading: [Models -> Requests \cup {None}]
  task,       \* load tasks: none, queued, evicting, spawning, ready, failed
  evicting,   \* what a load task in "evicting" waits for, and has left to evict
  lock,       \* who holds _admission_lock across an await, or None
  pc, ask,    \* the requests: where they are, what they ask for,
  holds,      \*   the load or the Resident they hold,
  awaits,     \*   the Resident whose process they wait to see terminated
  sweeper,    \* the sweep loop, as evicting
  phase,      \* of the service: up, loads, residents, down
  closing     \* what shutdown waits for, as evicting

tableVars == <<residents, rsd, proc, lost>>
loadVars == <<loading, task, evicting, lock>>
requestVars == <<pc, ask, holds, awaits>>
serviceVars == <<sweeper, phase, closing>>
vars == <<tableVars, loadVars, requestVars, serviceVars>>

Opt == Requests \cup {None}
NoAsk == [model |-> None, runtime |-> None, keepAlive |-> Unset, kind |-> "none"]
ResidentState == {"LOADING", "READY", "BUSY", "IDLE", "UNLOADING"}
Resident == [state : ResidentState, keepAlive : KeepAlives, idle : 0 .. MaxIdle,
             active : Nat]
Job == [victim : Opt, rest : Seq(Models)]
NoJob == [victim |-> None, rest |-> <<>>]

TypeOK ==
  /\ residents \in [Models -> Opt]
  /\ rsd \in [Requests -> Resident]
  /\ proc \in [Requests -> {"none", "starting", "up", "stopping", "gone"}]
  /\ lost \subseteq Requests
  /\ loading \in [Models -> Opt]
  /\ task \in [Requests ->
                 {"none", "queued", "evicting", "spawning", "ready", "failed"}]
  /\ evicting \in [Requests -> Job]
  /\ lock \in Opt
  /\ pc \in [Requests -> {"new", "reloading", "waiting", "serving", "stopping",
                          "streaming", "done"}]
  /\ ask \in [Requests -> Asks \cup {NoAsk}]
  /\ \A q \in Requests : pc[q] # "new" => ask[q] \in Asks
  /\ holds \in [Requests -> Opt]
  /\ awaits \in [Requests -> Opt]
  /\ sweeper \in Job
  /\ phase \in {"up", "loads", "residents", "down"}
  /\ closing \in Job

Placeholder(ka) == [state |-> "LOADING", keepAlive |-> ka, idle |-> 0, active |-> 0]

Init ==
  /\ residents = [m \in Models |-> None]
  /\ rsd = [r \in Requests |-> Placeholder(DefaultKeepAlive)]
  /\ proc = [r \in Requests |-> "none"]
  /\ lost = {}
  /\ loading = [m \in Models |-> None]
  /\ task = [r \in Requests |-> "none"]
  /\ evicting = [r \in Requests |-> NoJob]
  /\ lock = None
  /\ pc = [q \in Requests |-> "new"]
  /\ ask = [q \in Requests |-> NoAsk]
  /\ holds = [q \in Requests |-> None]
  /\ awaits = [q \in Requests |-> None]
  /\ sweeper = NoJob
  /\ phase = "up"
  /\ closing = NoJob

----------------------------------------------------------------------------
(* Resident objects                                                        *)

Bytes(r) == Estimate[ask[r].model][ask[r].runtime]

IsServing(r) == rsd[r].state \in {"READY", "BUSY", "IDLE"}

IsExpired(r) ==
  /\ rsd[r].active = 0
  /\ rsd[r].keepAlive # Infinite
  /\ rsd[r].idle >= rsd[r].keepAlive

\* resident.instance is set when the load succeeds
HasInstance(r) == task[r] = "ready"

Present == {m \in Models : residents[m] # None}

ResidentInfo(m) ==
  LET r == residents[m]
  IN  [name |-> m, bytes |-> Bytes(r), active |-> rsd[r].active,
       idle |-> rsd[r].idle, priority |-> Priority[m], expired |-> IsExpired(r),
       pinned |-> rsd[r].state \in {"LOADING", "UNLOADING"}]
ResidentInfos == {ResidentInfo(m) : m \in Present}

\* _touch
TouchedAlways(s, ka) ==
  [s EXCEPT !.idle = 0, !.keepAlive = ka, !.state = IF @ = "IDLE" THEN "READY" ELSE @]
Touched(s, ka) ==
  [s EXCEPT !.idle = 0,
            !.keepAlive = IF ka = Unset THEN @ ELSE ka,
            !.state = IF @ = "IDLE" THEN "READY" ELSE @]

\* acquire, on entry and in its finally
Acquired(s) == [s EXCEPT !.active = @ + 1, !.state = "BUSY"]
ReleasedStillBusy(s) == [s EXCEPT !.active = IF @ = 0 THEN 0 ELSE @ - 1, !.idle = 0]
Released(s) ==
  LET left == IF s.active = 0 THEN 0 ELSE s.active - 1
  IN  [s EXCEPT !.active = left, !.idle = 0,
                !.state = IF left = 0 /\ @ = "BUSY" THEN "IDLE" ELSE @]

----------------------------------------------------------------------------
(***************************************************************************)
(* for name in names: await self._unload_key(name)                         *)
(* A name that is absent, or whose Resident has no instance yet, does not  *)
(* suspend the loop; the first other name does, until its process is gone. *)
(* Popped are the entries removed from the table up to that await.         *)
(***************************************************************************)
Blocking(names) ==
  {i \in DOMAIN names : /\ residents[names[i]] # None
                        /\ HasInstance(residents[names[i]])}
Passed(names) == IF Blocking(names) = {} THEN Len(names) ELSE Min(Blocking(names))
Popped(names) == {names[i] : i \in 1 .. Passed(names)} \cap Present
Remaining(names) == SubSeq(names, Passed(names) + 1, Len(names))
Awaited(names) ==
  IF Blocking(names) = {} THEN None ELSE residents[names[Passed(names)]]

PoppedResidents(names) == {residents[m] : m \in Popped(names)}

TableAfter(names) == [m \in Models |-> IF m \in Popped(names) THEN None ELSE residents[m]]
RsdAfter(names, objects) ==
  [r \in Requests |-> IF r \in PoppedResidents(names)
                      THEN [objects[r] EXCEPT !.state = "UNLOADING"] ELSE objects[r]]
ProcForgotten(names) == proc
ProcAfter(names) ==
  [r \in Requests |-> IF r = Awaited(names) THEN "stopping" ELSE proc[r]]
\* a process popped before its load is over is terminated by nobody
LostAfter(names) == lost \cup {r \in PoppedResidents(names) : ~HasInstance(r)}

Unload(names, objects) ==
  /\ residents' = TableAfter(names)
  /\ rsd' = RsdAfter(names, objects)
  /\ proc' = ProcAfter(names)
  /\ lost' = LostAfter(names)

JobAfter(names) == [victim |-> Awaited(names), rest |-> Remaining(names)]

(***************************************************************************)
(* A coroutine cancelled inside terminate(r), before or after the SIGTERM: *)
(* nobody is left to wait for the process, nor to send the SIGKILL.        *)
(***************************************************************************)
AbandonStop(r) ==
  IF r # None /\ proc[r] = "stopping"
  THEN /\ proc' \in {proc, [proc EXCEPT ![r] = "up"]}
       /\ lost' = lost \cup {r}
  ELSE UNCHANGED <<proc, lost>>

----------------------------------------------------------------------------
(* ensure_ready and acquire                                                *)

EffectiveKeepAlive(ka) == IF ka = Unset THEN DefaultKeepAlive ELSE ka

AfterResponse(kind) == IF kind = "stream" THEN "streaming" ELSE "done"

(***************************************************************************)
(* The finally of acquire, for request q asking a on Resident r, which it  *)
(* leaves as s: keep_alive 0 unloads, by name, whatever the table holds.   *)
(***************************************************************************)
Leave(q, a, r, s) ==
  LET objects == [rsd EXCEPT ![r] = s]
      names == IF s.active = 0 /\ s.keepAlive = 0 THEN <<ask[r].model>> ELSE <<>>
  IN  /\ Unload(names, objects)
      /\ holds' = [holds EXCEPT ![q] = IF a.kind = "stream" THEN r ELSE None]
      /\ awaits' = [awaits EXCEPT ![q] = Awaited(names)]
      /\ pc' = [pc EXCEPT ![q] = IF Awaited(names) = None THEN AfterResponse(a.kind)
                                 ELSE "stopping"]

(***************************************************************************)
(* ensure_ready returns Resident r to request q.  A streaming handler      *)
(* returns its StreamingResponse from inside acquire: it enters and leaves *)
(* in one step, and its body is produced afterwards.                       *)
(***************************************************************************)
Enter(q, a, r) ==
  LET s == Touched(rsd[r], a.keepAlive)
  IN  \/ /\ a.kind = "call"
         /\ rsd' = [rsd EXCEPT ![r] = Acquired(s)]
         /\ pc' = [pc EXCEPT ![q] = "serving"]
         /\ holds' = [holds EXCEPT ![q] = r]
         /\ awaits' = [awaits EXCEPT ![q] = None]
         /\ UNCHANGED <<residents, proc, lost>>
      \/ /\ a.kind = "stream"
         /\ Leave(q, a, r, Released(Acquired(s)))
      \/ /\ a.kind = "preload"
         /\ rsd' = [rsd EXCEPT ![r] = s]
         /\ pc' = [pc EXCEPT ![q] = "done"]
         /\ holds' = [holds EXCEPT ![q] = None]
         /\ awaits' = [awaits EXCEPT ![q] = None]
         /\ UNCHANGED <<residents, proc, lost>>

HasServing(m) == residents[m] # None /\ IsServing(residents[m])

\* a serving Resident with the wanted runtime, or with another while it is busy
Reuse(q, a) ==
  LET r == residents[a.model]
  IN  /\ HasServing(a.model)
      /\ ask[r].runtime = a.runtime \/ rsd[r].active > 0
      /\ Enter(q, a, r)
      /\ UNCHANGED loadVars

\* an idle one with another runtime is unloaded first
Reload(q, a) ==
  LET r == residents[a.model]
      names == <<a.model>>
  IN  /\ HasServing(a.model)
      /\ ask[r].runtime # a.runtime /\ rsd[r].active = 0
      /\ Unload(names, rsd)
      /\ awaits' = [awaits EXCEPT ![q] = Awaited(names)]
      /\ pc' = [pc EXCEPT ![q] = "reloading"]
      /\ UNCHANGED <<holds, loadVars>>

\* the one load of the model is joined,
JoinLoad(q, a) ==
  /\ ~HasServing(a.model)
  /\ loading[a.model] # None
  /\ pc' = [pc EXCEPT ![q] = "waiting"]
  /\ holds' = [holds EXCEPT ![q] = loading[a.model]]
  /\ awaits' = [awaits EXCEPT ![q] = None]
  /\ UNCHANGED <<tableVars, loadVars>>

\* or created
Unregistered(m, q) == loading
Registered(m, q) == [loading EXCEPT ![m] = q]
StartLoad(q, a) ==
  /\ ~HasServing(a.model)
  /\ loading[a.model] = None
  /\ task' = [task EXCEPT ![q] = "queued"]
  /\ loading' = Registered(a.model, q)
  /\ pc' = [pc EXCEPT ![q] = "waiting"]
  /\ holds' = [holds EXCEPT ![q] = q]
  /\ awaits' = [awaits EXCEPT ![q] = None]
  /\ UNCHANGED <<tableVars, evicting, lock>>

EnsureReady(q, a) ==
  Reuse(q, a) \/ Reload(q, a) \/ JoinLoad(q, a) \/ StartLoad(q, a)

\* the handlers that call lifecycle.unload: DELETE, and keep_alive 0 without a prompt
UnloadRequest(q, a) ==
  LET names == <<a.model>>
  IN  /\ Unload(names, rsd)
      /\ awaits' = [awaits EXCEPT ![q] = Awaited(names)]
      /\ pc' = [pc EXCEPT ![q] = IF Awaited(names) = None THEN "done" ELSE "stopping"]
      /\ UNCHANGED <<holds, loadVars>>

Begin(q) ==
  /\ phase = "up"
  /\ pc[q] = "new"
  /\ \E a \in Asks :
       /\ ask' = [ask EXCEPT ![q] = a]
       /\ IF a.kind = "unload" THEN UnloadRequest(q, a) ELSE EnsureReady(q, a)
  /\ UNCHANGED serviceVars

\* the loop of ensure_ready goes round once the old instance is gone
Resume(q) ==
  /\ pc[q] = "reloading"
  /\ proc[awaits[q]] = "gone"
  /\ EnsureReady(q, ask[q])
  /\ UNCHANGED <<ask, serviceVars>>

\* await asyncio.shield(task) returns, or raises the task's exception
Wake(q) ==
  /\ pc[q] = "waiting"
  /\ \/ task[holds[q]] = "ready" /\ Enter(q, ask[q], holds[q])
     \/ /\ task[holds[q]] = "failed"
        /\ pc' = [pc EXCEPT ![q] = "done"]
        /\ holds' = [holds EXCEPT ![q] = None]
        /\ UNCHANGED <<tableVars, awaits>>
  /\ UNCHANGED <<ask, loadVars, serviceVars>>

\* a request ends, well or badly: the finally of acquire runs
Release(q) ==
  /\ pc[q] = "serving"
  /\ Leave(q, ask[q], holds[q], Released(rsd[holds[q]]))
  /\ UNCHANGED <<ask, loadVars, serviceVars>>

EndStop(q) ==
  /\ pc[q] = "stopping"
  /\ proc[awaits[q]] = "gone"
  /\ pc' = [pc EXCEPT ![q] = AfterResponse(ask[q].kind)]
  /\ awaits' = [awaits EXCEPT ![q] = None]
  /\ UNCHANGED <<tableVars, loadVars, ask, holds, serviceVars>>

EndStream(q) ==
  /\ pc[q] = "streaming"
  /\ pc' = [pc EXCEPT ![q] = "done"]
  /\ holds' = [holds EXCEPT ![q] = None]
  /\ UNCHANGED <<tableVars, loadVars, ask, awaits, serviceVars>>

\* the client gives up while its handler awaits; the shared load goes on
Cancel(q) ==
  /\ pc[q] \in {"waiting", "reloading", "stopping"}
  /\ pc' = [pc EXCEPT ![q] = "done"]
  /\ IF pc[q] = "waiting" THEN UNCHANGED <<proc, lost>> ELSE AbandonStop(awaits[q])
  /\ holds' = [holds EXCEPT ![q] = None]
  /\ awaits' = [awaits EXCEPT ![q] = None]
  /\ UNCHANGED <<residents, rsd, loadVars, ask, serviceVars>>

----------------------------------------------------------------------------
(* _load, for the task t                                                   *)

RejectLoad(t) ==
  /\ task[t] = "queued"
  /\ ask[t].model \in Incomplete
  /\ task' = [task EXCEPT ![t] = "failed"]
  /\ UNCHANGED <<tableVars, loading, evicting, lock, requestVars, serviceVars>>

(***************************************************************************)
(* The evictions that are left, up to the next await; after the last, the  *)
(* placeholder reserves the memory, the lock is released and spawn starts. *)
(***************************************************************************)
LockKept(t) == t
LockReleased(t) == None
Evict(t, names) ==
  IF Awaited(names) # None
  THEN /\ Unload(names, rsd)
       /\ evicting' = [evicting EXCEPT ![t] = JobAfter(names)]
       /\ lock' = t
       /\ task' = [task EXCEPT ![t] = "evicting"]
  ELSE /\ residents' = [TableAfter(names) EXCEPT ![ask[t].model] = t]
       /\ rsd' = [RsdAfter(names, rsd) EXCEPT
                    ![t] = Placeholder(EffectiveKeepAlive(ask[t].keepAlive))]
       /\ proc' = [proc EXCEPT ![t] = "starting"]
       /\ lost' = LostAfter(names)
       /\ evicting' = [evicting EXCEPT ![t] = NoJob]
       /\ lock' = LockReleased(t)
       /\ task' = [task EXCEPT ![t] = "spawning"]

LockIgnored == TRUE
LockFree == lock = None

Admission(t) ==
  /\ task[t] = "queued"
  /\ ask[t].model \notin Incomplete
  /\ LockFree
  /\ \E plan \in Plans(ask[t].model, Bytes(t), ResidentInfos) :
       \/ plan.admitted /\ Evict(t, plan.evictions)
       \/ /\ ~plan.admitted
          /\ task' = [task EXCEPT ![t] = "failed"]
          /\ UNCHANGED <<tableVars, evicting, lock>>
  /\ UNCHANGED <<loading, requestVars, serviceVars>>

EvictNextAtOnce(t) ==
  /\ task[t] = "evicting"
  /\ Evict(t, evicting[t].rest)
  /\ UNCHANGED <<loading, requestVars, serviceVars>>
EvictNext(t) ==
  /\ task[t] = "evicting"
  /\ proc[evicting[t].victim] = "gone"
  /\ Evict(t, evicting[t].rest)
  /\ UNCHANGED <<loading, requestVars, serviceVars>>

\* /health and /props have answered
SpawnReady(t) ==
  /\ task[t] = "spawning"
  /\ proc[t] = "starting"
  /\ proc' = [proc EXCEPT ![t] = "up"]
  /\ rsd' = [rsd EXCEPT ![t].state = "READY", ![t].idle = 0]
  /\ task' = [task EXCEPT ![t] = "ready"]
  /\ UNCHANGED <<residents, lost, loading, evicting, lock, requestVars, serviceVars>>

\* the process never started or is dead; or it must be terminated first
SpawnFails(t) ==
  /\ task[t] = "spawning"
  /\ proc[t] = "starting"
  /\ \E end \in {"stopping", "gone"} : proc' = [proc EXCEPT ![t] = end]
  /\ UNCHANGED <<residents, rsd, lost, loadVars, requestVars, serviceVars>>

\* self._residents.pop(key, None): the reservation disappears whatever happened
ReservationKept(t) == residents
ReservationDropped(t) == [residents EXCEPT ![ask[t].model] = None]

LoadFails(t) ==
  /\ task[t] = "spawning"
  /\ proc[t] = "gone"
  /\ residents' = ReservationDropped(t)
  /\ task' = [task EXCEPT ![t] = "failed"]
  /\ UNCHANGED <<rsd, proc, lost, loading, evicting, lock, requestVars, serviceVars>>

\* the done-callback of the task removes it from _loading, an iteration later
Callback(m) ==
  /\ loading[m] # None
  /\ task[loading[m]] \in {"ready", "failed"}
  /\ loading' = [loading EXCEPT ![m] = None]
  /\ UNCHANGED <<tableVars, task, evicting, lock, requestVars, serviceVars>>

\* supervisor.terminate has got rid of the process
Exit(r) ==
  /\ proc[r] = "stopping"
  /\ proc' = [proc EXCEPT ![r] = "gone"]
  /\ UNCHANGED <<residents, rsd, lost, loadVars, requestVars, serviceVars>>

----------------------------------------------------------------------------
(* sweep, time, and the stop of the service                                *)

Sweep(names) ==
  /\ Unload(names, rsd)
  /\ sweeper' = JobAfter(names)
  /\ UNCHANGED <<loadVars, requestVars, phase, closing>>

DueLoading == {m \in Present : IsExpired(residents[m])}
DueIdleOnly == {m \in Present : rsd[residents[m]].state = "IDLE" /\ IsExpired(residents[m])}
Due == {m \in Present : IsServing(residents[m]) /\ IsExpired(residents[m])}

SweepStart ==
  /\ phase = "up"
  /\ sweeper = NoJob
  /\ Due # {}
  /\ \E names \in SetToSeqs(Due) : Sweep(names)

SweepNext ==
  /\ sweeper.victim # None
  /\ proc[sweeper.victim] = "gone"
  /\ Sweep(sweeper.rest)

Older(r) == r \in {residents[m] : m \in Present} /\ IsServing(r) /\ rsd[r].idle < MaxIdle
Tick ==
  /\ \E r \in Requests : Older(r)
  /\ rsd' = [r \in Requests |-> IF Older(r) THEN [rsd[r] EXCEPT !.idle = @ + 1]
                                ELSE rsd[r]]
  /\ UNCHANGED <<residents, proc, lost, loadVars, requestVars, serviceVars>>

\* Service.stop, once the server has drained its requests: the sweeper is cancelled
StopService ==
  /\ phase = "up"
  /\ \A q \in Requests : pc[q] \in {"new", "done"}
  /\ phase' = "loads"
  /\ AbandonStop(sweeper.victim)
  /\ sweeper' = NoJob
  /\ UNCHANGED <<residents, rsd, loadVars, requestVars, closing>>

Pending(t) == task[t] \in {"queued", "evicting", "spawning"}
PendingLoads == {t \in Requests : Pending(t)}

\* shutdown cancels the load tasks one by one, and awaits each
CancelLoad(t) ==
  /\ phase = "loads"
  /\ closing.victim \notin PendingLoads
  /\ Pending(t)
  /\ closing' = [closing EXCEPT !.victim = t]
  /\ \/ /\ task[t] = "spawning" /\ proc[t] = "starting"   \* spawn terminates it first
        /\ proc' = [proc EXCEPT ![t] = "stopping"]
        /\ UNCHANGED <<residents, lost, task, evicting, lock>>
     \/ /\ task[t] = "spawning" /\ proc[t] = "stopping"   \* and may be doing so
        /\ AbandonStop(t)
        /\ residents' = ReservationDropped(t)
        /\ task' = [task EXCEPT ![t] = "failed"]
        /\ UNCHANGED <<evicting, lock>>
     \/ /\ task[t] \in {"queued", "evicting"}
        /\ AbandonStop(evicting[t].victim)
        /\ task' = [task EXCEPT ![t] = "failed"]
        /\ evicting' = [evicting EXCEPT ![t] = NoJob]
        /\ lock' = IF lock = t THEN None ELSE lock
        /\ UNCHANGED residents
  /\ UNCHANGED <<rsd, loading, requestVars, sweeper, phase>>

Close(names) ==
  /\ Unload(names, rsd)
  /\ closing' = JobAfter(names)
  /\ phase' = IF Awaited(names) = None THEN "down" ELSE "residents"
  /\ UNCHANGED <<loadVars, requestVars, sweeper>>

CloseStartTooSoon ==
  /\ phase = "loads"
  /\ \E names \in SetToSeqs(Present) : Close(names)
CloseStart ==
  /\ phase = "loads"
  /\ PendingLoads = {}
  /\ \E names \in SetToSeqs(Present) : Close(names)

CloseNext ==
  /\ phase = "residents"
  /\ proc[closing.victim] = "gone"
  /\ Close(closing.rest)

----------------------------------------------------------------------------
RequestStep(q) ==
  \/ Begin(q) \/ Resume(q) \/ Wake(q) \/ Release(q)
  \/ EndStop(q) \/ EndStream(q) \/ Cancel(q)

LoadStep(t) ==
  \/ RejectLoad(t) \/ Admission(t) \/ EvictNext(t)
  \/ SpawnReady(t) \/ SpawnFails(t) \/ LoadFails(t)

ServiceStep ==
  \/ SweepStart \/ SweepNext \/ Tick \/ StopService
  \/ (\E t \in Requests : CancelLoad(t)) \/ CloseStart \/ CloseNext

Next ==
  \/ \E q \in Requests : RequestStep(q) \/ LoadStep(q) \/ Exit(q)
  \/ \E m \in Models : Callback(m)
  \/ ServiceStep

Spec == Init /\ [][Next]_vars

----------------------------------------------------------------------------
(***************************************************************************)
(* Safety                                                                  *)
(***************************************************************************)

(***************************************************************************)
(* The table, loading placeholders included, never exceeds the memory      *)
(* budget nor the number of slots: the admission lock is held across the   *)
(* evictions, and memory is reserved at admission (header of lifecycle.py).*)
(***************************************************************************)
WithinCapacity ==
  /\ Budget > 0 => Used(ResidentInfos) <= Budget
  /\ Cardinality(Present) <= MaxLoaded

(***************************************************************************)
(* Single-flight: concurrent requests for a model share one load, the one  *)
(* that _loading names, whatever was cancelled, evicted or unloaded.       *)
(***************************************************************************)
SingleFlight ==
  \A t \in Requests : Pending(t) => loading[ask[t].model] = t

(***************************************************************************)
(* Every table entry is either a reservation whose load is still running,  *)
(* or a loaded model whose process nobody is stopping.  A failed load      *)
(* leaves no reservation, and no request finds a dying instance there.     *)
(***************************************************************************)
TableIsLive ==
  \A m \in Present :
    LET r == residents[m]
    IN  /\ ask[r].model = m
        /\ \/ rsd[r].state = "LOADING" /\ task[r] = "spawning"
           \/ IsServing(r) /\ task[r] = "ready" /\ proc[r] = "up"

(***************************************************************************)
(* A Resident counts exactly the requests that are inside acquire, and in  *)
(* the table it is BUSY exactly while there are some: neither an exception *)
(* nor a cancellation leaves a model BUSY for ever, nor frees it too soon. *)
(***************************************************************************)
Servers(r) == {q \in Requests : pc[q] = "serving" /\ holds[q] = r}
BusyIffServed ==
  /\ \A r \in Requests : rsd[r].active = Cardinality(Servers(r))
  /\ \A m \in Present : rsd[residents[m]].state = "BUSY" <=> rsd[residents[m]].active > 0

\* who awaits the termination of r
StoppedByAdmission(r) == \E t \in Requests : task[t] = "evicting" /\ evicting[t].victim = r
StoppedElsewhere(r) ==
  \/ \E q \in Requests : awaits[q] = r
  \/ sweeper.victim = r
  \/ phase = "residents" /\ closing.victim = r

StopAwaited(r) == task[r] = "spawning" \/ StoppedByAdmission(r) \/ StoppedElsewhere(r)

Alive == {r \in Requests : proc[r] \in {"starting", "up", "stopping"}}

(***************************************************************************)
(* Every llama-server process is in the table, or being loaded, or being   *)
(* stopped by exactly the coroutine that removed it.  The only others are  *)
(* in lost: unloaded while they were loading, or their stop was cancelled. *)
(***************************************************************************)
NoProcessForgotten ==
  \A r \in Alive \ lost :
    (\E m \in Present : residents[m] = r) \/ StopAwaited(r)

(***************************************************************************)
(* When the service is down, the only processes left are those in lost.    *)
(***************************************************************************)
DownLeavesOnlyLost ==
  phase = "down" => Alive \subseteq lost

(***************************************************************************)
(* Admission waits for the processes it evicts: the physical memory of all *)
(* live processes stays within the budget, except for those stopped        *)
(* outside admission (sweep, unload, reload), whose memory the table gives *)
(* back at once, and for those in lost.                                    *)
(***************************************************************************)
Process(r) == [name |-> r, bytes |-> Bytes(r)]
AdmissionAwaitsEvictions ==
  Budget > 0 =>
    Used({Process(r) : r \in {x \in Alive \ lost : ~StoppedElsewhere(x)}}) <= Budget

(***************************************************************************)
(* The two readings of "keep_alive has expired" agree: what sweep unloads  *)
(* is what ModelScheduler.expired reports for the same residents.          *)
(***************************************************************************)
SweepAgreesWithScheduler == Due = {i.name : i \in Expired(ResidentInfos)}

(***************************************************************************)
(* What remains of "a BUSY model is never evicted": the step that makes    *)
(* the plan unloads no model that serves a request.  Only the victims that *)
(* come after an await may have become BUSY since.                         *)
(***************************************************************************)
FirstVictimIsIdle ==
  [][\A t \in Requests :
       task[t] = "queued" /\ task'[t] \in {"evicting", "spawning"} =>
         \A m \in Present : residents'[m] # residents[m] => rsd[residents[m]].active = 0]_vars

----------------------------------------------------------------------------
(***************************************************************************)
(* Promises of the documentation that the code does not keep.              *)
(***************************************************************************)

(***************************************************************************)
(* lifecycle.py:440, service.py:94: no llama-server survives the service.  *)
(***************************************************************************)
NoProcessSurvivesStop == phase = "down" => Alive = {}

(***************************************************************************)
(* scheduler.py:21: a BUSY model is never evicted, it would kill a request *)
(* in progress.  (Checked where nothing asks for an unload.)               *)
(***************************************************************************)
BusyIsNeverEvicted ==
  [][\A m \in Present : rsd[residents[m]].state = "BUSY" => residents'[m] = residents[m]]_vars

(***************************************************************************)
(* lifecycle.py:183-189 and 202: a request is served with the runtime      *)
(* configuration that it asks for, unless the model is busy with another.  *)
(***************************************************************************)
RuntimeIsHonoured ==
  [][\A q \in Requests :
       pc[q] # "serving" /\ pc'[q] = "serving" =>
         LET r == holds'[q]
         IN  ask[r].runtime = ask'[q].runtime \/ rsd[r].active > 0]_vars

(***************************************************************************)
(* lifecycle.py:361: acquire reserves the model for the whole request, so  *)
(* that it is BUSY, hence not evictable, while an answer is produced.      *)
(***************************************************************************)
ReservedWhileAnswering ==
  \A q \in Requests :
    pc[q] \in {"serving", "streaming"} => rsd[holds[q]].active > 0
==============================================================================
