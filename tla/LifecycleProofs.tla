--------------------------- MODULE LifecycleProofs ---------------------------
(***************************************************************************)
(* Lifecycle is well typed, and its table is sound, for any number of      *)
(* models and requests, any budget and any interleaving of the handlers: a *)
(* model has one load at once, an entry is a load that runs or a model     *)
(* that is up, and all of them, with the reservations, stay within the     *)
(* budget and the slots, although admission is decided before evictions    *)
(* that take time, and the memory is reserved after them.                  *)
(***************************************************************************)
EXTENDS LifecycleLive, SchedulerProofs

ProcState == {"none", "starting", "up", "stopping", "gone"}

(***************************************************************************)
(* What makes TypeOK inductive: whatever is in the table, in _loading, or  *)
(* held by a request belongs to a load task, created by a request that has *)
(* begun, so that it has a model and a runtime.                            *)
(***************************************************************************)
References ==
  /\ \A t \in Requests : task[t] # "none" => pc[t] # "new"
  /\ \A m \in Models : residents[m] # None => task[residents[m]] # "none"
  /\ \A m \in Models : loading[m] # None => task[loading[m]] # "none"
  /\ \A q \in Requests :
       pc[q] \in {"waiting", "serving"} => holds[q] \in Requests /\ task[holds[q]] # "none"

TypeInv == TypeOK /\ References

----------------------------------------------------------------------------
(* Resident objects                                                        *)

\* The keep_alive values of the model are those of its requests and the default
LEMMA KeepAliveTypes ==
  /\ DefaultKeepAlive \in KeepAlives
  /\ \A a \in Asks : a.keepAlive # Unset => a.keepAlive \in KeepAlives
BY LifecycleAssumption DEF KeepAlives

\* A request names a model and a runtime
LEMMA AskTypes ==
  ASSUME NEW a \in Asks
  PROVE  a.model \in Models /\ a.runtime \in Runtimes
BY LifecycleAssumption

\* The fields of a Resident object
LEMMA ObjectParts ==
  ASSUME NEW s \in Resident
  PROVE  /\ s.state \in ResidentState
         /\ s.keepAlive \in KeepAlives
         /\ s.idle \in 0 .. MaxIdle
         /\ s.active \in Nat
<1>1. s.state \in ResidentState
  BY DEF Resident
<1>2. s.keepAlive \in KeepAlives
  BY DEF Resident
<1>3. s.idle \in 0 .. MaxIdle
  BY DEF Resident
<1>4. s.active \in Nat
  BY DEF Resident
<1> QED
  BY <1>1, <1>2, <1>3, <1>4

\* What acquire, _touch, unload, a successful load and time do to a Resident object
LEMMA ObjectTypes ==
  ASSUME NEW s \in Resident
  PROVE  /\ Acquired(s) \in Resident
         /\ Released(s) \in Resident
         /\ \A a \in Asks : Touched(s, a.keepAlive) \in Resident
         /\ [s EXCEPT !.state = "UNLOADING"] \in Resident
         /\ [s EXCEPT !.state = "READY", !.idle = 0] \in Resident
         /\ s.idle < MaxIdle => [s EXCEPT !.idle = @ + 1] \in Resident
<1>1. 0 \in 0 .. MaxIdle /\ MaxIdle \in Nat
  BY LifecycleAssumption
<1>2. "BUSY" \in ResidentState /\ "READY" \in ResidentState /\ "UNLOADING" \in ResidentState
  BY DEF ResidentState
<1>3. Acquired(s) \in Resident
  <2>1. s.active + 1 \in Nat
    BY ObjectParts
  <2> QED
    BY <1>2, <2>1 DEF Acquired, Resident
<1>4. Released(s) \in Resident
  <2> DEFINE left == IF s.active = 0 THEN 0 ELSE s.active - 1
             state == IF left = 0 /\ s.state = "BUSY" THEN "IDLE" ELSE s.state
  <2>1. left \in Nat
    BY ObjectParts
  <2>2. state \in ResidentState
    BY ObjectParts DEF ResidentState
  <2>3. Released(s) = [s EXCEPT !.active = left, !.idle = 0, !.state = state]
    BY DEF Released
  <2> HIDE DEF left, state
  <2>4. [s EXCEPT !.active = left, !.idle = 0, !.state = state] \in Resident
    BY <1>1, <2>1, <2>2 DEF Resident
  <2> QED
    BY <2>3, <2>4
<1>5. ASSUME NEW a \in Asks PROVE Touched(s, a.keepAlive) \in Resident
  <2> DEFINE keepAlive == IF a.keepAlive = Unset THEN s.keepAlive ELSE a.keepAlive
             state == IF s.state = "IDLE" THEN "READY" ELSE s.state
  <2>1. keepAlive \in KeepAlives
    BY KeepAliveTypes, ObjectParts
  <2>2. state \in ResidentState
    BY ObjectParts DEF ResidentState
  <2>3. Touched(s, a.keepAlive) = [s EXCEPT !.idle = 0, !.keepAlive = keepAlive, !.state = state]
    BY DEF Touched
  <2> HIDE DEF keepAlive, state
  <2>4. [s EXCEPT !.idle = 0, !.keepAlive = keepAlive, !.state = state] \in Resident
    BY <1>1, <2>1, <2>2 DEF Resident
  <2> QED
    BY <2>3, <2>4
<1>6. /\ [s EXCEPT !.state = "UNLOADING"] \in Resident
      /\ [s EXCEPT !.state = "READY", !.idle = 0] \in Resident
  BY <1>1, <1>2 DEF Resident
<1>7. ASSUME s.idle < MaxIdle PROVE [s EXCEPT !.idle = @ + 1] \in Resident
  <2>1. s.idle + 1 \in 0 .. MaxIdle
    BY <1>1, <1>7, ObjectParts
  <2> QED
    BY <2>1 DEF Resident
<1> QED
  BY <1>3, <1>4, <1>5, <1>6, <1>7

\* The placeholder of a load is a Resident object
LEMMA PlaceholderType ==
  ASSUME NEW ka \in KeepAlives
  PROVE  Placeholder(ka) \in Resident
<1>1. 0 \in 0 .. MaxIdle
  BY LifecycleAssumption
<1> QED
  BY <1>1 DEF Placeholder, Resident, ResidentState

\* _effective_keep_alive gives a keep_alive
LEMMA EffectiveKeepAliveType ==
  ASSUME NEW a \in Asks
  PROVE  EffectiveKeepAlive(a.keepAlive) \in KeepAlives
BY KeepAliveTypes DEF EffectiveKeepAlive

----------------------------------------------------------------------------
(* Unloading                                                               *)

\* The unload loop stops at a name of the list, one that blocks, or at its end
LEMMA PassedRange ==
  ASSUME NEW names \in Seq(Models)
  PROVE  /\ Passed(names) \in 0 .. Len(names)
         /\ Blocking(names) # {} => Passed(names) \in Blocking(names)
<1>1. Blocking(names) \subseteq 1 .. Len(names)
  BY DEF Blocking
<1>2. Blocking(names) # {} => Min(Blocking(names)) \in Blocking(names)
  BY <1>1, LeastNatural
<1>3. Len(names) \in Nat
  OBVIOUS
<1> QED
  BY <1>1, <1>2, <1>3 DEF Passed

\* What an unload loop leaves, part by part
LEMMA UnloadTypes ==
  ASSUME TypeOK, NEW names \in Seq(Models), NEW objects \in [Requests -> Resident]
  PROVE  /\ Awaited(names) \in Opt
         /\ Remaining(names) \in Seq(Models)
         /\ JobAfter(names) \in Job
         /\ TableAfter(names) \in [Models -> Opt]
         /\ \A m \in Models : TableAfter(names)[m] # None => TableAfter(names)[m] = residents[m]
         /\ RsdAfter(names, objects) \in [Requests -> Resident]
         /\ ProcAfter(names) \in [Requests -> ProcState]
         /\ LostAfter(names) \subseteq Requests
<1> USE DEF Opt
<1>1. residents \in [Models -> Opt] /\ lost \subseteq Requests /\ proc \in [Requests -> ProcState]
  BY DEF TypeOK, ProcState
<1>2. Awaited(names) \in Opt
  BY <1>1, PassedRange DEF Awaited, Blocking
<1>3. Remaining(names) \in Seq(Models)
  <2>1. Passed(names) \in 0 .. Len(names) /\ Len(names) \in Nat
    BY PassedRange
  <2>2. \A i \in (Passed(names) + 1) .. Len(names) : names[i] \in Models
    BY <2>1
  <2> QED
    BY <2>1, <2>2, SubSeqProperties DEF Remaining
<1>4. JobAfter(names) \in Job
  BY <1>2, <1>3 DEF JobAfter, Job
<1>5. /\ TableAfter(names) \in [Models -> Opt]
      /\ \A m \in Models : TableAfter(names)[m] # None => TableAfter(names)[m] = residents[m]
  BY <1>1 DEF TableAfter
<1>6. RsdAfter(names, objects) \in [Requests -> Resident]
  BY ObjectTypes DEF RsdAfter
<1>7. ProcAfter(names) \in [Requests -> ProcState]
  BY <1>1 DEF ProcAfter, ProcState
<1>8. LostAfter(names) \subseteq Requests
  BY <1>1 DEF LostAfter, PoppedResidents, Popped, Present
<1> QED
  BY <1>2, <1>3, <1>4, <1>5, <1>6, <1>7, <1>8

\* An enumeration of a set of models is a sequence of models
LEMMA SequencesOfSets ==
  ASSUME NEW S \in SUBSET Models, NEW names \in SetToSeqs(S)
  PROVE  names \in Seq(Models)
<1>1. IsFiniteSet(S)
  BY LifecycleAssumption, FS_Subset
<1>2. Cardinality(S) \in Nat
  BY <1>1, FS_CardinalityType
<1> QED
  BY <1>2 DEF SetToSeqs

\* the table variables after an Unload
UnloadedTypes ==
  /\ residents' \in [Models -> Opt]
  /\ \A m \in Models : residents'[m] # None => residents'[m] = residents[m]
  /\ rsd' \in [Requests -> Resident]
  /\ proc' \in [Requests -> ProcState]
  /\ lost' \subseteq Requests

\* An unload loop keeps the types of the table
LEMMA UnloadStep ==
  ASSUME TypeOK, NEW names \in Seq(Models), NEW objects \in [Requests -> Resident],
         Unload(names, objects)
  PROVE  UnloadedTypes
BY UnloadTypes DEF Unload, UnloadedTypes

\* So does a step that leaves the table alone
LEMMA StutterTypes ==
  ASSUME TypeOK, UNCHANGED tableVars
  PROVE  UnloadedTypes
BY DEF TypeOK, tableVars, UnloadedTypes, ProcState

\* a request of a known kind moves on
LEMMA LeaveTypes ==
  ASSUME TypeInv, NEW q \in Requests, NEW a \in Asks, NEW r \in Requests,
         task[r] # "none", NEW s \in Resident, Leave(q, a, r, s)
  PROVE  /\ UnloadedTypes
         /\ \E x \in {"stopping", "streaming", "done"} : pc' = [pc EXCEPT ![q] = x]
         /\ \E x \in Opt : holds' = [holds EXCEPT ![q] = x]
         /\ \E x \in Opt : awaits' = [awaits EXCEPT ![q] = x]
<1> DEFINE objects == [rsd EXCEPT ![r] = s]
           names == IF s.active = 0 /\ s.keepAlive = 0 THEN <<ask[r].model>> ELSE <<>>
<1>1. objects \in [Requests -> Resident]
  BY DEF TypeInv, TypeOK
<1>2. ask[r].model \in Models
  BY AskTypes DEF TypeInv, TypeOK, References
<1>3. names \in Seq(Models)
  BY <1>2
<1>4. Unload(names, objects)
  BY DEF Leave
<1>5. Awaited(names) \in Opt
  BY <1>1, <1>3, UnloadTypes DEF TypeInv
<1>6. UnloadedTypes
  BY <1>1, <1>3, <1>4, UnloadStep DEF TypeInv
<1>7. /\ holds' = [holds EXCEPT ![q] = IF a.kind = "stream" THEN r ELSE None]
      /\ awaits' = [awaits EXCEPT ![q] = Awaited(names)]
      /\ pc' = [pc EXCEPT ![q] = IF Awaited(names) = None THEN AfterResponse(a.kind)
                                 ELSE "stopping"]
  BY DEF Leave
<1> HIDE DEF names, objects
<1> QED
  BY <1>5, <1>6, <1>7 DEF Opt, AfterResponse

\* A request that is given a Resident
LEMMA EnterTypes ==
  ASSUME TypeInv, NEW q \in Requests, NEW a \in Asks, NEW r \in Requests,
         task[r] # "none", Enter(q, a, r)
  PROVE  /\ UnloadedTypes
         /\ \E x \in {"stopping", "streaming", "done", "serving"} : pc' = [pc EXCEPT ![q] = x]
         /\ \E x \in Opt : holds' = [holds EXCEPT ![q] = x]
         /\ \E x \in Opt : awaits' = [awaits EXCEPT ![q] = x]
         /\ pc'[q] = "serving" => holds'[q] = r
<1> DEFINE s == Touched(rsd[r], a.keepAlive)
<1>1. s \in Resident /\ Acquired(s) \in Resident /\ Released(Acquired(s)) \in Resident
  BY ObjectTypes DEF TypeInv, TypeOK
<1>2. /\ pc \in [Requests -> {"new", "reloading", "waiting", "serving", "stopping",
                              "streaming", "done"}]
      /\ holds \in [Requests -> Opt]
  BY DEF TypeInv, TypeOK
<1>3. CASE a.kind = "call"
  <2>1. /\ rsd' = [rsd EXCEPT ![r] = Acquired(s)]
        /\ pc' = [pc EXCEPT ![q] = "serving"]
        /\ holds' = [holds EXCEPT ![q] = r]
        /\ awaits' = [awaits EXCEPT ![q] = None]
        /\ UNCHANGED <<residents, proc, lost>>
    BY <1>3 DEF Enter
  <2>2. UnloadedTypes
    BY <1>1, <2>1 DEF TypeInv, TypeOK, UnloadedTypes, ProcState
  <2> QED
    BY <1>2, <2>1, <2>2 DEF Opt
<1>4. CASE a.kind = "stream"
  <2>1. Leave(q, a, r, Released(Acquired(s)))
    BY <1>4 DEF Enter
  <2>2. /\ UnloadedTypes
        /\ \E x \in {"stopping", "streaming", "done"} : pc' = [pc EXCEPT ![q] = x]
        /\ \E x \in Opt : holds' = [holds EXCEPT ![q] = x]
        /\ \E x \in Opt : awaits' = [awaits EXCEPT ![q] = x]
    BY <1>1, <2>1, LeaveTypes
  <2> QED
    BY <1>2, <2>2
<1>5. CASE a.kind = "preload"
  <2>1. /\ rsd' = [rsd EXCEPT ![r] = s]
        /\ pc' = [pc EXCEPT ![q] = "done"]
        /\ holds' = [holds EXCEPT ![q] = None]
        /\ awaits' = [awaits EXCEPT ![q] = None]
        /\ UNCHANGED <<residents, proc, lost>>
    BY <1>5 DEF Enter
  <2>2. UnloadedTypes
    BY <1>1, <2>1 DEF TypeInv, TypeOK, UnloadedTypes, ProcState
  <2> QED
    BY <1>2, <2>1, <2>2 DEF Opt
<1> QED
  BY <1>3, <1>4, <1>5 DEF Enter

----------------------------------------------------------------------------
(* Type correctness, action by action                                      *)

PcState == {"new", "reloading", "waiting", "serving", "stopping", "streaming", "done"}
TaskState == {"none", "queued", "evicting", "spawning", "ready", "failed"}

\* The initial state is well typed
LEMMA InitTypes == Init => TypeInv
<1> SUFFICES ASSUME Init PROVE TypeInv
  OBVIOUS
<1>1. Placeholder(DefaultKeepAlive) \in Resident
  BY KeepAliveTypes, PlaceholderType
<1>2. NoJob \in Job
  BY DEF NoJob, Job, Opt
<1>3. TypeOK
  BY <1>1, <1>2 DEF Init, TypeOK, Opt
<1>4. References
  BY DEF Init, References
<1> QED
  BY <1>3, <1>4 DEF TypeInv

\* the load variables, after a step of a request q
LoadedTypes(q) ==
  /\ task' \in [Requests -> TaskState]
  /\ \A t \in Requests : task[t] # "none" => task'[t] # "none"
  /\ \A t \in Requests : task'[t] # "none" => t = q \/ task[t] # "none"
  /\ loading' \in [Models -> Opt]
  /\ \A m \in Models : loading'[m] # None => task'[loading'[m]] # "none"
  /\ UNCHANGED <<evicting, lock>>

\* A step that leaves the loads alone
LEMMA LoadedStutter ==
  ASSUME TypeInv, UNCHANGED loadVars, NEW q \in Requests
  PROVE  LoadedTypes(q)
BY DEF TypeInv, TypeOK, References, loadVars, LoadedTypes, TaskState

\* A step of a request is well typed when its parts are
LEMMA RequestTypes ==
  ASSUME TypeInv, NEW q \in Requests, UnloadedTypes, LoadedTypes(q),
         NEW x \in PcState \ {"new"}, pc' = [pc EXCEPT ![q] = x],
         NEW h \in Opt, holds' = [holds EXCEPT ![q] = h],
         NEW w \in Opt, awaits' = [awaits EXCEPT ![q] = w],
         NEW a \in Asks, ask' = [ask EXCEPT ![q] = a],
         x \in {"waiting", "serving"} => h \in Requests /\ task'[h] # "none",
         UNCHANGED serviceVars
  PROVE  TypeInv'
<1> USE DEF TypeInv, TypeOK
<1>1. /\ residents' \in [Models -> Opt]
      /\ rsd' \in [Requests -> Resident]
      /\ proc' \in [Requests -> ProcState]
      /\ lost' \subseteq Requests
  BY DEF UnloadedTypes
<1>2. /\ loading' \in [Models -> Opt]
      /\ task' \in [Requests -> TaskState]
      /\ evicting' \in [Requests -> Job]
      /\ lock' \in Opt
  BY DEF LoadedTypes
<1>3. /\ pc' \in [Requests -> PcState]
      /\ ask' \in [Requests -> Asks \cup {NoAsk}]
      /\ holds' \in [Requests -> Opt]
      /\ awaits' \in [Requests -> Opt]
  BY DEF PcState
<1>4. \A p \in Requests : pc'[p] # "new" => ask'[p] \in Asks
  BY DEF PcState
<1>5. sweeper' \in Job /\ phase' \in {"up", "loads", "residents", "down"} /\ closing' \in Job
  BY DEF serviceVars
<1>6. TypeOK'
  BY <1>1, <1>2, <1>3, <1>4, <1>5 DEF ProcState, TaskState, PcState
<1>7. \A t \in Requests : task'[t] # "none" => pc'[t] # "new"
  BY DEF References, LoadedTypes, PcState
<1>8. \A m \in Models : residents'[m] # None => task'[residents'[m]] # "none"
  BY DEF References, LoadedTypes, UnloadedTypes, Opt
<1>9. \A p \in Requests :
        pc'[p] \in {"waiting", "serving"} => holds'[p] \in Requests /\ task'[holds'[p]] # "none"
  BY DEF References, LoadedTypes, PcState
<1>10. References'
  BY <1>7, <1>8, <1>9 DEF References, LoadedTypes
<1> QED
  BY <1>6, <1>10

\* ensure_ready, in its four outcomes
LEMMA EnsureReadyTypes ==
  ASSUME TypeInv, NEW q \in Requests, NEW a \in Asks, EnsureReady(q, a),
         ask' = [ask EXCEPT ![q] = a], UNCHANGED serviceVars
  PROVE  TypeInv'
<1> USE DEF Opt
<1>1. /\ residents \in [Models -> Opt] /\ loading \in [Models -> Opt]
      /\ holds \in [Requests -> Opt] /\ holds[q] \in Opt
      /\ task \in [Requests -> TaskState]
      /\ rsd \in [Requests -> Resident]
      /\ a.model \in Models
  BY AskTypes DEF TypeInv, TypeOK, TaskState
<1>2. CASE Reuse(q, a)
  <2> DEFINE r == residents[a.model]
  <2>1. r \in Requests /\ task[r] # "none"
    BY <1>1, <1>2 DEF Reuse, HasServing, TypeInv, References
  <2>2. Enter(q, a, r)
    BY <1>2 DEF Reuse
  <2>3. UNCHANGED loadVars
    BY <1>2 DEF Reuse
  <2> HIDE DEF r
  <2>4. LoadedTypes(q) /\ UNCHANGED task
    BY <2>3, LoadedStutter DEF loadVars
  <2>5. /\ UnloadedTypes
        /\ \E x \in {"stopping", "streaming", "done", "serving"} : pc' = [pc EXCEPT ![q] = x]
        /\ \E x \in Opt : holds' = [holds EXCEPT ![q] = x]
        /\ \E x \in Opt : awaits' = [awaits EXCEPT ![q] = x]
        /\ pc'[q] = "serving" => holds'[q] = r
    BY <2>1, <2>2, EnterTypes
  <2>6. PICK x \in {"stopping", "streaming", "done", "serving"} : pc' = [pc EXCEPT ![q] = x]
    BY <2>5
  <2>7. PICK h \in Opt : holds' = [holds EXCEPT ![q] = h]
    BY <2>5
  <2>8. PICK w \in Opt : awaits' = [awaits EXCEPT ![q] = w]
    BY <2>5
  <2>9. x \in {"waiting", "serving"} => h \in Requests /\ task'[h] # "none"
    BY <1>1, <2>1, <2>4, <2>5, <2>6, <2>7 DEF TypeInv, TypeOK
  <2> QED
    BY <2>4, <2>5, <2>6, <2>7, <2>8, <2>9, RequestTypes DEF PcState
<1>3. CASE Reload(q, a)
  <2> DEFINE names == <<a.model>>
  <2>1. /\ Unload(names, rsd) /\ UNCHANGED <<holds, loadVars>>
        /\ awaits' = [awaits EXCEPT ![q] = Awaited(names)]
        /\ pc' = [pc EXCEPT ![q] = "reloading"]
    BY <1>3 DEF Reload
  <2>2. names \in Seq(Models)
    BY <1>1
  <2> HIDE DEF names
  <2>3. UnloadedTypes /\ Awaited(names) \in Opt
    BY <1>1, <2>1, <2>2, UnloadStep, UnloadTypes DEF TypeInv
  <2>4. LoadedTypes(q)
    BY <2>1, LoadedStutter
  <2> DEFINE h == holds[q]
  <2>5. h \in Opt /\ holds' = [holds EXCEPT ![q] = h]
    BY <1>1, <2>1
  <2>6. "reloading" \in PcState \ {"new"}
    BY DEF PcState
  <2> DEFINE w == Awaited(names)
  <2>7. w \in Opt /\ awaits' = [awaits EXCEPT ![q] = w]
    BY <2>1, <2>3
  <2>8. pc' = [pc EXCEPT ![q] = "reloading"]
    BY <2>1
  <2> HIDE DEF h, w
  <2> QED
    BY <2>3, <2>4, <2>5, <2>6, <2>7, <2>8, RequestTypes
<1>4. CASE JoinLoad(q, a)
  <2>1. /\ loading[a.model] \in Requests /\ task[loading[a.model]] # "none"
        /\ pc' = [pc EXCEPT ![q] = "waiting"]
        /\ holds' = [holds EXCEPT ![q] = loading[a.model]]
        /\ awaits' = [awaits EXCEPT ![q] = None]
        /\ UNCHANGED <<tableVars, loadVars>>
    BY <1>1, <1>4 DEF JoinLoad, TypeInv, References
  <2>2. UnloadedTypes /\ LoadedTypes(q)
    BY <2>1, StutterTypes, LoadedStutter DEF TypeInv
  <2>3. task'[loading[a.model]] # "none"
    BY <2>1 DEF loadVars
  <2> QED
    BY <1>1, <2>1, <2>2, <2>3, RequestTypes DEF PcState
<1>5. CASE StartLoad(q, a)
  <2>1. /\ task' = [task EXCEPT ![q] = "queued"]
        /\ loading' = [loading EXCEPT ![a.model] = q]
        /\ pc' = [pc EXCEPT ![q] = "waiting"]
        /\ holds' = [holds EXCEPT ![q] = q]
        /\ awaits' = [awaits EXCEPT ![q] = None]
        /\ UNCHANGED <<tableVars, evicting, lock>>
    BY <1>5 DEF StartLoad, Registered
  <2>2. UnloadedTypes
    BY <2>1, StutterTypes DEF TypeInv
  <2>3. task' \in [Requests -> TaskState] /\ task'[q] # "none"
    BY <1>1, <2>1 DEF TaskState
  <2>4. \A m \in Models : loading'[m] # None => task'[loading'[m]] # "none"
    BY <1>1, <2>1 DEF TypeInv, References
  <2>5. LoadedTypes(q)
    BY <1>1, <2>1, <2>3, <2>4 DEF LoadedTypes
  <2> QED
    BY <2>1, <2>2, <2>3, <2>5, RequestTypes DEF PcState
<1> QED
  BY <1>2, <1>3, <1>4, <1>5 DEF EnsureReady

\* A request arrives
LEMMA BeginTypes ==
  ASSUME TypeInv, NEW q \in Requests, Begin(q)
  PROVE  TypeInv'
<1>1. PICK a \in Asks :
        /\ ask' = [ask EXCEPT ![q] = a]
        /\ IF a.kind = "unload" THEN UnloadRequest(q, a) ELSE EnsureReady(q, a)
  BY DEF Begin
<1>2. UNCHANGED serviceVars
  BY DEF Begin
<1>3. CASE a.kind # "unload"
  BY <1>1, <1>2, <1>3, EnsureReadyTypes
<1>4. CASE a.kind = "unload"
  <2> DEFINE names == <<a.model>>
             h == holds[q]
             w == Awaited(names)
             x == IF w = None THEN "done" ELSE "stopping"
  <2>1. /\ Unload(names, rsd) /\ UNCHANGED <<holds, loadVars>>
        /\ awaits' = [awaits EXCEPT ![q] = w]
        /\ pc' = [pc EXCEPT ![q] = x]
    BY <1>1, <1>4 DEF UnloadRequest
  <2>2. names \in Seq(Models) /\ rsd \in [Requests -> Resident]
    BY AskTypes DEF TypeInv, TypeOK
  <2>3. h \in Opt /\ holds' = [holds EXCEPT ![q] = h]
    BY <2>1 DEF TypeInv, TypeOK
  <2>4. x \in PcState \ {"new"} /\ x \notin {"waiting", "serving"}
    BY DEF PcState
  <2> HIDE DEF names, h, x
  <2>5. UnloadedTypes /\ w \in Opt
    BY <2>1, <2>2, UnloadStep, UnloadTypes DEF TypeInv
  <2>6. LoadedTypes(q)
    BY <2>1, LoadedStutter
  <2> HIDE DEF w
  <2> QED
    BY <1>1, <1>2, <2>1, <2>3, <2>4, <2>5, <2>6, RequestTypes
<1> QED
  BY <1>3, <1>4

\* a request that has begun keeps what it asked for
LEMMA AskStays ==
  ASSUME TypeInv, NEW q \in Requests, pc[q] # "new", UNCHANGED ask
  PROVE  ask[q] \in Asks /\ ask' = [ask EXCEPT ![q] = ask[q]]
BY DEF TypeInv, TypeOK

\* A request goes on after its reload
LEMMA ResumeTypes ==
  ASSUME TypeInv, NEW q \in Requests, Resume(q)
  PROVE  TypeInv'
<1> DEFINE a == ask[q]
<1>1. EnsureReady(q, a) /\ UNCHANGED serviceVars
  BY DEF Resume
<1>2. a \in Asks /\ ask' = [ask EXCEPT ![q] = a]
  BY AskStays DEF Resume
<1> HIDE DEF a
<1> QED
  BY <1>1, <1>2, EnsureReadyTypes

\* steps of a request that has begun, but for what they do to the table
LEMMA LaterTypes ==
  ASSUME TypeInv, NEW q \in Requests, pc[q] # "new", UnloadedTypes,
         NEW x \in PcState \ {"new"}, pc' = [pc EXCEPT ![q] = x],
         NEW h \in Opt, holds' = [holds EXCEPT ![q] = h],
         NEW w \in Opt, awaits' = [awaits EXCEPT ![q] = w],
         x \in {"waiting", "serving"} => h \in Requests /\ task[h] # "none",
         UNCHANGED <<ask, loadVars, serviceVars>>
  PROVE  TypeInv'
<1> DEFINE a == ask[q]
<1>1. a \in Asks /\ ask' = [ask EXCEPT ![q] = a]
  BY AskStays
<1>2. LoadedTypes(q)
  BY LoadedStutter
<1>3. x \in {"waiting", "serving"} => h \in Requests /\ task'[h] # "none"
  BY DEF loadVars
<1> HIDE DEF a
<1> QED
  BY <1>1, <1>2, <1>3, RequestTypes

\* A request wakes after the load that it waited for
LEMMA WakeTypes ==
  ASSUME TypeInv, NEW q \in Requests, Wake(q)
  PROVE  TypeInv'
<1> USE DEF Opt
<1>1. pc[q] = "waiting" /\ UNCHANGED <<ask, loadVars, serviceVars>>
  BY DEF Wake
<1>2. holds[q] \in Requests /\ task[holds[q]] # "none" /\ ask[q] \in Asks
  BY <1>1 DEF TypeInv, TypeOK, References
<1>3. /\ holds \in [Requests -> Opt] /\ awaits \in [Requests -> Opt]
      /\ pc \in [Requests -> PcState]
  BY DEF TypeInv, TypeOK, PcState
<1>4. CASE Enter(q, ask[q], holds[q])
  <2>1. /\ UnloadedTypes
        /\ \E x \in {"stopping", "streaming", "done", "serving"} : pc' = [pc EXCEPT ![q] = x]
        /\ \E x \in Opt : holds' = [holds EXCEPT ![q] = x]
        /\ \E x \in Opt : awaits' = [awaits EXCEPT ![q] = x]
        /\ pc'[q] = "serving" => holds'[q] = holds[q]
    BY <1>2, <1>4, EnterTypes
  <2>2. PICK x \in {"stopping", "streaming", "done", "serving"} : pc' = [pc EXCEPT ![q] = x]
    BY <2>1
  <2>3. PICK h \in Opt : holds' = [holds EXCEPT ![q] = h]
    BY <2>1
  <2>4. PICK w \in Opt : awaits' = [awaits EXCEPT ![q] = w]
    BY <2>1
  <2>5. x \in {"waiting", "serving"} => h \in Requests /\ task[h] # "none"
    BY <1>2, <1>3, <2>1, <2>2, <2>3
  <2>6. x \in PcState \ {"new"}
    BY DEF PcState
  <2> QED
    BY <1>1, <2>1, <2>2, <2>3, <2>4, <2>5, <2>6, LaterTypes
<1>5. CASE task[holds[q]] = "failed" /\ ~Enter(q, ask[q], holds[q])
  <2> DEFINE x == "done"
             h == None
             w == awaits[q]
  <2>1. /\ pc' = [pc EXCEPT ![q] = x]
        /\ holds' = [holds EXCEPT ![q] = h]
        /\ UNCHANGED <<tableVars, awaits>>
    BY <1>5 DEF Wake
  <2>2. w \in Opt /\ awaits' = [awaits EXCEPT ![q] = w]
    BY <1>3, <2>1
  <2>3. UnloadedTypes
    BY <2>1, StutterTypes DEF TypeInv
  <2>4. x \in PcState \ {"new"} /\ x \notin {"waiting", "serving"} /\ h \in Opt
    BY DEF PcState
  <2> HIDE DEF x, h, w
  <2> QED
    BY <1>1, <2>1, <2>2, <2>3, <2>4, LaterTypes
<1> QED
  BY <1>4, <1>5 DEF Wake

\* A request leaves acquire
LEMMA ReleaseTypes ==
  ASSUME TypeInv, NEW q \in Requests, Release(q)
  PROVE  TypeInv'
<1> DEFINE s == Released(rsd[holds[q]])
<1>1. /\ pc[q] = "serving" /\ UNCHANGED <<ask, loadVars, serviceVars>>
      /\ Leave(q, ask[q], holds[q], s)
  BY DEF Release
<1>2. holds[q] \in Requests /\ task[holds[q]] # "none" /\ ask[q] \in Asks
  BY <1>1 DEF TypeInv, TypeOK, References
<1>3. s \in Resident
  BY <1>2, ObjectTypes DEF TypeInv, TypeOK
<1> HIDE DEF s
<1>4. /\ UnloadedTypes
      /\ \E x \in {"stopping", "streaming", "done"} : pc' = [pc EXCEPT ![q] = x]
      /\ \E x \in Opt : holds' = [holds EXCEPT ![q] = x]
      /\ \E x \in Opt : awaits' = [awaits EXCEPT ![q] = x]
  BY <1>1, <1>2, <1>3, LeaveTypes
<1>5. PICK x \in {"stopping", "streaming", "done"} : pc' = [pc EXCEPT ![q] = x]
  BY <1>4
<1>6. PICK h \in Opt : holds' = [holds EXCEPT ![q] = h]
  BY <1>4
<1>7. PICK w \in Opt : awaits' = [awaits EXCEPT ![q] = w]
  BY <1>4
<1>8. x \in PcState \ {"new"} /\ x \notin {"waiting", "serving"}
  BY DEF PcState
<1> QED
  BY <1>1, <1>4, <1>5, <1>6, <1>7, <1>8, LaterTypes

\* A request sees the end of the process that it unloaded
LEMMA EndStopTypes ==
  ASSUME TypeInv, NEW q \in Requests, EndStop(q)
  PROVE  TypeInv'
<1> DEFINE x == AfterResponse(ask[q].kind)
           h == holds[q]
           w == None
<1>1. /\ pc[q] # "new" /\ UNCHANGED <<ask, loadVars, serviceVars>>
      /\ pc' = [pc EXCEPT ![q] = x] /\ awaits' = [awaits EXCEPT ![q] = w]
      /\ UNCHANGED tableVars
  BY DEF EndStop
<1>2. h \in Opt /\ holds' = [holds EXCEPT ![q] = h]
  BY DEF EndStop, TypeInv, TypeOK
<1>3. x \in PcState \ {"new"} /\ x \notin {"waiting", "serving"} /\ w \in Opt
  BY DEF PcState, AfterResponse, Opt
<1>4. UnloadedTypes
  BY <1>1, StutterTypes DEF TypeInv
<1> HIDE DEF x, h, w
<1> QED
  BY <1>1, <1>2, <1>3, <1>4, LaterTypes

\* A request ends its stream
LEMMA EndStreamTypes ==
  ASSUME TypeInv, NEW q \in Requests, EndStream(q)
  PROVE  TypeInv'
<1> DEFINE x == "done"
           h == None
           w == awaits[q]
<1>1. /\ pc[q] # "new" /\ UNCHANGED <<ask, loadVars, serviceVars>>
      /\ pc' = [pc EXCEPT ![q] = x] /\ holds' = [holds EXCEPT ![q] = h]
      /\ UNCHANGED tableVars
  BY DEF EndStream
<1>2. w \in Opt /\ awaits' = [awaits EXCEPT ![q] = w]
  BY DEF EndStream, TypeInv, TypeOK
<1>3. x \in PcState \ {"new"} /\ x \notin {"waiting", "serving"} /\ h \in Opt
  BY DEF PcState, Opt
<1>4. UnloadedTypes
  BY <1>1, StutterTypes DEF TypeInv
<1> HIDE DEF x, h, w
<1> QED
  BY <1>1, <1>2, <1>3, <1>4, LaterTypes

\* A cancelled stop keeps the types of the processes
LEMMA AbandonTypes ==
  ASSUME TypeOK, NEW r \in Opt, AbandonStop(r)
  PROVE  proc' \in [Requests -> ProcState] /\ lost' \subseteq Requests
<1>1. proc \in [Requests -> ProcState] /\ lost \subseteq Requests
  BY DEF TypeOK, ProcState
<1>2. CASE r # None /\ proc[r] = "stopping"
  <2>1. r \in Requests
    BY <1>2 DEF Opt
  <2>2. proc' \in {proc, [proc EXCEPT ![r] = "up"]} /\ lost' = lost \cup {r}
    BY <1>2 DEF AbandonStop
  <2> QED
    BY <1>1, <2>1, <2>2 DEF ProcState
<1>3. CASE ~(r # None /\ proc[r] = "stopping")
  BY <1>1, <1>3 DEF AbandonStop
<1> QED
  BY <1>2, <1>3

\* A client gives up
LEMMA CancelTypes ==
  ASSUME TypeInv, NEW q \in Requests, Cancel(q)
  PROVE  TypeInv'
<1> DEFINE x == "done"
           h == None
           w == None
<1>1. /\ pc[q] # "new" /\ UNCHANGED <<residents, rsd, ask, loadVars, serviceVars>>
      /\ pc' = [pc EXCEPT ![q] = x] /\ holds' = [holds EXCEPT ![q] = h]
      /\ awaits' = [awaits EXCEPT ![q] = w]
  BY DEF Cancel
<1>2. x \in PcState \ {"new"} /\ x \notin {"waiting", "serving"} /\ h \in Opt /\ w \in Opt
  BY DEF PcState, Opt
<1>3. proc' \in [Requests -> ProcState] /\ lost' \subseteq Requests
  <2>1. CASE UNCHANGED <<proc, lost>>
    BY <2>1 DEF TypeInv, TypeOK, ProcState
  <2>2. CASE AbandonStop(awaits[q])
    BY <2>2, AbandonTypes DEF TypeInv, TypeOK
  <2> QED
    BY <2>1, <2>2 DEF Cancel
<1>4. UnloadedTypes
  BY <1>1, <1>3 DEF UnloadedTypes, TypeInv, TypeOK
<1> HIDE DEF x, h, w
<1> QED
  BY <1>1, <1>2, <1>4, LaterTypes

ServiceTypes ==
  /\ sweeper' \in Job
  /\ phase' \in {"up", "loads", "residents", "down"}
  /\ closing' \in Job

\* A step that leaves the service alone
LEMMA ServiceStutter ==
  ASSUME TypeInv, UNCHANGED serviceVars
  PROVE  ServiceTypes
BY DEF TypeInv, TypeOK, serviceVars, ServiceTypes

\* steps that leave the requests and the loads alone
LEMMA OtherTypes ==
  ASSUME TypeInv, UnloadedTypes, ServiceTypes, UNCHANGED <<loadVars, requestVars>>
  PROVE  TypeInv'
<1> USE DEF loadVars, requestVars
<1>1. TypeOK'
  BY DEF TypeInv, TypeOK, UnloadedTypes, ServiceTypes, ProcState
<1>2. References'
  BY DEF TypeInv, TypeOK, References, UnloadedTypes, Opt
<1> QED
  BY <1>1, <1>2 DEF TypeInv

\* steps of the load t
LEMMA LoadTypes ==
  ASSUME TypeInv, NEW t \in Requests, task[t] # "none",
         residents' \in [Models -> Opt],
         \A m \in Models : residents'[m] # None => residents'[m] \in {residents[m], t},
         rsd' \in [Requests -> Resident],
         proc' \in [Requests -> ProcState],
         lost' \subseteq Requests,
         NEW x \in TaskState \ {"none"}, task' = [task EXCEPT ![t] = x],
         evicting' \in [Requests -> Job],
         lock' \in Opt,
         ServiceTypes,
         UNCHANGED <<loading, requestVars>>
  PROVE  TypeInv'
<1> USE DEF requestVars
<1>1. task' \in [Requests -> TaskState]
  BY DEF TypeInv, TypeOK, TaskState
<1>2. TypeOK'
  BY <1>1 DEF TypeInv, TypeOK, ServiceTypes, ProcState, TaskState
<1>3. \A r \in Requests : task[r] # "none" <=> task'[r] # "none"
  BY DEF TypeInv, TypeOK, TaskState
<1>4. References'
  BY <1>3 DEF TypeInv, TypeOK, References, Opt
<1> QED
  BY <1>2, <1>4 DEF TypeInv

\* A load rejected for its missing artifacts
LEMMA RejectLoadTypes ==
  ASSUME TypeInv, NEW t \in Requests, RejectLoad(t)
  PROVE  TypeInv'
<1> DEFINE x == "failed"
<1>1. /\ task[t] # "none" /\ task' = [task EXCEPT ![t] = x]
      /\ UNCHANGED <<tableVars, loading, evicting, lock, requestVars, serviceVars>>
  BY DEF RejectLoad
<1>2. x \in TaskState \ {"none"}
  BY DEF TaskState
<1>3. /\ residents' \in [Models -> Opt] /\ rsd' \in [Requests -> Resident]
      /\ \A m \in Models : residents'[m] # None => residents'[m] \in {residents[m], t}
      /\ proc' \in [Requests -> ProcState] /\ lost' \subseteq Requests
      /\ evicting' \in [Requests -> Job] /\ lock' \in Opt
  BY <1>1 DEF TypeInv, TypeOK, tableVars, ProcState
<1> HIDE DEF x
<1> QED
  BY <1>1, <1>2, <1>3, ServiceStutter, LoadTypes

\* The evictions of a load, and its reservation
LEMMA EvictTypes ==
  ASSUME TypeInv, NEW t \in Requests, task[t] # "none", NEW names \in Seq(Models),
         Evict(t, names), UNCHANGED <<loading, requestVars, serviceVars>>
  PROVE  TypeInv'
<1>1. /\ residents \in [Models -> Opt] /\ rsd \in [Requests -> Resident]
      /\ evicting \in [Requests -> Job] /\ proc \in [Requests -> ProcState]
      /\ lock \in Opt
  BY DEF TypeInv, TypeOK, ProcState
<1>2. /\ JobAfter(names) \in Job /\ Awaited(names) \in Opt
      /\ TableAfter(names) \in [Models -> Opt]
      /\ \A m \in Models : TableAfter(names)[m] # None => TableAfter(names)[m] = residents[m]
      /\ RsdAfter(names, rsd) \in [Requests -> Resident]
      /\ LostAfter(names) \subseteq Requests
  BY <1>1, UnloadTypes DEF TypeInv
<1>3. CASE Awaited(names) # None
  <2> DEFINE x == "evicting"
  <2>1. /\ Unload(names, rsd) /\ evicting' = [evicting EXCEPT ![t] = JobAfter(names)]
        /\ lock' = t /\ task' = [task EXCEPT ![t] = x]
    BY <1>3 DEF Evict
  <2>2. UnloadedTypes
    BY <1>1, <2>1, UnloadStep DEF TypeInv
  <2>3. evicting' \in [Requests -> Job] /\ lock' \in Opt
    BY <1>1, <1>2, <2>1 DEF Opt
  <2>4. x \in TaskState \ {"none"}
    BY DEF TaskState
  <2>5. /\ residents' \in [Models -> Opt] /\ rsd' \in [Requests -> Resident]
        /\ \A m \in Models : residents'[m] # None => residents'[m] \in {residents[m], t}
        /\ proc' \in [Requests -> ProcState] /\ lost' \subseteq Requests
    BY <2>2 DEF UnloadedTypes
  <2> HIDE DEF x
  <2> QED
    BY <2>1, <2>3, <2>4, <2>5, ServiceStutter, LoadTypes
<1>4. CASE Awaited(names) = None
  <2> DEFINE x == "spawning"
             holder == Placeholder(EffectiveKeepAlive(ask[t].keepAlive))
  <2>1. /\ residents' = [TableAfter(names) EXCEPT ![ask[t].model] = t]
        /\ rsd' = [RsdAfter(names, rsd) EXCEPT ![t] = holder]
        /\ proc' = [proc EXCEPT ![t] = "starting"]
        /\ lost' = LostAfter(names)
        /\ evicting' = [evicting EXCEPT ![t] = NoJob]
        /\ lock' = None
        /\ task' = [task EXCEPT ![t] = x]
    BY <1>4 DEF Evict, LockReleased
  <2>2. ask[t] \in Asks
    BY DEF TypeInv, TypeOK, References
  <2>3. holder \in Resident
    BY <2>2, EffectiveKeepAliveType, PlaceholderType
  <2>4. ask[t].model \in Models
    BY <2>2, AskTypes
  <2> HIDE DEF holder
  <2>5. /\ residents' \in [Models -> Opt]
        /\ \A m \in Models : residents'[m] # None => residents'[m] \in {residents[m], t}
    BY <1>2, <2>1, <2>4 DEF Opt
  <2>6. rsd' \in [Requests -> Resident] /\ lost' \subseteq Requests
    BY <1>2, <2>1, <2>3
  <2>7. proc' \in [Requests -> ProcState] /\ lock' \in Opt
    BY <1>1, <2>1 DEF ProcState, Opt
  <2>8. NoJob \in Job
    BY DEF NoJob, Job, Opt
  <2>9. evicting' \in [Requests -> Job]
    BY <1>1, <2>1, <2>8
  <2>10. x \in TaskState \ {"none"}
    BY DEF TaskState
  <2> HIDE DEF x
  <2> QED
    BY <2>1, <2>5, <2>6, <2>7, <2>9, <2>10, ServiceStutter, LoadTypes
<1> QED
  BY <1>3, <1>4

\* the residents that the scheduler is shown
LEMMA ResidentInfosFinite == IsFiniteSet(Present) /\ IsFiniteSet(ResidentInfos)
<1>1. IsFiniteSet(Present)
  BY LifecycleAssumption, FS_Subset DEF Present
<1> DEFINE f == [m \in Present |-> ResidentInfo(m)]
<1>2. f \in Surjection(Present, ResidentInfos)
  BY DEF Surjection, ResidentInfos
<1> QED
  BY <1>1, <1>2, FS_Surjection

\* The evictions of a plan are names of models
LEMMA EvictionsType ==
  ASSUME NEW name, NEW required, NEW plan \in Plans(name, required, ResidentInfos)
  PROVE  plan.evictions \in Seq(Models)
<1>1. plan.evictions \in Seq({r.name : r \in ResidentInfos})
  BY ResidentInfosFinite, PlanSparesTheBusy
<1>2. \A r \in ResidentInfos : r.name \in Models
  BY DEF ResidentInfos, ResidentInfo, Present
<1>3. {r.name : r \in ResidentInfos} \subseteq Models
  BY <1>2
<1> HIDE DEF ResidentInfos
<1> QED
  BY <1>1, <1>3, SeqMonotonic

\* A load is admitted or refused
LEMMA AdmissionTypes ==
  ASSUME TypeInv, NEW t \in Requests, Admission(t)
  PROVE  TypeInv'
<1>1. task[t] # "none" /\ UNCHANGED <<loading, requestVars, serviceVars>>
  BY DEF Admission
<1>2. PICK plan \in Plans(ask[t].model, Bytes(t), ResidentInfos) :
        \/ Evict(t, plan.evictions)
        \/ task' = [task EXCEPT ![t] = "failed"] /\ UNCHANGED <<tableVars, evicting, lock>>
  BY DEF Admission
<1>3. CASE Evict(t, plan.evictions)
  BY <1>1, <1>3, EvictionsType, EvictTypes
<1>4. CASE task' = [task EXCEPT ![t] = "failed"] /\ UNCHANGED <<tableVars, evicting, lock>>
  <2> DEFINE x == "failed"
  <2>1. task' = [task EXCEPT ![t] = x] /\ x \in TaskState \ {"none"}
    BY <1>4 DEF TaskState
  <2>2. /\ residents' \in [Models -> Opt] /\ rsd' \in [Requests -> Resident]
        /\ \A m \in Models : residents'[m] # None => residents'[m] \in {residents[m], t}
        /\ proc' \in [Requests -> ProcState] /\ lost' \subseteq Requests
        /\ evicting' \in [Requests -> Job] /\ lock' \in Opt
    BY <1>4 DEF TypeInv, TypeOK, tableVars, ProcState
  <2> HIDE DEF x
  <2> QED
    BY <1>1, <2>1, <2>2, ServiceStutter, LoadTypes
<1> QED
  BY <1>2, <1>3, <1>4

\* A load goes on with its evictions
LEMMA EvictNextTypes ==
  ASSUME TypeInv, NEW t \in Requests, EvictNext(t)
  PROVE  TypeInv'
<1>1. evicting[t].rest \in Seq(Models)
  BY DEF TypeInv, TypeOK, Job
<1>2. /\ task[t] # "none" /\ UNCHANGED <<loading, requestVars, serviceVars>>
      /\ Evict(t, evicting[t].rest)
  BY DEF EvictNext
<1> QED
  BY <1>1, <1>2, EvictTypes

\* The llama-server of a load answers
LEMMA SpawnReadyTypes ==
  ASSUME TypeInv, NEW t \in Requests, SpawnReady(t)
  PROVE  TypeInv'
<1> DEFINE x == "ready"
           object == [rsd[t] EXCEPT !.state = "READY", !.idle = 0]
<1>1. object \in Resident
  BY ObjectTypes DEF TypeInv, TypeOK
<1>2. /\ task[t] # "none" /\ task' = [task EXCEPT ![t] = x]
      /\ proc' = [proc EXCEPT ![t] = "up"]
      /\ UNCHANGED <<residents, lost, loading, evicting, lock, requestVars, serviceVars>>
  BY DEF SpawnReady
<1>3. rsd' = [rsd EXCEPT ![t] = object]
  BY DEF SpawnReady, TypeInv, TypeOK
<1>4. x \in TaskState \ {"none"}
  BY DEF TaskState
<1> HIDE DEF object
<1>5. rsd' \in [Requests -> Resident]
  BY <1>1, <1>3 DEF TypeInv, TypeOK
<1>6. /\ residents' \in [Models -> Opt]
      /\ \A m \in Models : residents'[m] # None => residents'[m] \in {residents[m], t}
      /\ proc' \in [Requests -> ProcState] /\ lost' \subseteq Requests
      /\ evicting' \in [Requests -> Job] /\ lock' \in Opt
  BY <1>2 DEF TypeInv, TypeOK, ProcState
<1> HIDE DEF x
<1> QED
  BY <1>2, <1>4, <1>5, <1>6, ServiceStutter, LoadTypes

\* The llama-server of a load fails
LEMMA SpawnFailsTypes ==
  ASSUME TypeInv, NEW t \in Requests, SpawnFails(t)
  PROVE  TypeInv'
<1>1. UnloadedTypes
  BY DEF SpawnFails, UnloadedTypes, TypeInv, TypeOK, ProcState
<1> QED
  BY <1>1, ServiceStutter, OtherTypes DEF SpawnFails

\* The reservation of a failed load disappears
LEMMA DroppedTypes ==
  ASSUME TypeInv, NEW t \in Requests
  PROVE  /\ ReservationDropped(t) \in [Models -> Opt]
         /\ \A m \in Models : ReservationDropped(t)[m] # None =>
                               ReservationDropped(t)[m] \in {residents[m], t}
BY DEF TypeInv, TypeOK, ReservationDropped, Opt

\* A load ends with an error
LEMMA LoadFailsTypes ==
  ASSUME TypeInv, NEW t \in Requests, LoadFails(t)
  PROVE  TypeInv'
<1> DEFINE x == "failed"
<1>1. /\ task[t] # "none" /\ task' = [task EXCEPT ![t] = x]
      /\ residents' = ReservationDropped(t)
      /\ UNCHANGED <<rsd, proc, lost, loading, evicting, lock, requestVars, serviceVars>>
  BY DEF LoadFails
<1>2. x \in TaskState \ {"none"}
  BY DEF TaskState
<1>3. /\ rsd' \in [Requests -> Resident]
      /\ proc' \in [Requests -> ProcState] /\ lost' \subseteq Requests
      /\ evicting' \in [Requests -> Job] /\ lock' \in Opt
  BY <1>1 DEF TypeInv, TypeOK, ProcState
<1> HIDE DEF x
<1> QED
  BY <1>1, <1>2, <1>3, DroppedTypes, ServiceStutter, LoadTypes

\* The done-callback of a load
LEMMA CallbackTypes ==
  ASSUME TypeInv, NEW m \in Models, Callback(m)
  PROVE  TypeInv'
<1> USE DEF Callback, tableVars, requestVars, serviceVars
<1>1. loading' = [loading EXCEPT ![m] = None] /\ loading' \in [Models -> Opt]
  BY DEF TypeInv, TypeOK, Opt
<1>2. TypeOK'
  BY <1>1 DEF TypeInv, TypeOK
<1>3. \A n \in Models : loading'[n] # None => loading'[n] = loading[n]
  BY <1>1 DEF TypeInv, TypeOK
<1>4. References'
  BY <1>3 DEF TypeInv, References
<1> QED
  BY <1>2, <1>4 DEF TypeInv

\* A process that was being stopped is gone
LEMMA ExitTypes ==
  ASSUME TypeInv, NEW r \in Requests, Exit(r)
  PROVE  TypeInv'
<1>1. UnloadedTypes
  BY DEF Exit, UnloadedTypes, TypeInv, TypeOK, ProcState
<1> QED
  BY <1>1, ServiceStutter, OtherTypes DEF Exit

\* the sweep and the shutdown unload a sequence of names
LEMMA UnloadNamesTypes ==
  ASSUME TypeInv, NEW names \in Seq(Models), Unload(names, rsd), ServiceTypes,
         UNCHANGED <<loadVars, requestVars>>
  PROVE  TypeInv'
<1>1. rsd \in [Requests -> Resident]
  BY DEF TypeInv, TypeOK
<1>2. UnloadedTypes
  BY <1>1, UnloadStep DEF TypeInv
<1> QED
  BY <1>2, OtherTypes

\* The sweep unloads a list of names
LEMMA SweepTypes ==
  ASSUME TypeInv, NEW names \in Seq(Models), Sweep(names)
  PROVE  TypeInv'
<1>1. rsd \in [Requests -> Resident]
  BY DEF TypeInv, TypeOK
<1>2. JobAfter(names) \in Job
  BY <1>1, UnloadTypes DEF TypeInv
<1>3. ServiceTypes
  BY <1>2 DEF Sweep, ServiceTypes, TypeInv, TypeOK
<1> QED
  BY <1>3, UnloadNamesTypes DEF Sweep

\* The sweep begins
LEMMA SweepStartTypes ==
  ASSUME TypeInv, SweepStart
  PROVE  TypeInv'
<1>1. Due \in SUBSET Models
  BY DEF Due, Present
<1>2. PICK names \in SetToSeqs(Due) : Sweep(names)
  BY DEF SweepStart
<1> HIDE DEF Due
<1>3. names \in Seq(Models)
  BY <1>1, SequencesOfSets
<1> QED
  BY <1>2, <1>3, SweepTypes

\* The sweep goes on
LEMMA SweepNextTypes ==
  ASSUME TypeInv, SweepNext
  PROVE  TypeInv'
<1>1. sweeper.rest \in Seq(Models)
  BY DEF TypeInv, TypeOK, Job
<1> QED
  BY <1>1, SweepTypes DEF SweepNext

\* Time passes
LEMMA TickTypes ==
  ASSUME TypeInv, Tick
  PROVE  TypeInv'
<1>1. rsd \in [Requests -> Resident]
  BY DEF TypeInv, TypeOK
<1>2. rsd' = [r \in Requests |-> IF Older(r) THEN [rsd[r] EXCEPT !.idle = @ + 1] ELSE rsd[r]]
  BY DEF Tick
<1>3. \A r \in Requests : Older(r) => [rsd[r] EXCEPT !.idle = @ + 1] \in Resident
  BY <1>1, ObjectTypes DEF Older
<1>4. rsd' \in [Requests -> Resident]
  BY <1>1, <1>2, <1>3
<1>5. UnloadedTypes
  BY <1>4 DEF Tick, UnloadedTypes, TypeInv, TypeOK, ProcState
<1> QED
  BY <1>5, ServiceStutter, OtherTypes DEF Tick

\* The service begins to stop
LEMMA StopServiceTypes ==
  ASSUME TypeInv, StopService
  PROVE  TypeInv'
<1>1. sweeper.victim \in Opt
  BY DEF TypeInv, TypeOK, Job
<1>2. proc' \in [Requests -> ProcState] /\ lost' \subseteq Requests
  BY <1>1, AbandonTypes DEF StopService, TypeInv
<1>3. UnloadedTypes
  BY <1>2 DEF StopService, UnloadedTypes, TypeInv, TypeOK
<1>4. NoJob \in Job
  BY DEF NoJob, Job, Opt
<1>5. ServiceTypes
  BY <1>4 DEF StopService, ServiceTypes, TypeInv, TypeOK
<1> QED
  BY <1>3, <1>5, OtherTypes DEF StopService

\* The shutdown unloads a list of names
LEMMA CloseTypes ==
  ASSUME TypeInv, NEW names \in Seq(Models), Close(names)
  PROVE  TypeInv'
<1>1. rsd \in [Requests -> Resident]
  BY DEF TypeInv, TypeOK
<1>2. JobAfter(names) \in Job
  BY <1>1, UnloadTypes DEF TypeInv
<1>3. ServiceTypes
  BY <1>2 DEF Close, ServiceTypes, TypeInv, TypeOK
<1> QED
  BY <1>3, UnloadNamesTypes DEF Close

\* The shutdown begins to unload
LEMMA CloseStartTypes ==
  ASSUME TypeInv, CloseStart
  PROVE  TypeInv'
<1>1. Present \in SUBSET Models
  BY DEF Present
<1>2. PICK names \in SetToSeqs(Present) : Close(names)
  BY DEF CloseStart
<1> HIDE DEF Present
<1>3. names \in Seq(Models)
  BY <1>1, SequencesOfSets
<1> QED
  BY <1>2, <1>3, CloseTypes

\* The shutdown goes on
LEMMA CloseNextTypes ==
  ASSUME TypeInv, CloseNext
  PROVE  TypeInv'
<1>1. closing.rest \in Seq(Models)
  BY DEF TypeInv, TypeOK, Job
<1> QED
  BY <1>1, CloseTypes DEF CloseNext

\* The shutdown cancels a load
LEMMA CancelLoadTypes ==
  ASSUME TypeInv, NEW t \in Requests, CancelLoad(t)
  PROVE  TypeInv'
<1>1. /\ phase = "loads" /\ Pending(t) /\ closing' = [closing EXCEPT !.victim = t]
      /\ UNCHANGED <<rsd, loading, requestVars, sweeper, phase>>
  BY DEF CancelLoad
<1>2. closing' \in Job
  BY <1>1 DEF TypeInv, TypeOK, Job, Opt
<1>3. ServiceTypes
  BY <1>1, <1>2 DEF ServiceTypes, TypeInv, TypeOK
<1>4. t \in Opt /\ evicting[t].victim \in Opt /\ NoJob \in Job /\ None \in Opt
  BY DEF TypeInv, TypeOK, Job, NoJob, Opt
<1>5. task[t] # "none" /\ rsd' \in [Requests -> Resident]
  BY <1>1 DEF Pending, TypeInv, TypeOK
<1>6. CASE /\ task[t] = "spawning" /\ proc[t] = "starting"
           /\ proc' = [proc EXCEPT ![t] = "stopping"]
           /\ UNCHANGED <<residents, lost, task, evicting, lock>>
  <2>1. UnloadedTypes
    BY <1>5, <1>6 DEF UnloadedTypes, TypeInv, TypeOK, ProcState
  <2> QED
    BY <1>1, <1>3, <1>6, <2>1, OtherTypes DEF loadVars
<1>7. CASE /\ AbandonStop(t)
           /\ residents' = ReservationDropped(t)
           /\ task' = [task EXCEPT ![t] = "failed"]
           /\ UNCHANGED <<evicting, lock>>
  <2> DEFINE x == "failed"
  <2>1. task' = [task EXCEPT ![t] = x] /\ x \in TaskState \ {"none"}
    BY <1>7 DEF TaskState
  <2>2. proc' \in [Requests -> ProcState] /\ lost' \subseteq Requests
    BY <1>4, <1>7, AbandonTypes DEF TypeInv
  <2>3. evicting' \in [Requests -> Job] /\ lock' \in Opt
    BY <1>7 DEF TypeInv, TypeOK
  <2>4. /\ residents' \in [Models -> Opt]
        /\ \A m \in Models : residents'[m] # None => residents'[m] \in {residents[m], t}
    BY <1>7, DroppedTypes
  <2> HIDE DEF x
  <2> QED
    BY <1>1, <1>3, <1>5, <2>1, <2>2, <2>3, <2>4, LoadTypes
<1>8. CASE /\ AbandonStop(evicting[t].victim)
           /\ task' = [task EXCEPT ![t] = "failed"]
           /\ evicting' = [evicting EXCEPT ![t] = NoJob]
           /\ lock' = IF lock = t THEN None ELSE lock
           /\ UNCHANGED residents
  <2> DEFINE x == "failed"
  <2>1. task' = [task EXCEPT ![t] = x] /\ x \in TaskState \ {"none"}
    BY <1>8 DEF TaskState
  <2>2. proc' \in [Requests -> ProcState] /\ lost' \subseteq Requests
    BY <1>4, <1>8, AbandonTypes DEF TypeInv
  <2>3. evicting' \in [Requests -> Job] /\ lock' \in Opt
    BY <1>4, <1>8 DEF TypeInv, TypeOK
  <2>4. /\ residents' \in [Models -> Opt]
        /\ \A m \in Models : residents'[m] # None => residents'[m] \in {residents[m], t}
    BY <1>8 DEF TypeInv, TypeOK
  <2> HIDE DEF x
  <2> QED
    BY <1>1, <1>3, <1>5, <2>1, <2>2, <2>3, <2>4, LoadTypes
<1> QED
  BY <1>6, <1>7, <1>8 DEF CancelLoad

\* Nothing happens
LEMMA UnchangedTypes ==
  ASSUME TypeInv, UNCHANGED vars
  PROVE  TypeInv'
<1>1. UnloadedTypes /\ ServiceTypes
  BY StutterTypes, ServiceStutter DEF TypeInv, vars
<1> QED
  BY <1>1, OtherTypes DEF vars

\* Every step keeps the types: TypeInv is inductive
LEMMA NextTypes ==
  ASSUME TypeInv, [Next]_vars
  PROVE  TypeInv'
<1>1. ASSUME NEW q \in Requests, RequestStep(q) PROVE TypeInv'
  BY <1>1, BeginTypes, ResumeTypes, WakeTypes, ReleaseTypes, EndStopTypes, EndStreamTypes,
     CancelTypes DEF RequestStep
<1>2. ASSUME NEW t \in Requests, LoadStep(t) PROVE TypeInv'
  BY <1>2, RejectLoadTypes, AdmissionTypes, EvictNextTypes, SpawnReadyTypes, SpawnFailsTypes,
     LoadFailsTypes DEF LoadStep
<1>3. ASSUME ServiceStep PROVE TypeInv'
  BY <1>3, SweepStartTypes, SweepNextTypes, TickTypes, StopServiceTypes, CancelLoadTypes,
     CloseStartTypes, CloseNextTypes DEF ServiceStep
<1> QED
  BY <1>1, <1>2, <1>3, ExitTypes, CallbackTypes, UnchangedTypes DEF Next

(***************************************************************************)
(* Type correctness: in every reachable state every variable has its type, *)
(* and every reference of the table, of _loading and of a request is to a  *)
(* load that some request has really begun.                                *)
(***************************************************************************)
THEOREM TypeInvariant == Spec => []TypeInv
<1>1. Init => TypeInv
  BY InitTypes
<1>2. TypeInv /\ [Next]_vars => TypeInv'
  BY NextTypes
<1> QED
  BY <1>1, <1>2, PTL DEF Spec

(***************************************************************************)
(* The type invariant that the runs check holds for any number of models,  *)
(* of requests and of runtimes, any budget and any number of slots.        *)
(***************************************************************************)
THEOREM TypeCorrect == Spec => []TypeOK
<1>1. TypeInv => TypeOK
  BY DEF TypeInv
<1> QED
  BY <1>1, TypeInvariant, PTL

----------------------------------------------------------------------------
(* Single flight                                                           *)

\* no load appears, and the existing ones keep their model and their registration
LoadsStay ==
  /\ UNCHANGED <<ask, loading>>
  /\ \A t \in Requests : Pending(t)' => Pending(t)

\* A step that starts no load keeps the loads single-flight
LEMMA LoadsStaySingle ==
  ASSUME SingleFlight, LoadsStay
  PROVE  SingleFlight'
BY DEF SingleFlight, LoadsStay

\* The evictions of an admission leave its load pending
LEMMA EvictLoadsStay ==
  ASSUME TypeInv, NEW t \in Requests, Pending(t), NEW names, Evict(t, names),
         UNCHANGED <<loading, requestVars>>
  PROVE  LoadsStay
<1>1. \E x \in TaskState : task' = [task EXCEPT ![t] = x]
  BY DEF Evict, TaskState
<1> QED
  BY <1>1 DEF LoadsStay, requestVars, Pending, TypeInv, TypeOK

\* The steps of a load only end loads
LEMMA LoadStepLoadsStay ==
  ASSUME TypeInv, NEW t \in Requests, LoadStep(t)
  PROVE  LoadsStay
<1> USE DEF LoadsStay, requestVars, loadVars, Pending, TypeInv, TypeOK
<1>1. CASE RejectLoad(t)
  BY <1>1 DEF RejectLoad
<1>2. CASE Admission(t)
  <2>1. /\ task[t] = "queued" /\ UNCHANGED <<loading, requestVars>>
        /\ \/ \E names : Evict(t, names)
           \/ task' = [task EXCEPT ![t] = "failed"]
    BY <1>2 DEF Admission
  <2> QED
    BY <2>1, EvictLoadsStay
<1>3. CASE EvictNext(t)
  BY <1>3, EvictLoadsStay DEF EvictNext
<1>4. CASE SpawnReady(t) \/ SpawnFails(t) \/ LoadFails(t)
  BY <1>4 DEF SpawnReady, SpawnFails, LoadFails
<1> QED
  BY <1>1, <1>2, <1>3, <1>4 DEF LoadStep

\* So do the sweep, the passing of time and the stop of the service
LEMMA ServiceLoadsStay ==
  ASSUME TypeInv, ServiceStep
  PROVE  LoadsStay
<1> USE DEF LoadsStay, requestVars, loadVars, Pending, TypeInv, TypeOK
<1>1. CASE SweepStart \/ SweepNext
  BY <1>1 DEF SweepStart, SweepNext, Sweep
<1>2. CASE Tick
  BY <1>2 DEF Tick
<1>3. CASE StopService
  BY <1>3 DEF StopService
<1>4. ASSUME NEW t \in Requests, CancelLoad(t) PROVE LoadsStay
  <2>1. UNCHANGED <<loading, ask>> /\ (UNCHANGED task \/ task' = [task EXCEPT ![t] = "failed"])
    BY <1>4 DEF CancelLoad
  <2> QED
    BY <2>1
<1>5. CASE CloseStart \/ CloseNext
  BY <1>5 DEF CloseStart, CloseNext, Close
<1> QED
  BY <1>1, <1>2, <1>3, <1>4, <1>5 DEF ServiceStep

\* And the requests, once they have their model
LEMMA LaterLoadsStay ==
  ASSUME TypeInv, NEW q \in Requests,
         Wake(q) \/ Release(q) \/ EndStop(q) \/ EndStream(q) \/ Cancel(q)
  PROVE  LoadsStay
BY DEF LoadsStay, loadVars, Pending, Wake, Release, EndStop, EndStream, Cancel

\* A request that starts a load registers it under a model that had none
LEMMA EnsureReadySingle ==
  ASSUME TypeInv, SingleFlight, NEW q \in Requests, NEW a \in Asks, EnsureReady(q, a),
         \A t \in Requests : Pending(t) => ask'[t] = ask[t],
         ask'[q] = a
  PROVE  SingleFlight'
<1>1. CASE UNCHANGED loadVars
  BY <1>1 DEF SingleFlight, loadVars, Pending
<1>2. CASE StartLoad(q, a)
  <2>1. /\ loading[a.model] = None
        /\ task' = [task EXCEPT ![q] = "queued"]
        /\ loading' = [loading EXCEPT ![a.model] = q]
    BY <1>2 DEF StartLoad, Registered
  <2>2. a.model \in Models /\ None \notin Requests
    BY AskTypes, LifecycleAssumption
  <2>3. loading'[ask'[q].model] = q
    BY <2>1, <2>2 DEF TypeInv, TypeOK
  <2>4. ASSUME NEW t \in Requests \ {q}, Pending(t)' PROVE loading'[ask'[t].model] = t
    <3>1. Pending(t)
      BY <2>1, <2>4 DEF Pending, TypeInv, TypeOK
    <3>2. ask'[t] = ask[t] /\ loading[ask[t].model] = t
      BY <3>1 DEF SingleFlight
    <3>3. ask[t].model # a.model
      BY <2>1, <2>2, <3>2
    <3> QED
      BY <2>1, <3>2, <3>3 DEF TypeInv, TypeOK
  <2> QED
    BY <2>3, <2>4 DEF SingleFlight
<1> QED
  BY <1>1, <1>2 DEF EnsureReady, Reuse, Reload, JoinLoad

\* A request that has not begun owns no load, so it may choose its model
LEMMA BeginSingle ==
  ASSUME TypeInv, SingleFlight, NEW q \in Requests, Begin(q)
  PROVE  SingleFlight'
<1>1. PICK a \in Asks :
        /\ ask' = [ask EXCEPT ![q] = a]
        /\ IF a.kind = "unload" THEN UnloadRequest(q, a) ELSE EnsureReady(q, a)
  BY DEF Begin
<1>2. ~Pending(q)
  BY DEF Begin, Pending, TypeInv, References
<1>3. ask'[q] = a /\ \A t \in Requests : Pending(t) => ask'[t] = ask[t]
  BY <1>1, <1>2 DEF TypeInv, TypeOK
<1>4. CASE a.kind = "unload"
  BY <1>1, <1>3, <1>4 DEF UnloadRequest, loadVars, SingleFlight, Pending
<1> QED
  BY <1>1, <1>3, <1>4, EnsureReadySingle

\* Every step keeps the loads single-flight
LEMMA NextSingle ==
  ASSUME TypeInv, SingleFlight, [Next]_vars
  PROVE  SingleFlight'
<1>1. ASSUME NEW q \in Requests, Resume(q) PROVE SingleFlight'
  BY <1>1, EnsureReadySingle DEF Resume, TypeInv, TypeOK
<1>2. ASSUME NEW q \in Requests, RequestStep(q) PROVE SingleFlight'
  BY <1>1, <1>2, BeginSingle, LaterLoadsStay, LoadsStaySingle DEF RequestStep
<1>3. ASSUME NEW t \in Requests, LoadStep(t) PROVE SingleFlight'
  BY <1>3, LoadStepLoadsStay, LoadsStaySingle
<1>4. ASSUME NEW r \in Requests, Exit(r) PROVE SingleFlight'
  BY <1>4 DEF Exit, SingleFlight, Pending, loadVars, requestVars
<1>5. ASSUME NEW m \in Models, Callback(m) PROVE SingleFlight'
  <2>1. /\ loading' = [loading EXCEPT ![m] = None] /\ ~Pending(loading[m])
        /\ UNCHANGED <<ask, task>>
    BY <1>5 DEF Callback, Pending, requestVars
  <2>2. ASSUME NEW t \in Requests, Pending(t)' PROVE loading'[ask'[t].model] = t
    <3>1. Pending(t) /\ ask'[t] = ask[t]
      BY <2>1, <2>2 DEF Pending
    <3>2. loading[ask[t].model] = t
      BY <3>1 DEF SingleFlight
    <3>3. ask[t].model # m
      BY <2>1, <3>1, <3>2
    <3> QED
      BY <2>1, <3>1, <3>2, <3>3 DEF TypeInv, TypeOK
  <2> QED
    BY <2>2 DEF SingleFlight
<1>6. CASE ServiceStep
  BY <1>6, ServiceLoadsStay, LoadsStaySingle
<1>7. CASE UNCHANGED vars
  BY <1>7 DEF vars, loadVars, requestVars, SingleFlight, Pending
<1> QED
  BY <1>2, <1>3, <1>4, <1>5, <1>6, <1>7 DEF Next

(***************************************************************************)
(* Single flight: every load that is under way is the one that _loading    *)
(* names for its model, so that a model is never loaded twice at once,     *)
(* however requests, cancellations, sweeps and the shutdown interleave.    *)
(***************************************************************************)
THEOREM LoadsAreSingleFlight == Spec => []SingleFlight
<1>1. Init => SingleFlight
  BY DEF Init, SingleFlight, Pending
<1>2. TypeInv /\ SingleFlight /\ [Next]_vars => SingleFlight'
  BY NextSingle
<1> QED
  BY <1>1, <1>2, TypeInvariant, PTL DEF Spec

----------------------------------------------------------------------------
(* The table is live                                                       *)

Live(m, r) ==
  /\ ask[r].model = m
  /\ \/ rsd[r].state = "LOADING" /\ task[r] = "spawning"
     \/ IsServing(r) /\ task[r] = "ready" /\ proc[r] = "up"

\* a request creates its load once: before that it owns none
Untasked == \A q \in Requests : pc[q] \in {"new", "reloading"} => task[q] = "none"

TableInv == TypeInv /\ Untasked /\ TableIsLive

\* TableIsLive, entry by entry
LEMMA LiveEntries == TableIsLive <=> \A m \in Models : residents[m] # None => Live(m, residents[m])
BY DEF TableIsLive, Live, Present

\* what a step may do to a Resident that stays in the table
Gentle(r) ==
  /\ proc[r] = "up" => proc'[r] = "up"
  /\ rsd[r].state = "LOADING" => rsd'[r].state = "LOADING"
  /\ IsServing(r) => IsServing(r)'
GentleTable ==
  \A m \in Models : residents'[m] # None =>
                      residents'[m] = residents[m] /\ Gentle(residents[m])

\* A step that only removes entries, and is gentle to the others, keeps the table live
LEMMA GentleLive ==
  ASSUME TableIsLive, GentleTable,
         \A m \in Models : residents[m] # None =>
           ask'[residents[m]] = ask[residents[m]] /\ task'[residents[m]] = task[residents[m]]
  PROVE  TableIsLive'
<1> SUFFICES ASSUME NEW m \in Models, residents'[m] # None PROVE Live(m, residents[m])'
  BY DEF TableIsLive, Live, Present
<1>1. residents'[m] = residents[m] /\ Gentle(residents[m]) /\ Live(m, residents[m])
  BY LiveEntries DEF GentleTable
<1>2. ask'[residents[m]] = ask[residents[m]] /\ task'[residents[m]] = task[residents[m]]
  BY <1>1
<1> QED
  BY <1>1, <1>2 DEF Live, Gentle

Serving(s) == s.state \in {"READY", "BUSY", "IDLE"}

\* Using a Resident never makes it stop serving
LEMMA ServingObjects ==
  ASSUME NEW s \in Resident
  PROVE  /\ \A ka : Serving(s) => Serving(Touched(s, ka))
         /\ Serving(Acquired(s))
         /\ Serving(s) => Serving(Released(s))
         /\ s.state = "LOADING" => Released(s).state = "LOADING"
         /\ \A ka : s.state = "LOADING" => Touched(s, ka).state = "LOADING"
BY DEF Resident, Serving, Touched, Acquired, Released

\* Two names never share a Resident
LEMMA OneNameEach ==
  ASSUME TableIsLive, NEW m \in Models, NEW n \in Models,
         residents[m] # None, residents[m] = residents[n]
  PROVE  m = n
BY LiveEntries DEF Live

\* the objects that the table still refers to keep loading, or keep serving
GentleObjects(objects) ==
  \A m \in Models : residents[m] # None =>
    /\ rsd[residents[m]].state = "LOADING" => objects[residents[m]].state = "LOADING"
    /\ Serving(rsd[residents[m]]) => Serving(objects[residents[m]])

\* Unloading stops only the processes of the entries that it removes
LEMMA UnloadGentle ==
  ASSUME TypeInv, TableIsLive, NEW names \in Seq(Models),
         NEW objects \in [Requests -> Resident], GentleObjects(objects)
  PROVE  \A m \in Models :
           TableAfter(names)[m] # None =>
             /\ TableAfter(names)[m] = residents[m]
             /\ residents[m] \notin PoppedResidents(names)
             /\ residents[m] # Awaited(names)
             /\ ProcAfter(names)[residents[m]] = proc[residents[m]]
             /\ RsdAfter(names, objects)[residents[m]] = objects[residents[m]]
<1> SUFFICES ASSUME NEW m \in Models, TableAfter(names)[m] # None
             PROVE  /\ TableAfter(names)[m] = residents[m]
                    /\ residents[m] \notin PoppedResidents(names)
                    /\ residents[m] # Awaited(names)
                    /\ ProcAfter(names)[residents[m]] = proc[residents[m]]
                    /\ RsdAfter(names, objects)[residents[m]] = objects[residents[m]]
  OBVIOUS
<1> DEFINE r == residents[m]
<1>1. m \notin Popped(names) /\ TableAfter(names)[m] = r /\ r # None
  BY DEF TableAfter
<1>2. r \in Requests
  BY <1>1 DEF TypeInv, TypeOK, Opt
<1>3. Popped(names) \subseteq {n \in Models : residents[n] # None}
  BY DEF Popped, Present
<1>4. r \notin PoppedResidents(names)
  BY <1>1, <1>3, OneNameEach DEF PoppedResidents
<1>5. Awaited(names) # None => Awaited(names) \in PoppedResidents(names)
  <2> SUFFICES ASSUME Awaited(names) # None PROVE Awaited(names) \in PoppedResidents(names)
    OBVIOUS
  <2>1. Blocking(names) # {} /\ Awaited(names) = residents[names[Passed(names)]]
    BY DEF Awaited
  <2>2. Passed(names) \in Blocking(names) /\ Passed(names) \in 0 .. Len(names)
    BY <2>1, PassedRange
  <2>3. Passed(names) \in 1 .. Passed(names) /\ names[Passed(names)] \in Present
    BY <2>2 DEF Blocking, Present
  <2>4. names[Passed(names)] \in Popped(names)
    BY <2>3 DEF Popped
  <2> QED
    BY <2>1, <2>4 DEF PoppedResidents
<1>6. r # Awaited(names)
  BY <1>1, <1>4, <1>5
<1> QED
  BY <1>1, <1>2, <1>4, <1>6 DEF ProcAfter, RsdAfter

\* So an unload is gentle to what stays in the table
LEMMA UnloadGentleStep ==
  ASSUME TypeInv, TableIsLive, NEW names \in Seq(Models),
         NEW objects \in [Requests -> Resident], GentleObjects(objects),
         Unload(names, objects)
  PROVE  GentleTable
<1> SUFFICES ASSUME NEW m \in Models, residents'[m] # None
             PROVE  residents'[m] = residents[m] /\ Gentle(residents[m])
  BY DEF GentleTable
<1>1. /\ residents' = TableAfter(names) /\ proc' = ProcAfter(names)
      /\ rsd' = RsdAfter(names, objects)
  BY DEF Unload
<1>2. /\ residents'[m] = residents[m]
      /\ proc'[residents[m]] = proc[residents[m]]
      /\ rsd'[residents[m]] = objects[residents[m]]
  BY <1>1, UnloadGentle
<1>3. residents[m] # None
  BY <1>2
<1> QED
  BY <1>2, <1>3 DEF Gentle, GentleObjects, IsServing, Serving

\* A cancelled stop may only revive a process that was being stopped
LEMMA AbandonGentle ==
  ASSUME TypeInv, NEW r \in Opt, AbandonStop(r), UNCHANGED rsd,
         \A m \in Models : residents'[m] # None => residents'[m] = residents[m]
  PROVE  GentleTable
BY DEF AbandonStop, GentleTable, Gentle, IsServing, TypeInv, TypeOK, Opt

\* An object left alone is gentle to the table
LEMMA SameObjects == GentleObjects(rsd)
BY DEF GentleObjects

\* So is an object that goes on loading, or serving
LEMMA OtherObject ==
  ASSUME TypeInv, NEW r \in Requests, NEW s \in Resident,
         (\E m \in Models : residents[m] = r) =>
           /\ rsd[r].state = "LOADING" => s.state = "LOADING"
           /\ Serving(rsd[r]) => Serving(s)
  PROVE  GentleObjects([rsd EXCEPT ![r] = s])
BY DEF GentleObjects, TypeInv, TypeOK

\* Leaving acquire is gentle to the table, keep_alive 0 included
LEMMA LeaveGentle ==
  ASSUME TypeInv, TableIsLive, NEW q \in Requests, NEW a \in Asks, NEW r \in Requests,
         task[r] # "none", NEW s \in Resident, Leave(q, a, r, s),
         (\E m \in Models : residents[m] = r) =>
           /\ rsd[r].state = "LOADING" => s.state = "LOADING"
           /\ Serving(rsd[r]) => Serving(s)
  PROVE  GentleTable
<1> DEFINE objects == [rsd EXCEPT ![r] = s]
           names == IF s.active = 0 /\ s.keepAlive = 0 THEN <<ask[r].model>> ELSE <<>>
<1>1. objects \in [Requests -> Resident]
  BY DEF TypeInv, TypeOK
<1>2. ask[r].model \in Models
  BY AskTypes DEF TypeInv, TypeOK, References
<1>3. names \in Seq(Models)
  BY <1>2
<1>4. Unload(names, objects)
  BY DEF Leave
<1>5. GentleObjects(objects)
  BY OtherObject
<1> HIDE DEF names, objects
<1> QED
  BY <1>1, <1>3, <1>4, <1>5, UnloadGentleStep

\* A request is given a Resident that serves, if the table still has it
LEMMA EnterGentle ==
  ASSUME TypeInv, TableIsLive, NEW q \in Requests, NEW a \in Asks, NEW r \in Requests,
         task[r] # "none", Enter(q, a, r),
         (\E m \in Models : residents[m] = r) => Serving(rsd[r])
  PROVE  GentleTable
<1> DEFINE s == Touched(rsd[r], a.keepAlive)
<1>1. rsd[r] \in Resident /\ s \in Resident /\ Acquired(s) \in Resident
      /\ Released(Acquired(s)) \in Resident
  BY ObjectTypes DEF TypeInv, TypeOK
<1>2. Serving(rsd[r]) => /\ Serving(s) /\ Serving(Acquired(s))
                         /\ Serving(Released(Acquired(s)))
                         /\ rsd[r].state # "LOADING"
  <2>1. Serving(rsd[r]) => Serving(s)
    BY <1>1, ServingObjects
  <2>2. Serving(Acquired(s))
    BY <1>1, ServingObjects
  <2>3. Serving(Released(Acquired(s)))
    BY <1>1, <2>2, ServingObjects
  <2> QED
    BY <2>1, <2>2, <2>3 DEF Serving
<1> HIDE DEF s
<1>3. ASSUME UNCHANGED <<residents, proc>>, NEW x \in Resident, rsd' = [rsd EXCEPT ![r] = x],
             Serving(rsd[r]) => Serving(x)
      PROVE  GentleTable
  <2>1. ASSUME NEW m \in Models, residents[m] # None
        PROVE  Gentle(residents[m])
    BY <1>2, <1>3, <2>1 DEF Gentle, IsServing, Serving, TypeInv, TypeOK
  <2> QED
    BY <1>3, <2>1 DEF GentleTable
<1>4. CASE a.kind = "call"
  BY <1>1, <1>2, <1>3, <1>4 DEF Enter, s
<1>5. CASE a.kind = "preload"
  BY <1>1, <1>2, <1>3, <1>5 DEF Enter, s
<1>6. CASE a.kind = "stream"
  <2>1. Leave(q, a, r, Released(Acquired(s)))
    BY <1>6 DEF Enter, s
  <2> QED
    BY <1>1, <1>2, <2>1, LeaveGentle
<1> QED
  BY <1>4, <1>5, <1>6 DEF Enter

\* The load of an entry exists, so no request that has yet to start one owns it
LEMMA EntriesHaveLoads ==
  ASSUME TableInv, NEW m \in Models, residents[m] # None
  PROVE  /\ residents[m] \in Requests
         /\ task[residents[m]] \in {"spawning", "ready"}
         /\ pc[residents[m]] \notin {"new", "reloading"}
BY LiveEntries DEF TableInv, TypeInv, TypeOK, Opt, Live, Untasked

\* ensure_ready keeps the table live, in its four outcomes
LEMMA EnsureReadyLive ==
  ASSUME TableInv, NEW q \in Requests, NEW a \in Asks, EnsureReady(q, a),
         pc[q] \in {"new", "reloading"}, ask' = [ask EXCEPT ![q] = a]
  PROVE  TableIsLive' /\ Untasked'
<1> USE DEF TableInv
<1>1. task[q] = "none" /\ a.model \in Models
  BY AskTypes DEF Untasked
<1>2. \A m \in Models : residents[m] # None => ask'[residents[m]] = ask[residents[m]]
  BY EntriesHaveLoads DEF TypeInv, TypeOK
<1>3. CASE Reuse(q, a)
  <2> DEFINE r == residents[a.model]
  <2>1. /\ r # None /\ Serving(rsd[r]) /\ Enter(q, a, r) /\ UNCHANGED loadVars
    BY <1>3 DEF Reuse, HasServing, IsServing, Serving
  <2>2. r \in Requests /\ task[r] # "none"
    BY <1>1, <2>1, EntriesHaveLoads
  <2> HIDE DEF r
  <2>3. GentleTable
    BY <2>1, <2>2, EnterGentle
  <2>4. \A m \in Models : residents[m] # None => task'[residents[m]] = task[residents[m]]
    BY <2>1 DEF loadVars
  <2>5. \E x \in {"stopping", "streaming", "done", "serving"} : pc' = [pc EXCEPT ![q] = x]
    BY <2>1, <2>2, EnterTypes
  <2> QED
    BY <1>1, <1>2, <2>1, <2>3, <2>4, <2>5, GentleLive DEF Untasked, loadVars
<1>4. CASE Reload(q, a)
  <2> DEFINE names == <<a.model>>
  <2>1. Unload(names, rsd) /\ UNCHANGED loadVars /\ pc' = [pc EXCEPT ![q] = "reloading"]
    BY <1>4 DEF Reload
  <2>2. names \in Seq(Models) /\ rsd \in [Requests -> Resident]
    BY <1>1 DEF TypeInv, TypeOK
  <2> HIDE DEF names
  <2>3. GentleTable
    BY <2>1, <2>2, SameObjects, UnloadGentleStep
  <2>4. \A m \in Models : residents[m] # None => task'[residents[m]] = task[residents[m]]
    BY <2>1 DEF loadVars
  <2> QED
    BY <1>1, <1>2, <2>1, <2>3, <2>4, GentleLive DEF Untasked, loadVars, TypeInv, TypeOK
<1>5. CASE JoinLoad(q, a) \/ StartLoad(q, a)
  <2>1. /\ UNCHANGED tableVars /\ pc' = [pc EXCEPT ![q] = "waiting"]
        /\ UNCHANGED task \/ task' = [task EXCEPT ![q] = "queued"]
    BY <1>5 DEF JoinLoad, StartLoad, loadVars
  <2>2. GentleTable
    BY <2>1 DEF tableVars, GentleTable, Gentle, IsServing
  <2>3. \A m \in Models : residents[m] # None => task'[residents[m]] = task[residents[m]]
    BY <1>1, <2>1, EntriesHaveLoads DEF TypeInv, TypeOK
  <2> QED
    BY <1>2, <2>1, <2>2, <2>3, GentleLive DEF Untasked, TypeInv, TypeOK
<1> QED
  BY <1>3, <1>4, <1>5 DEF EnsureReady

\* A step that leaves the loads alone and is gentle to the table
LEMMA GentleStep ==
  ASSUME TableInv, GentleTable, UNCHANGED <<ask, task, pc>>
  PROVE  TableIsLive' /\ Untasked'
BY GentleLive DEF TableInv, Untasked

\* A later step of a request
LEMMA GentleLater ==
  ASSUME TableInv, GentleTable, UNCHANGED <<ask, task>>, NEW q \in Requests,
         NEW x \in {"stopping", "streaming", "done", "serving"}, pc' = [pc EXCEPT ![q] = x]
  PROVE  TableIsLive' /\ Untasked'
<1>1. TableIsLive'
  BY GentleLive DEF TableInv
<1>2. Untasked'
  BY DEF TableInv, Untasked, TypeInv, TypeOK
<1> QED
  BY <1>1, <1>2

\* So does the arrival of a request
LEMMA BeginLive ==
  ASSUME TableInv, NEW q \in Requests, Begin(q)
  PROVE  TableIsLive' /\ Untasked'
<1>1. PICK a \in Asks :
        /\ ask' = [ask EXCEPT ![q] = a]
        /\ IF a.kind = "unload" THEN UnloadRequest(q, a) ELSE EnsureReady(q, a)
  BY DEF Begin
<1>2. pc[q] = "new"
  BY DEF Begin
<1>3. CASE a.kind = "unload"
  <2> DEFINE names == <<a.model>>
             x == IF Awaited(names) = None THEN "done" ELSE "stopping"
  <2>1. Unload(names, rsd) /\ UNCHANGED loadVars /\ pc' = [pc EXCEPT ![q] = x]
    BY <1>1, <1>3 DEF UnloadRequest
  <2>2. names \in Seq(Models) /\ rsd \in [Requests -> Resident]
    BY AskTypes DEF TableInv, TypeInv, TypeOK
  <2>3. x \notin {"new", "reloading"}
    OBVIOUS
  <2> HIDE DEF names, x
  <2>4. GentleTable
    BY <2>1, <2>2, SameObjects, UnloadGentleStep DEF TableInv
  <2>5. \A m \in Models : residents[m] # None =>
          ask'[residents[m]] = ask[residents[m]] /\ task'[residents[m]] = task[residents[m]]
    BY <1>1, <1>2, <2>1, EntriesHaveLoads DEF loadVars, TableInv, TypeInv, TypeOK
  <2>6. TableIsLive'
    BY <2>4, <2>5, GentleLive DEF TableInv
  <2>7. Untasked'
    BY <2>1, <2>3 DEF Untasked, loadVars, TableInv, TypeInv, TypeOK
  <2> QED
    BY <2>6, <2>7
<1> QED
  BY <1>1, <1>2, <1>3, EnsureReadyLive

\* And every step of a request
LEMMA RequestLive ==
  ASSUME TableInv, NEW q \in Requests, RequestStep(q)
  PROVE  TableIsLive' /\ Untasked'
<1>1. CASE Begin(q)
  BY <1>1, BeginLive
<1>2. CASE Resume(q)
  BY <1>2, AskStays, EnsureReadyLive DEF Resume, TableInv, TypeInv, TypeOK
<1>3. CASE Wake(q)
  <2>1. pc[q] = "waiting" /\ UNCHANGED <<ask, task>>
    BY <1>3 DEF Wake, loadVars
  <2>2. holds[q] \in Requests /\ task[holds[q]] # "none" /\ ask[q] \in Asks
    BY <2>1 DEF TableInv, TypeInv, TypeOK, References
  <2>3. CASE task[holds[q]] = "ready" /\ Enter(q, ask[q], holds[q])
    <3>1. (\E m \in Models : residents[m] = holds[q]) => Serving(rsd[holds[q]])
      BY <2>2, <2>3, LiveEntries, LifecycleAssumption
      DEF TableInv, Live, Serving, IsServing
    <3>2. GentleTable
      BY <2>2, <2>3, <3>1, EnterGentle DEF TableInv
    <3>3. \E x \in {"stopping", "streaming", "done", "serving"} : pc' = [pc EXCEPT ![q] = x]
      BY <2>2, <2>3, EnterTypes DEF TableInv
    <3> QED
      BY <2>1, <3>2, <3>3, GentleLater
  <2>4. CASE pc' = [pc EXCEPT ![q] = "done"] /\ UNCHANGED tableVars
    <3>1. GentleTable
      BY <2>4 DEF tableVars, GentleTable, Gentle, IsServing
    <3> QED
      BY <2>1, <2>4, <3>1, GentleLater
  <2> QED
    BY <1>3, <2>3, <2>4 DEF Wake
<1>4. CASE Release(q)
  <2> DEFINE s == Released(rsd[holds[q]])
  <2>1. /\ pc[q] = "serving" /\ UNCHANGED <<ask, task>>
        /\ Leave(q, ask[q], holds[q], s)
    BY <1>4 DEF Release, loadVars
  <2>2. holds[q] \in Requests /\ task[holds[q]] # "none" /\ ask[q] \in Asks
    BY <2>1 DEF TableInv, TypeInv, TypeOK, References
  <2>3. /\ s \in Resident
        /\ rsd[holds[q]].state = "LOADING" => s.state = "LOADING"
        /\ Serving(rsd[holds[q]]) => Serving(s)
    BY <2>2, ObjectTypes, ServingObjects DEF TableInv, TypeInv, TypeOK
  <2> HIDE DEF s
  <2>4. GentleTable
    BY <2>1, <2>2, <2>3, LeaveGentle DEF TableInv
  <2>5. \E x \in {"stopping", "streaming", "done"} : pc' = [pc EXCEPT ![q] = x]
    BY <2>1, <2>2, <2>3, LeaveTypes DEF TableInv
  <2> QED
    BY <2>1, <2>4, <2>5, GentleLater
<1>5. CASE EndStop(q) \/ EndStream(q)
  <2>1. GentleTable
    BY <1>5 DEF EndStop, EndStream, tableVars, GentleTable, Gentle, IsServing
  <2>2. \E x \in {"stopping", "streaming", "done", "serving"} : pc' = [pc EXCEPT ![q] = x]
    BY <1>5 DEF EndStop, EndStream, AfterResponse
  <2> QED
    BY <1>5, <2>1, <2>2, GentleLater DEF EndStop, EndStream, loadVars
<1>6. CASE Cancel(q)
  <2>1. /\ pc' = [pc EXCEPT ![q] = "done"] /\ UNCHANGED <<residents, rsd, ask, task>>
        /\ UNCHANGED proc \/ AbandonStop(awaits[q])
    BY <1>6 DEF Cancel, loadVars
  <2>2. GentleTable
    <3>1. CASE UNCHANGED proc
      BY <2>1, <3>1 DEF GentleTable, Gentle, IsServing
    <3>2. CASE AbandonStop(awaits[q])
      BY <2>1, <3>2, AbandonGentle DEF TableInv, TypeInv, TypeOK
    <3> QED
      BY <2>1, <3>1, <3>2
  <2> QED
    BY <2>1, <2>2, GentleLater
<1> QED
  BY <1>1, <1>2, <1>3, <1>4, <1>5, <1>6 DEF RequestStep

\* A queued or evicting load is not in the table yet
LEMMA NotInTable ==
  ASSUME TableInv, NEW t \in Requests, task[t] \notin {"spawning", "ready"}
  PROVE  \A m \in Models : residents[m] # t
BY EntriesHaveLoads, LifecycleAssumption DEF TableInv

\* The placeholder of a load takes the place of what was evicted for it
LEMMA EvictLive ==
  ASSUME TableInv, NEW t \in Requests, task[t] \in {"queued", "evicting"},
         NEW names \in Seq(Models), Evict(t, names), UNCHANGED requestVars
  PROVE  TableIsLive' /\ Untasked'
<1>1. /\ rsd \in [Requests -> Resident] /\ task \in [Requests -> TaskState]
      /\ proc \in [Requests -> ProcState] /\ residents \in [Models -> Opt]
  BY DEF TableInv, TypeInv, TypeOK, TaskState, ProcState
<1>2. UNCHANGED <<ask, pc>> /\ \E x \in TaskState : task' = [task EXCEPT ![t] = x]
  BY DEF requestVars, Evict, TaskState
<1>3. Untasked'
  BY <1>1, <1>2 DEF TableInv, Untasked
<1>4. \A m \in Models : residents[m] # t
  BY NotInTable
<1>5. CASE Awaited(names) # None
  <2>1. Unload(names, rsd)
    BY <1>5 DEF Evict
  <2>2. GentleTable
    BY <1>1, <2>1, SameObjects, UnloadGentleStep DEF TableInv
  <2>3. \A m \in Models : residents[m] # None => task'[residents[m]] = task[residents[m]]
    BY <1>1, <1>2, <1>4, EntriesHaveLoads
  <2> QED
    BY <1>2, <1>3, <2>2, <2>3, GentleLive DEF TableInv
<1>6. CASE Awaited(names) = None
  <2> DEFINE object == Placeholder(EffectiveKeepAlive(ask[t].keepAlive))
  <2>1. /\ residents' = [TableAfter(names) EXCEPT ![ask[t].model] = t]
        /\ rsd' = [RsdAfter(names, rsd) EXCEPT ![t] = object]
        /\ proc' = [proc EXCEPT ![t] = "starting"]
        /\ task' = [task EXCEPT ![t] = "spawning"]
    BY <1>6 DEF Evict
  <2>2. object.state = "LOADING"
    BY DEF Placeholder
  <2> HIDE DEF object
  <2>3. RsdAfter(names, rsd) \in [Requests -> Resident] /\ TableAfter(names) \in [Models -> Opt]
    BY <1>1, UnloadTypes DEF TableInv, TypeInv
  <2>4. rsd'[t].state = "LOADING" /\ task'[t] = "spawning"
    BY <1>1, <2>1, <2>2, <2>3
  <2>5. ASSUME NEW m \in Models, residents'[m] # None PROVE Live(m, residents[m])'
    <3>1. CASE m = ask[t].model
      <4>1. residents'[m] = t
        BY <2>1, <2>3, <3>1
      <4> QED
        BY <1>2, <2>4, <3>1, <4>1 DEF Live
    <3>2. CASE m # ask[t].model
      <4>1. residents'[m] = TableAfter(names)[m]
        BY <2>1, <2>3, <3>2
      <4> DEFINE r == residents[m]
      <4>2. /\ TableAfter(names)[m] = r /\ RsdAfter(names, rsd)[r] = rsd[r]
        BY <1>1, <2>5, <4>1, SameObjects, UnloadGentle DEF TableInv
      <4>3. r # None /\ r # t /\ r \in Requests /\ Live(m, r)
        BY <1>4, <2>5, <4>1, <4>2, EntriesHaveLoads, LiveEntries DEF TableInv
      <4>4. rsd'[r] = rsd[r] /\ task'[r] = task[r] /\ proc'[r] = proc[r] /\ ask'[r] = ask[r]
        BY <1>1, <1>2, <2>1, <2>3, <4>2, <4>3
      <4>5. residents'[m] = r
        BY <4>1, <4>2
      <4> HIDE DEF r
      <4> QED
        BY <4>3, <4>4, <4>5 DEF Live, IsServing
    <3> QED
      BY <3>1, <3>2
  <2>6. TableIsLive'
    BY <2>5 DEF TableIsLive, Live, Present
  <2> QED
    BY <1>3, <2>6
<1> QED
  BY <1>5, <1>6

\* Every step of a load
LEMMA LoadLive ==
  ASSUME TableInv, NEW t \in Requests, LoadStep(t)
  PROVE  TableIsLive' /\ Untasked'
<1>1. /\ rsd \in [Requests -> Resident] /\ task \in [Requests -> TaskState]
      /\ proc \in [Requests -> ProcState] /\ residents \in [Models -> Opt]
  BY DEF TableInv, TypeInv, TypeOK, TaskState, ProcState
\* the load fails before its placeholder is in the table
<1>2. ASSUME task[t] = "queued", task' = [task EXCEPT ![t] = "failed"],
             UNCHANGED <<tableVars, requestVars>>
      PROVE  TableIsLive' /\ Untasked'
  <2>1. GentleTable /\ UNCHANGED <<ask, pc>>
    BY <1>2 DEF tableVars, requestVars, GentleTable, Gentle, IsServing
  <2>2. \A m \in Models : residents[m] # None => task'[residents[m]] = task[residents[m]]
    BY <1>1, <1>2, EntriesHaveLoads
  <2>3. Untasked'
    BY <1>1, <1>2, <2>1 DEF TableInv, Untasked
  <2> QED
    BY <2>1, <2>2, <2>3, GentleLive DEF TableInv
<1>3. CASE RejectLoad(t)
  BY <1>2, <1>3 DEF RejectLoad
<1>4. CASE Admission(t)
  <2>1. task[t] = "queued" /\ UNCHANGED requestVars
    BY <1>4 DEF Admission
  <2>2. PICK plan \in Plans(ask[t].model, Bytes(t), ResidentInfos) :
          \/ Evict(t, plan.evictions)
          \/ task' = [task EXCEPT ![t] = "failed"] /\ UNCHANGED tableVars
    BY <1>4 DEF Admission
  <2>3. plan.evictions \in Seq(Models)
    BY EvictionsType
  <2> QED
    BY <1>2, <2>1, <2>2, <2>3, EvictLive
<1>5. CASE EvictNext(t)
  <2>1. task[t] = "evicting" /\ UNCHANGED requestVars /\ Evict(t, evicting[t].rest)
    BY <1>5 DEF EvictNext
  <2>2. evicting[t].rest \in Seq(Models)
    BY DEF TableInv, TypeInv, TypeOK, Job
  <2> QED
    BY <2>1, <2>2, EvictLive
<1>6. CASE SpawnReady(t)
  <2>1. /\ task[t] = "spawning" /\ task' = [task EXCEPT ![t] = "ready"]
        /\ proc' = [proc EXCEPT ![t] = "up"]
        /\ rsd' = [rsd EXCEPT ![t].state = "READY", ![t].idle = 0]
        /\ UNCHANGED <<residents, ask, pc>>
    BY <1>6 DEF SpawnReady, requestVars
  <2>2. task'[t] = "ready" /\ proc'[t] = "up" /\ rsd'[t].state = "READY"
    BY <1>1, <2>1 DEF Resident
  <2>3. ASSUME NEW m \in Models, residents'[m] # None PROVE Live(m, residents[m])'
    <3>1. Live(m, residents[m]) /\ residents[m] \in Requests
      BY <2>1, <2>3, LiveEntries, EntriesHaveLoads DEF TableInv
    <3>2. CASE residents[m] = t
      BY <2>1, <2>2, <3>1, <3>2 DEF Live, IsServing
    <3>3. CASE residents[m] # t
      BY <1>1, <2>1, <3>1, <3>3 DEF Live, IsServing
    <3> QED
      BY <3>2, <3>3
  <2>4. TableIsLive'
    BY <2>3 DEF TableIsLive, Live, Present
  <2> QED
    BY <1>1, <2>1, <2>4 DEF TableInv, Untasked
<1>7. CASE SpawnFails(t)
  <2>1. PICK end \in {"stopping", "gone"} : proc' = [proc EXCEPT ![t] = end]
    BY <1>7 DEF SpawnFails
  <2>2. proc[t] = "starting" /\ UNCHANGED <<residents, rsd, ask, task, pc>>
    BY <1>7 DEF SpawnFails, loadVars, requestVars
  <2>3. GentleTable
    BY <1>1, <2>1, <2>2 DEF GentleTable, Gentle, IsServing
  <2> QED
    BY <2>2, <2>3, GentleStep
<1>8. CASE LoadFails(t)
  <2>1. /\ task[t] = "spawning" /\ task' = [task EXCEPT ![t] = "failed"]
        /\ residents' = [residents EXCEPT ![ask[t].model] = None]
        /\ UNCHANGED <<rsd, proc, ask, pc>>
    BY <1>8 DEF LoadFails, ReservationDropped, requestVars
  <2>2. ASSUME NEW m \in Models, residents'[m] # None PROVE Live(m, residents[m])'
    <3>1. residents'[m] = residents[m] /\ m # ask[t].model
      BY <1>1, <2>1, <2>2
    <3>2. Live(m, residents[m]) /\ residents[m] # t /\ residents[m] \in Requests
      BY <2>2, <3>1, LiveEntries, EntriesHaveLoads DEF TableInv, Live
    <3> QED
      BY <1>1, <2>1, <3>1, <3>2 DEF Live, IsServing
  <2>3. TableIsLive'
    BY <2>2 DEF TableIsLive, Live, Present
  <2> QED
    BY <1>1, <2>1, <2>3 DEF TableInv, Untasked
<1> QED
  BY <1>3, <1>4, <1>5, <1>6, <1>7, <1>8 DEF LoadStep

\* The sweep and the shutdown unload names, whatever they have become
LEMMA UnloadNamesLive ==
  ASSUME TableInv, NEW names \in Seq(Models), Unload(names, rsd),
         UNCHANGED <<loadVars, requestVars>>
  PROVE  TableIsLive' /\ Untasked'
<1>1. rsd \in [Requests -> Resident]
  BY DEF TableInv, TypeInv, TypeOK
<1>2. GentleTable
  BY <1>1, SameObjects, UnloadGentleStep DEF TableInv
<1> QED
  BY <1>2, GentleStep DEF loadVars, requestVars

\* The cancellation of a load by the shutdown
LEMMA CancelLoadLive ==
  ASSUME TableInv, NEW t \in Requests, CancelLoad(t)
  PROVE  TableIsLive' /\ Untasked'
<1>1. /\ rsd \in [Requests -> Resident] /\ task \in [Requests -> TaskState]
      /\ proc \in [Requests -> ProcState] /\ residents \in [Models -> Opt]
      /\ evicting[t].victim \in Opt /\ t \in Opt
  BY DEF TableInv, TypeInv, TypeOK, TaskState, ProcState, Job, Opt
<1>2. Pending(t) /\ UNCHANGED <<rsd, ask, pc>>
  BY DEF CancelLoad, requestVars
<1>3. CASE /\ proc[t] = "starting" /\ proc' = [proc EXCEPT ![t] = "stopping"]
           /\ UNCHANGED <<residents, task>>
  <2>1. GentleTable
    BY <1>1, <1>2, <1>3 DEF GentleTable, Gentle, IsServing
  <2> QED
    BY <1>2, <1>3, <2>1, GentleStep
<1>4. CASE /\ task[t] = "spawning" /\ AbandonStop(t)
           /\ residents' = [residents EXCEPT ![ask[t].model] = None]
           /\ task' = [task EXCEPT ![t] = "failed"]
  <2>1. ASSUME NEW m \in Models, residents'[m] # None
        PROVE  residents'[m] = residents[m] /\ residents[m] # t
    <3>1. residents'[m] = residents[m] /\ m # ask[t].model
      BY <1>1, <1>4, <2>1
    <3> QED
      BY <2>1, <3>1, LiveEntries DEF TableInv, Live
  <2>2. GentleTable
    BY <1>1, <1>2, <1>4, <2>1, AbandonGentle DEF TableInv
  <2>3. ASSUME NEW m \in Models, residents'[m] # None PROVE Live(m, residents[m])'
    <3>1. /\ residents'[m] = residents[m] /\ residents[m] # t
          /\ Live(m, residents[m]) /\ residents[m] \in Requests /\ Gentle(residents[m])
      BY <2>1, <2>2, <2>3, LiveEntries, EntriesHaveLoads DEF TableInv, GentleTable
    <3>2. task'[residents[m]] = task[residents[m]] /\ ask'[residents[m]] = ask[residents[m]]
      BY <1>1, <1>2, <1>4, <3>1
    <3> QED
      BY <3>1, <3>2 DEF Live, Gentle
  <2>4. TableIsLive'
    BY <2>3 DEF TableIsLive, Live, Present
  <2> QED
    BY <1>1, <1>2, <1>4, <2>4 DEF TableInv, Untasked
<1>5. CASE /\ task[t] \in {"queued", "evicting"}
           /\ AbandonStop(evicting[t].victim)
           /\ task' = [task EXCEPT ![t] = "failed"]
           /\ UNCHANGED residents
  <2>1. GentleTable
    BY <1>1, <1>2, <1>5, AbandonGentle DEF TableInv
  <2>2. \A m \in Models : residents[m] # None => task'[residents[m]] = task[residents[m]]
    BY <1>1, <1>5, EntriesHaveLoads
  <2>3. Untasked'
    BY <1>1, <1>2, <1>5 DEF TableInv, Untasked
  <2> QED
    BY <1>2, <2>1, <2>2, <2>3, GentleLive DEF TableInv
<1> QED
  BY <1>3, <1>4, <1>5 DEF CancelLoad, ReservationDropped

\* The sweep, time and the stop of the service
LEMMA ServiceLive ==
  ASSUME TableInv, ServiceStep
  PROVE  TableIsLive' /\ Untasked'
<1>1. /\ rsd \in [Requests -> Resident] /\ residents \in [Models -> Opt]
      /\ sweeper \in Job /\ closing \in Job
  BY DEF TableInv, TypeInv, TypeOK
<1>2. CASE SweepStart
  <2>1. PICK names \in SetToSeqs(Due) : Sweep(names)
    BY <1>2 DEF SweepStart
  <2>2. Due \in SUBSET Models
    BY DEF Due, Present
  <2> HIDE DEF Due
  <2>3. names \in Seq(Models)
    BY <2>2, SequencesOfSets
  <2> QED
    BY <2>1, <2>3, UnloadNamesLive DEF Sweep
<1>3. CASE SweepNext
  <2>1. sweeper.rest \in Seq(Models)
    BY <1>1 DEF Job
  <2> QED
    BY <1>3, <2>1, UnloadNamesLive DEF SweepNext, Sweep
<1>4. CASE Tick
  <2>1. /\ \A r \in Requests : rsd'[r].state = rsd[r].state
        /\ UNCHANGED <<residents, proc, ask, task, pc>>
    BY <1>1, <1>4 DEF Tick, loadVars, requestVars, Resident
  <2>2. GentleTable
    BY <1>1, <2>1 DEF GentleTable, Gentle, IsServing, Opt
  <2> QED
    BY <2>1, <2>2, GentleStep
<1>5. CASE StopService
  <2>1. AbandonStop(sweeper.victim) /\ UNCHANGED <<residents, rsd, ask, task, pc>>
    BY <1>5 DEF StopService, loadVars, requestVars
  <2>2. GentleTable
    BY <1>1, <2>1, AbandonGentle DEF TableInv, Job
  <2> QED
    BY <2>1, <2>2, GentleStep
<1>6. CASE CloseStart
  <2>1. PICK names \in SetToSeqs(Present) : Close(names)
    BY <1>6 DEF CloseStart
  <2>2. Present \in SUBSET Models
    BY DEF Present
  <2> HIDE DEF Present
  <2>3. names \in Seq(Models)
    BY <2>2, SequencesOfSets
  <2> QED
    BY <2>1, <2>3, UnloadNamesLive DEF Close
<1>7. CASE CloseNext
  <2>1. closing.rest \in Seq(Models)
    BY <1>1 DEF Job
  <2> QED
    BY <1>7, <2>1, UnloadNamesLive DEF CloseNext, Close
<1> QED
  BY <1>2, <1>3, <1>4, <1>5, <1>6, <1>7, CancelLoadLive DEF ServiceStep

\* Every step: TableInv is inductive
LEMMA NextLive ==
  ASSUME TableInv, [Next]_vars
  PROVE  TableInv'
<1>1. TypeInv'
  BY NextTypes DEF TableInv
<1>2. ASSUME NEW r \in Requests, Exit(r) PROVE TableIsLive' /\ Untasked'
  <2>1. GentleTable /\ UNCHANGED <<ask, task, pc>>
    BY <1>2 DEF Exit, loadVars, requestVars, GentleTable, Gentle, IsServing, TableInv,
                TypeInv, TypeOK
  <2> QED
    BY <2>1, GentleStep
<1>3. ASSUME UNCHANGED <<tableVars, task, ask, pc>> PROVE TableIsLive' /\ Untasked'
  <2>1. GentleTable
    BY <1>3 DEF tableVars, GentleTable, Gentle, IsServing
  <2> QED
    BY <1>3, <2>1, GentleStep
<1>4. ASSUME NEW m \in Models, Callback(m) PROVE TableIsLive' /\ Untasked'
  BY <1>3, <1>4 DEF Callback, requestVars
<1>5. CASE UNCHANGED vars
  BY <1>1, <1>3, <1>5 DEF vars, loadVars, requestVars, TableInv
<1> QED
  BY <1>1, <1>2, <1>4, <1>5, RequestLive, LoadLive, ServiceLive DEF Next, TableInv

\* TableInv holds in every reachable state
LEMMA TableInvariant == Spec => []TableInv
<1>1. Init => TableInv
  BY InitTypes DEF Init, TableInv, Untasked, TableIsLive, Present
<1>2. TableInv /\ [Next]_vars => TableInv'
  BY NextLive
<1> QED
  BY <1>1, <1>2, PTL DEF Spec

(***************************************************************************)
(* Every entry of the table is a reservation whose load is running, or a   *)
(* model whose llama-server is up and that nobody is stopping: requests    *)
(* never find a dying instance there, and no failure leaves a reservation. *)
(***************************************************************************)
THEOREM TableIsAlwaysLive == Spec => []TableIsLive
<1>1. TableInv => TableIsLive
  BY DEF TableInv
<1> QED
  BY <1>1, TableInvariant, PTL

----------------------------------------------------------------------------
(* The capacity                                                            *)

\* what the scheduler sees of an entry, as far as memory goes
Holding(m) == [name |-> m, bytes |-> Bytes(residents[m])]
Holdings(S) == {Holding(m) : m \in S}

Among(names) == {names[i] : i \in 1 .. Len(names)}

\* the load t fits next to the entries S
Room(t, S) ==
  /\ Budget > 0 => Used(Holdings(S)) + Bytes(t) <= Budget
  /\ Cardinality(S) < MaxLoaded

(***************************************************************************)
(* What makes WithinCapacity inductive: while a load executes its plan, it *)
(* holds the lock, it fits next to what is not left to evict, and there is *)
(* nothing in the table under its name.                                    *)
(***************************************************************************)
Capacity ==
  /\ Budget > 0 => Used(Holdings(Present)) <= Budget
  /\ Cardinality(Present) <= MaxLoaded
Admitting ==
  \A t \in Requests : task[t] = "evicting" =>
    lock = t /\ Room(t, Present \ Among(evicting[t].rest))
Absent == \A t \in Requests : task[t] \in {"queued", "evicting"} => residents[ask[t].model] = None

CapacityInv == TableInv /\ SingleFlight /\ Capacity /\ Admitting /\ Absent

----------------------------------------------------------------------------
(* What entries hold                                                       *)

\* A load that exists has a size
LEMMA BytesType ==
  ASSUME TypeInv, NEW t \in Requests, task[t] # "none"
  PROVE  Bytes(t) \in Nat /\ ask[t].model \in Models
<1>1. ask[t] \in Asks
  BY DEF TypeInv, TypeOK, References
<1>2. ask[t].model \in Models /\ ask[t].runtime \in Runtimes
  BY <1>1, AskTypes
<1>3. Estimate \in [Models -> [Runtimes -> Nat]]
  BY LifecycleAssumption
<1> QED
  BY <1>2, <1>3 DEF Bytes

\* The holdings of some entries are residents in the sense of the scheduler
LEMMA HoldingsFacts ==
  ASSUME TypeInv, NEW S \in SUBSET Present
  PROVE  /\ Residents(Holdings(S))
         /\ Used(Holdings(S)) \in Nat
         /\ Cardinality(Holdings(S)) = Cardinality(S)
         /\ Cardinality(S) \in Nat
         /\ IsFiniteSet(S)
<1>1. IsFiniteSet(S)
  BY ResidentInfosFinite, FS_Subset
<1> DEFINE f == [m \in S |-> Holding(m)]
<1>2. f \in Bijection(S, Holdings(S))
  <2>1. f \in [S -> Holdings(S)]
    BY DEF Holdings
  <2>2. \A m, n \in S : f[m] = f[n] => m = n
    BY DEF Holding
  <2>3. \A h \in Holdings(S) : \E m \in S : f[m] = h
    BY DEF Holdings
  <2> QED
    BY <2>1, <2>2, <2>3 DEF Bijection, Injection, Surjection, IsInjective
<1>3. IsFiniteSet(Holdings(S)) /\ Cardinality(Holdings(S)) = Cardinality(S)
  BY <1>1, <1>2, FS_Bijection DEF ExistsBijection
<1>4. \A m \in S : Bytes(residents[m]) \in Nat
  BY BytesType DEF Present, TypeInv, TypeOK, References, Opt
<1>5. Residents(Holdings(S))
  BY <1>3, <1>4 DEF Residents, Holdings, Holding
<1> QED
  BY <1>1, <1>3, <1>5, OccupiedFinite, FS_CardinalityType

\* The scheduler is shown the same memory, and as many entries
LEMMA InfosFacts ==
  ASSUME TypeInv, NEW S \in SUBSET Present
  PROVE  LET I == {ResidentInfo(m) : m \in S}
         IN  /\ Residents(I)
             /\ Used(I) = Used(Holdings(S))
             /\ Cardinality(I) = Cardinality(S)
<1> DEFINE I == {ResidentInfo(m) : m \in S}
           f == [m \in S |-> ResidentInfo(m)]
<1>1. IsFiniteSet(S)
  BY HoldingsFacts
<1>2. \A m \in S : ResidentInfo(m).name = m /\ ResidentInfo(m).bytes = Bytes(residents[m])
  BY DEF ResidentInfo
<1>3. f \in Bijection(S, I)
  <2>1. f \in [S -> I]
    OBVIOUS
  <2>2. \A m, n \in S : f[m] = f[n] => m = n
    BY <1>2
  <2>3. \A h \in I : \E m \in S : f[m] = h
    OBVIOUS
  <2> QED
    BY <2>1, <2>2, <2>3 DEF Bijection, Injection, Surjection, IsInjective
<1>4. IsFiniteSet(I) /\ Cardinality(I) = Cardinality(S)
  BY <1>1, <1>3, FS_Bijection DEF ExistsBijection
<1>5. \A m \in S : Bytes(residents[m]) \in Nat
  BY BytesType DEF Present, TypeInv, TypeOK, References, Opt
<1>6. Residents(I)
  BY <1>2, <1>4, <1>5 DEF Residents
<1>7. Occupied(I) = Occupied(Holdings(S))
  <2>1. {{r.name} \X (1 .. r.bytes) : r \in I} = {{m} \X (1 .. Bytes(residents[m])) : m \in S}
    BY <1>2
  <2>2. {{r.name} \X (1 .. r.bytes) : r \in Holdings(S)} =
          {{m} \X (1 .. Bytes(residents[m])) : m \in S}
    <3>1. \A m \in S : Holding(m).name = m /\ Holding(m).bytes = Bytes(residents[m])
      BY DEF Holding
    <3> QED
      BY <3>1 DEF Holdings
  <2> QED
    BY <2>1, <2>2 DEF Occupied
<1> QED
  BY <1>4, <1>6, <1>7 DEF Used
\* Fewer entries hold no more memory
LEMMA FewerHoldings ==
  ASSUME TypeInv, NEW S \in SUBSET Present, NEW T \in SUBSET S
  PROVE  /\ Used(Holdings(T)) \in Nat /\ Used(Holdings(S)) \in Nat
         /\ Used(Holdings(T)) =< Used(Holdings(S))
         /\ Cardinality(T) \in Nat /\ Cardinality(S) \in Nat
         /\ Cardinality(T) =< Cardinality(S)
<1>1. Holdings(T) \subseteq Holdings(S) /\ T \in SUBSET Present
  BY DEF Holdings
<1>2. Residents(Holdings(S)) /\ Used(Holdings(S)) \in Nat
      /\ Cardinality(S) \in Nat /\ IsFiniteSet(S)
  BY HoldingsFacts
<1>3. Cardinality(T) \in Nat
  BY <1>1, HoldingsFacts
<1>4. Used(Holdings(T)) \in Nat /\ Used(Holdings(T)) =< Used(Holdings(S))
  BY <1>1, <1>2, UsedMonotone
<1>5. Cardinality(T) =< Cardinality(S)
  BY <1>2, FS_Subset
<1> QED
  BY <1>2, <1>3, <1>4, <1>5

----------------------------------------------------------------------------
(* Steps that add nothing to the table                                     *)

Shrinks == \A m \in Models : residents'[m] # None => residents'[m] = residents[m]

\* Entries are only removed, and no load is admitted
Calm ==
  /\ Shrinks
  /\ \A t \in Requests : task[t] # "none" => ask'[t] = ask[t]
  /\ \A t \in Requests : task'[t] = "evicting" =>
       task[t] = "evicting" /\ evicting'[t] = evicting[t] /\ (lock = t => lock' = t)
  /\ \A t \in Requests : task'[t] = "queued" =>
       task[t] = "queued" \/ residents[ask'[t].model] = None
  /\ \A t \in Requests : task'[t] = "spawning" => task[t] = "spawning"

\* An entry that stays holds what it held
LEMMA StayingHoldings ==
  ASSUME TypeInv, TypeInv', Shrinks,
         \A t \in Requests : task[t] # "none" => ask'[t] = ask[t]
  PROVE  /\ Present' \subseteq Present
         /\ \A m \in Present' : Holding(m)' = Holding(m)
<1>1. residents \in [Models -> Opt]
  BY DEF TypeInv, TypeOK
<1>2. Present' \subseteq Present
  BY DEF Present, Shrinks
<1>3. ASSUME NEW m \in Present' PROVE Holding(m)' = Holding(m)
  <2>1. residents'[m] = residents[m] /\ residents[m] \in Requests /\ task[residents[m]] # "none"
    BY <1>1, <1>3 DEF Present, Shrinks, Opt, TypeInv, References
  <2>2. ask'[residents'[m]] = ask[residents[m]]
    BY <2>1
  <2> QED
    BY <2>1, <2>2 DEF Holding, Bytes
<1> QED
  BY <1>2, <1>3

\* A calm step keeps the table within its capacity
LEMMA CalmStep ==
  ASSUME CapacityInv, TypeInv', Calm
  PROVE  Capacity' /\ Admitting' /\ Absent'
<1>1. TypeInv
  BY DEF CapacityInv, TableInv
<1>2. Present' \subseteq Present /\ \A m \in Present' : Holding(m)' = Holding(m)
  BY <1>1, StayingHoldings DEF Calm
<1>3. Holdings(Present)' = Holdings(Present')
  BY <1>2 DEF Holdings
<1>4. Capacity'
  <2>1. /\ Used(Holdings(Present')) \in Nat /\ Used(Holdings(Present)) \in Nat
        /\ Used(Holdings(Present')) =< Used(Holdings(Present))
        /\ Cardinality(Present') \in Nat /\ Cardinality(Present) \in Nat
        /\ Cardinality(Present') =< Cardinality(Present)
    BY <1>1, <1>2, FewerHoldings
  <2>2. Used(Holdings(Present))' = Used(Holdings(Present'))
    BY <1>3
  <2> QED
    BY <2>1, <2>2, SchedulerAssumption DEF Capacity, CapacityInv
<1>5. ASSUME NEW t \in Requests, task'[t] = "evicting"
      PROVE  lock' = t /\ Room(t, Present \ Among(evicting[t].rest))'
  <2>1. task[t] = "evicting" /\ evicting'[t] = evicting[t] /\ lock' = t
    BY <1>5 DEF Calm, CapacityInv, Admitting
  <2> DEFINE S == Present \ Among(evicting[t].rest)
             T == Present' \ Among(evicting[t].rest)
  <2>2. Room(t, S)
    BY <2>1 DEF CapacityInv, Admitting
  <2>3. /\ Used(Holdings(T)) \in Nat /\ Used(Holdings(S)) \in Nat
        /\ Used(Holdings(T)) =< Used(Holdings(S))
        /\ Cardinality(T) \in Nat /\ Cardinality(S) \in Nat
        /\ Cardinality(T) =< Cardinality(S)
    BY <1>1, <1>2, FewerHoldings
  <2>4. S' = T
    BY <2>1 DEF Among
  <2>5. Holdings(S)' = Holdings(T)
    BY <1>2, <2>4 DEF Holdings
  <2>6. Bytes(t) \in Nat /\ Bytes(t)' = Bytes(t)
    BY <1>1, <2>1, BytesType DEF Bytes, Calm
  <2>7. Room(t, S)' <=> /\ Budget > 0 => Used(Holdings(T)) + Bytes(t) <= Budget
                        /\ Cardinality(T) < MaxLoaded
    BY <2>4, <2>5, <2>6 DEF Room
  <2>8. Room(t, S)'
    <3> HIDE DEF S, T
    <3> QED
      BY <2>2, <2>3, <2>6, <2>7, SchedulerAssumption DEF Room
  <2> QED
    BY <2>1, <2>8
<1>6. Admitting'
  BY <1>5 DEF Admitting
<1>7. ASSUME NEW t \in Requests, task'[t] \in {"queued", "evicting"}
      PROVE  residents'[ask'[t].model] = None
  <2>1. residents[ask'[t].model] = None
    BY <1>7 DEF CapacityInv, Absent, Calm
  <2>2. ask'[t].model \in Models
    BY <1>7, AskTypes DEF TypeInv, TypeOK, References
  <2> QED
    BY <2>1, <2>2 DEF Calm, Shrinks
<1>8. Absent'
  BY <1>7 DEF Absent
<1> QED
  BY <1>4, <1>6, <1>8

----------------------------------------------------------------------------
(* The calm actions                                                        *)

\* Unloading only removes entries
LEMMA UnloadShrinks ==
  ASSUME NEW names, NEW objects, Unload(names, objects)
  PROVE  Shrinks
BY DEF Unload, TableAfter, Shrinks

\* So does a request that enters acquire, or leaves it
LEMMA EnterShrinks ==
  ASSUME NEW q, NEW a, NEW r, NEW s, Enter(q, a, r) \/ Leave(q, a, r, s)
  PROVE  Shrinks
<1>1. ASSUME NEW x, Leave(q, a, r, x) PROVE Shrinks
  BY <1>1, UnloadShrinks DEF Leave
<1>2. CASE UNCHANGED residents
  BY <1>2 DEF Shrinks
<1> QED
  BY <1>1, <1>2 DEF Enter

\* what is left to say of a step that leaves the loads alone
LEMMA CalmLoads ==
  ASSUME Shrinks, UNCHANGED loadVars,
         \A t \in Requests : task[t] # "none" => ask'[t] = ask[t]
  PROVE  Calm
BY DEF Calm, loadVars

\* or of a step that ends loads
LEMMA CalmEnd ==
  ASSUME TypeInv, Shrinks, UNCHANGED ask, NEW t \in Requests, NEW x \in {"failed", "ready"},
         task' = [task EXCEPT ![t] = x],
         \A u \in Requests \ {t} : evicting'[u] = evicting[u] /\ (lock = u => lock' = u)
  PROVE  Calm
BY DEF Calm, TypeInv, TypeOK

\* A load starts only when the table has nothing under its name
LEMMA EnsureReadyCalm ==
  ASSUME CapacityInv, NEW q \in Requests, NEW a \in Asks, EnsureReady(q, a),
         pc[q] \in {"new", "reloading"}, ask' = [ask EXCEPT ![q] = a]
  PROVE  Calm
<1> USE DEF CapacityInv, TableInv
<1>1. task[q] = "none" /\ ask'[q] = a /\ a.model \in Models
  BY AskTypes DEF Untasked, TypeInv, TypeOK
<1>2. \A t \in Requests : task[t] # "none" => ask'[t] = ask[t]
  BY <1>1 DEF TypeInv, TypeOK
<1>3. CASE Reuse(q, a)
  BY <1>2, <1>3, EnterShrinks, CalmLoads DEF Reuse
<1>4. CASE Reload(q, a)
  BY <1>2, <1>4, UnloadShrinks, CalmLoads DEF Reload
<1>5. CASE JoinLoad(q, a)
  <2>1. Shrinks
    BY <1>5 DEF JoinLoad, tableVars, Shrinks
  <2> QED
    BY <1>2, <1>5, <2>1, CalmLoads DEF JoinLoad
<1>6. CASE StartLoad(q, a)
  <2>1. /\ task' = [task EXCEPT ![q] = "queued"]
        /\ UNCHANGED <<residents, evicting, lock>>
        /\ loading[a.model] = None /\ ~HasServing(a.model)
    BY <1>6 DEF StartLoad, tableVars
  <2>2. residents[a.model] = None
    <3> SUFFICES ASSUME residents[a.model] # None PROVE FALSE
      OBVIOUS
    <3> DEFINE r == residents[a.model]
    <3>1. r \in Requests /\ Live(a.model, r)
      BY <1>1, EntriesHaveLoads, LiveEntries
    <3>2. task[r] = "spawning" /\ ask[r].model = a.model
      BY <2>1, <3>1 DEF Live, HasServing
    <3>3. loading[a.model] = r
      BY <3>1, <3>2 DEF SingleFlight, Pending
    <3> QED
      BY <2>1, <3>1, <3>3, LifecycleAssumption
  <2>3. Shrinks
    BY <2>1 DEF Shrinks
  <2> QED
    BY <1>1, <1>2, <2>1, <2>2, <2>3 DEF Calm, TypeInv, TypeOK
<1> QED
  BY <1>3, <1>4, <1>5, <1>6 DEF EnsureReady

\* Every step of a request is calm
LEMMA RequestCalm ==
  ASSUME CapacityInv, NEW q \in Requests, RequestStep(q)
  PROVE  Calm
<1>1. TypeInv
  BY DEF CapacityInv, TableInv
<1>2. CASE Begin(q)
  <2>1. PICK a \in Asks :
          /\ ask' = [ask EXCEPT ![q] = a]
          /\ IF a.kind = "unload" THEN UnloadRequest(q, a) ELSE EnsureReady(q, a)
    BY <1>2 DEF Begin
  <2>2. pc[q] = "new" /\ task[q] = "none"
    BY <1>1, <1>2 DEF Begin, TypeInv, References
  <2>3. CASE a.kind = "unload"
    <3>1. \A t \in Requests : task[t] # "none" => ask'[t] = ask[t]
      BY <1>1, <2>1, <2>2 DEF TypeInv, TypeOK
    <3> QED
      BY <2>1, <2>3, <3>1, UnloadShrinks, CalmLoads DEF UnloadRequest
  <2> QED
    BY <2>1, <2>2, <2>3, EnsureReadyCalm
<1>3. CASE Resume(q)
  <2> DEFINE a == ask[q]
  <2>1. EnsureReady(q, a) /\ pc[q] = "reloading"
    BY <1>3 DEF Resume
  <2>2. a \in Asks /\ ask' = [ask EXCEPT ![q] = a]
    BY <1>1, <1>3, AskStays DEF Resume
  <2> HIDE DEF a
  <2> QED
    BY <2>1, <2>2, EnsureReadyCalm
<1>4. CASE Wake(q) \/ Release(q) \/ EndStop(q) \/ EndStream(q) \/ Cancel(q)
  <2>1. UNCHANGED <<ask, loadVars>>
    BY <1>4 DEF Wake, Release, EndStop, EndStream, Cancel
  <2>2. CASE UNCHANGED residents
    BY <2>1, <2>2, CalmLoads DEF Shrinks
  <2>3. CASE Enter(q, ask[q], holds[q]) \/ \E s : Leave(q, ask[q], holds[q], s)
    BY <2>1, <2>3, EnterShrinks, CalmLoads
  <2> QED
    BY <1>4, <2>2, <2>3 DEF Wake, Release, EndStop, EndStream, Cancel, tableVars
<1> QED
  BY <1>2, <1>3, <1>4 DEF RequestStep

\* A load that is refused, that becomes ready or that fails
LEMMA LoadCalm ==
  ASSUME CapacityInv, NEW t \in Requests,
         RejectLoad(t) \/ SpawnReady(t) \/ SpawnFails(t) \/ LoadFails(t)
  PROVE  Calm
<1>1. TypeInv
  BY DEF CapacityInv, TableInv
<1>2. Shrinks
  BY <1>1 DEF RejectLoad, SpawnReady, SpawnFails, LoadFails, ReservationDropped, tableVars,
              Shrinks, TypeInv, TypeOK
<1>3. CASE SpawnFails(t)
  BY <1>2, <1>3, CalmLoads DEF SpawnFails, requestVars
<1>4. CASE RejectLoad(t) \/ SpawnReady(t) \/ LoadFails(t)
  <2>1. PICK x \in {"failed", "ready"} : task' = [task EXCEPT ![t] = x]
    BY <1>4 DEF RejectLoad, SpawnReady, LoadFails
  <2>2. UNCHANGED <<ask, evicting, lock>>
    BY <1>4 DEF RejectLoad, SpawnReady, LoadFails, requestVars
  <2> QED
    BY <1>1, <1>2, <2>1, <2>2, CalmEnd
<1> QED
  BY <1>3, <1>4

\* The sweep, time and the stop of the service
LEMMA ServiceCalm ==
  ASSUME CapacityInv, ServiceStep
  PROVE  Calm
<1>1. TypeInv
  BY DEF CapacityInv, TableInv
<1>2. CASE SweepStart \/ SweepNext \/ Tick \/ StopService \/ CloseStart \/ CloseNext
  <2>1. UNCHANGED <<loadVars, ask>>
    BY <1>2 DEF SweepStart, SweepNext, Sweep, Tick, StopService, CloseStart, CloseNext, Close,
                requestVars
  <2>2. UNCHANGED residents \/ \E names : Unload(names, rsd)
    BY <1>2 DEF SweepStart, SweepNext, Sweep, Tick, StopService, CloseStart, CloseNext, Close
  <2>3. Shrinks
    BY <2>2, UnloadShrinks DEF Shrinks
  <2> QED
    BY <2>1, <2>3, CalmLoads
<1>3. ASSUME NEW t \in Requests, CancelLoad(t) PROVE Calm
  <2>1. UNCHANGED ask
    BY <1>3 DEF CancelLoad, requestVars
  <2>2. Shrinks
    BY <1>1, <1>3 DEF CancelLoad, ReservationDropped, Shrinks, TypeInv, TypeOK
  <2>3. CASE UNCHANGED loadVars
    BY <2>1, <2>2, <2>3, CalmLoads
  <2>4. CASE /\ task' = [task EXCEPT ![t] = "failed"]
             /\ \A u \in Requests \ {t} : evicting'[u] = evicting[u] /\ (lock = u => lock' = u)
    BY <1>1, <2>1, <2>2, <2>4, CalmEnd
  <2>5. \/ UNCHANGED loadVars
        \/ /\ task' = [task EXCEPT ![t] = "failed"]
           /\ \A u \in Requests \ {t} : evicting'[u] = evicting[u] /\ (lock = u => lock' = u)
    BY <1>1, <1>3 DEF CancelLoad, loadVars, TypeInv, TypeOK
  <2> QED
    BY <2>3, <2>4, <2>5
<1> QED
  BY <1>2, <1>3 DEF ServiceStep

----------------------------------------------------------------------------
(* Evictions, and the reservation                                          *)

\* The evictions that remain after an await make the room that is still missing
LEMMA RemainingRoom ==
  ASSUME TypeInv, NEW names \in Seq(Models)
  PROVE  {m \in Present : TableAfter(names)[m] # None} \ Among(Remaining(names))
           \subseteq Present \ Among(names)
<1> SUFFICES ASSUME NEW m \in Present, TableAfter(names)[m] # None,
                    m \notin Among(Remaining(names)), NEW i \in 1 .. Len(names), names[i] = m
             PROVE  FALSE
  BY DEF Among
<1>1. m \in Models /\ m \notin Popped(names)
  BY DEF Present, TableAfter
<1>2. Passed(names) \in 0 .. Len(names) /\ Len(names) \in Nat
  BY PassedRange
<1>3. CASE i <= Passed(names)
  BY <1>1, <1>2, <1>3 DEF Popped
<1>4. CASE i > Passed(names)
  <2> DEFINE p == Passed(names)
             j == i - p
  <2>1. /\ Len(Remaining(names)) = Len(names) - p
        /\ \A k \in 1 .. (Len(names) - p) : Remaining(names)[k] = names[p + k]
    BY <1>2, SubSeqProperties, SMTT(20) DEF Remaining
  <2>2. j \in 1 .. (Len(names) - p) /\ p + j = i
    BY <1>2, <1>4
  <2>3. Remaining(names)[j] = m
    BY <2>1, <2>2
  <2> QED
    BY <2>1, <2>2, <2>3 DEF Among
<1> QED
  BY <1>2, <1>3, <1>4

\* When nothing is left to await, all the evictions are done
LEMMA AllEvicted ==
  ASSUME TypeInv, NEW names \in Seq(Models), Awaited(names) = None
  PROVE  \A m \in Models : TableAfter(names)[m] = IF m \in Among(names) THEN None ELSE residents[m]
<1>1. Blocking(names) = {}
  <2>1. Blocking(names) # {} => Awaited(names) # None
    BY PassedRange DEF Awaited, Blocking
  <2> QED
    BY <2>1
<1>2. Passed(names) = Len(names)
  BY <1>1 DEF Passed
<1>3. Popped(names) = Among(names) \cap Present
  BY <1>2 DEF Popped, Among
<1> QED
  BY <1>3 DEF TableAfter, Present

\* A load whose plan makes room for it keeps the table within its capacity
LEMMA EvictCapacity ==
  ASSUME CapacityInv, TypeInv', NEW t \in Requests, task[t] \in {"queued", "evicting"},
         lock \in {None, t}, NEW names \in Seq(Models), Room(t, Present \ Among(names)),
         Evict(t, names), UNCHANGED requestVars
  PROVE  Capacity' /\ Admitting' /\ Absent'
<1>1. /\ TypeInv /\ task \in [Requests -> TaskState] /\ evicting \in [Requests -> Job]
      /\ residents \in [Models -> Opt] /\ None \notin Requests
  BY LifecycleAssumption DEF CapacityInv, TableInv, TypeInv, TypeOK, TaskState
<1>2. UNCHANGED ask
  BY DEF requestVars
\* the lock keeps the other loads out
<1>3. \A u \in Requests \ {t} : task[u] # "evicting"
  BY <1>1 DEF CapacityInv, Admitting
<1>4. \A u \in Requests \ {t} : task'[u] = task[u]
  BY <1>1 DEF Evict
<1>5. CASE Awaited(names) # None
  <2> DEFINE S == Present \ Among(names)
             T == Present' \ Among(Remaining(names))
  <2>1. /\ residents' = TableAfter(names) /\ lock' = t /\ evicting'[t].rest = Remaining(names)
        /\ task'[t] = "evicting"
    BY <1>1, <1>5 DEF Evict, Unload, JobAfter
  <2>2. Shrinks
    BY <1>5, UnloadShrinks DEF Evict
  <2>3. Present' \subseteq Present /\ \A m \in Present' : Holding(m)' = Holding(m)
    BY <1>1, <1>2, <2>2, StayingHoldings
  <2>4. Present' = {m \in Present : TableAfter(names)[m] # None}
    BY <2>1, <2>3 DEF Present
  <2>5. T \subseteq S
    BY <1>1, <2>4, RemainingRoom
  <2>6. /\ Used(Holdings(T)) \in Nat /\ Used(Holdings(S)) \in Nat
        /\ Used(Holdings(T)) =< Used(Holdings(S))
        /\ Cardinality(T) \in Nat /\ Cardinality(S) \in Nat
        /\ Cardinality(T) =< Cardinality(S)
    BY <1>1, <2>5, FewerHoldings
  <2>7. (Present \ Among(evicting[t].rest))' = T
    BY <2>1 DEF Among
  <2>8. Holdings(Present \ Among(evicting[t].rest))' = Holdings(T)
    BY <2>3, <2>7 DEF Holdings
  <2>9. Bytes(t) \in Nat /\ Bytes(t)' = Bytes(t)
    BY <1>1, <1>2, BytesType DEF Bytes
  <2>10. Room(t, Present \ Among(evicting[t].rest))' <=>
           /\ Budget > 0 => Used(Holdings(T)) + Bytes(t) <= Budget
           /\ Cardinality(T) < MaxLoaded
    BY <2>7, <2>8, <2>9 DEF Room
  <2>11. Room(t, Present \ Among(evicting[t].rest))'
    <3> HIDE DEF S, T
    <3>1. Room(t, S)
      BY DEF S
    <3> QED
      BY <2>6, <2>9, <2>10, <3>1, SchedulerAssumption DEF Room
  <2>12. Admitting'
    BY <1>3, <1>4, <2>1, <2>11 DEF Admitting
  <2>13. Absent'
    BY <1>1, <1>2, <1>4, <2>2, AskTypes
       DEF Absent, CapacityInv, Shrinks, TypeInv, TypeOK, References
  <2>14. Capacity'
    <3>1. /\ Used(Holdings(Present')) \in Nat /\ Used(Holdings(Present)) \in Nat
          /\ Used(Holdings(Present')) =< Used(Holdings(Present))
          /\ Cardinality(Present') \in Nat /\ Cardinality(Present) \in Nat
          /\ Cardinality(Present') =< Cardinality(Present)
      BY <1>1, <2>3, FewerHoldings
    <3>2. Holdings(Present)' = Holdings(Present')
      BY <2>3 DEF Holdings
    <3> QED
      BY <3>1, <3>2, SchedulerAssumption DEF Capacity, CapacityInv
  <2> QED
    BY <2>12, <2>13, <2>14
<1>6. CASE Awaited(names) = None
  <2> DEFINE n == ask[t].model
             S == Present \ Among(names)
             h == [name |-> n, bytes |-> Bytes(t)]
  <2>1. /\ residents' = [TableAfter(names) EXCEPT ![n] = t]
        /\ task'[t] = "spawning"
    BY <1>1, <1>6 DEF Evict
  <2>2. n \in Models /\ Bytes(t) \in Nat /\ residents[n] = None
    BY <1>1, BytesType DEF CapacityInv, Absent
  <2>3. \A m \in Models : TableAfter(names)[m] = IF m \in Among(names) THEN None ELSE residents[m]
    BY <1>1, <1>6, AllEvicted
  <2>4. residents' \in [Models -> Opt] /\ residents'[n] = t
        /\ \A m \in Models \ {n} : residents'[m] = TableAfter(names)[m]
    BY <1>1, <2>1, <2>2, UnloadTypes DEF TypeInv, TypeOK
  <2>5. Present' = S \cup {n} /\ n \notin S
    BY <1>1, <2>2, <2>3, <2>4 DEF Present
  <2>6. ASSUME NEW m \in S PROVE Holding(m)' = Holding(m)
    <3>1. residents'[m] = residents[m]
      BY <2>3, <2>4, <2>5, <2>6 DEF Present
    <3> QED
      BY <1>2, <3>1 DEF Holding, Bytes
  <2>7. ASSUME NEW m \in Models, m = n PROVE Holding(m)' = h
    BY <1>2, <2>4, <2>7 DEF Holding, Bytes
  <2>8. Holdings(Present)' = Holdings(S) \cup {h}
    <3>1. Holdings(Present)' = {Holding(m)' : m \in S \cup {n}}
      BY <2>5 DEF Holdings
    <3>2. {Holding(m)' : m \in S \cup {n}} = {Holding(m) : m \in S} \cup {h}
      BY <2>2, <2>6, <2>7
    <3> QED
      BY <3>1, <3>2 DEF Holdings
  <2>9. /\ Residents(Holdings(S)) /\ Used(Holdings(S)) \in Nat
        /\ Cardinality(Holdings(S)) = Cardinality(S)
        /\ Cardinality(S) \in Nat /\ IsFiniteSet(S)
    BY <1>1, HoldingsFacts
  <2>10. \A s \in Holdings(S) : s.name # h.name
    BY <2>5 DEF Holdings, Holding
  <2>11. Used(Holdings(S) \cup {h}) = Used(Holdings(S)) + h.bytes /\ h.bytes = Bytes(t)
    BY <2>2, <2>9, <2>10, UsedAdd
  <2>12. Cardinality(Present') = Cardinality(S) + 1
    BY <2>5, <2>9, FS_AddElement
  <2>13. Capacity'
    <3> HIDE DEF S, h
    <3>1. Room(t, S)
      BY DEF S
    <3> QED
      BY <2>2, <2>8, <2>9, <2>11, <2>12, <3>1, SchedulerAssumption DEF Capacity, Room
  <2>14. Admitting'
    BY <1>3, <1>4, <2>1 DEF Admitting
  <2>15. ASSUME NEW u \in Requests, task'[u] \in {"queued", "evicting"}
         PROVE  residents'[ask'[u].model] = None
    <3>1. u # t /\ task[u] = task'[u]
      BY <1>4, <2>1, <2>15
    <3>2. residents[ask[u].model] = None /\ ask[u].model \in Models
      BY <1>1, <2>15, <3>1, BytesType DEF CapacityInv, Absent
    <3>3. ask[u].model # n
      BY <2>15, <3>1 DEF CapacityInv, SingleFlight, Pending
    <3> QED
      BY <1>2, <2>3, <2>4, <3>2, <3>3
  <2>16. Absent'
    BY <2>15 DEF Absent
  <2> QED
    BY <2>13, <2>14, <2>16
<1> QED
  BY <1>5, <1>6

\* The plan of an admission makes room for the load
LEMMA PlannedRoom ==
  ASSUME CapacityInv, NEW t \in Requests, task[t] = "queued",
         NEW plan \in Plans(ask[t].model, Bytes(t), ResidentInfos), plan.admitted
  PROVE  Room(t, Present \ Among(plan.evictions))
<1> DEFINE n == ask[t].model
           S == Present \ Among(plan.evictions)
           I == {ResidentInfo(m) : m \in S}
<1>1. TypeInv
  BY DEF CapacityInv, TableInv
<1>2. Bytes(t) \in Nat /\ residents[n] = None
  BY <1>1, BytesType DEF CapacityInv, Absent
<1>3. /\ Residents(ResidentInfos)
      /\ Used(ResidentInfos) = Used(Holdings(Present))
  BY <1>1, InfosFacts DEF ResidentInfos
<1>4. \A m \in Present : ResidentInfo(m).name = m
  BY DEF ResidentInfo
<1>5. \A r \in ResidentInfos : r.name # n
  BY <1>2, <1>4 DEF ResidentInfos, Present
<1>6. Budget > 0 => Used(ResidentInfos) =< Budget
  BY <1>3 DEF CapacityInv, Capacity
<1>7. /\ Budget > 0 => Used(Left(plan, ResidentInfos)) + Bytes(t) =< Budget
      /\ Cardinality(Left(plan, ResidentInfos)) < MaxLoaded
  <2> HIDE DEF n
  <2> QED
    BY <1>2, <1>3, <1>5, <1>6, AdmittedPlanFits DEF n
<1>8. Left(plan, ResidentInfos) = I
  <2>1. DOMAIN plan.evictions = 1 .. Len(plan.evictions)
    BY EvictionsType
  <2>2. \A m \in Present : (\A i \in DOMAIN plan.evictions : plan.evictions[i] # m) <=> m \in S
    BY <2>1 DEF Among
  <2> QED
    BY <1>4, <2>2 DEF Left, ResidentInfos
<1>9. Used(I) = Used(Holdings(S)) /\ Cardinality(I) = Cardinality(S)
  BY <1>1, InfosFacts
<1> HIDE DEF S, I
<1>10. Room(t, S)
  BY <1>7, <1>8, <1>9 DEF Room
<1> QED
  BY <1>10 DEF S

\* A load that has room goes on with the evictions names of its plan, or makes its reservation
Evicts(t, names) ==
  /\ task[t] \in {"queued", "evicting"} /\ lock \in {None, t}
  /\ names \in Seq(Models) /\ Room(t, Present \ Among(names))
  /\ Evict(t, names) /\ UNCHANGED requestVars

(***************************************************************************)
(* Every step either adds nothing to the table and admits no load, or is   *)
(* one of the admission under way, which has room.                         *)
(***************************************************************************)
LEMMA CalmOrEvict ==
  ASSUME CapacityInv, [Next]_vars
  PROVE  Calm \/ \E t \in Requests : \E names : Evicts(t, names)
<1>1. ASSUME NEW t \in Requests, Admission(t) PROVE Calm \/ \E names : Evicts(t, names)
  <2>1. task[t] = "queued" /\ lock = None /\ UNCHANGED requestVars
    BY <1>1 DEF Admission, LockFree
  <2>2. PICK plan \in Plans(ask[t].model, Bytes(t), ResidentInfos) :
          \/ plan.admitted /\ Evict(t, plan.evictions)
          \/ /\ ~plan.admitted
             /\ task' = [task EXCEPT ![t] = "failed"]
             /\ UNCHANGED <<tableVars, evicting, lock>>
    BY <1>1 DEF Admission
  <2>3. CASE plan.admitted /\ Evict(t, plan.evictions)
    <3>1. plan.evictions \in Seq(Models)
      BY EvictionsType
    <3>2. Room(t, Present \ Among(plan.evictions))
      BY <2>1, <2>3, PlannedRoom
    <3>3. Evicts(t, plan.evictions)
      BY <2>1, <2>3, <3>1, <3>2 DEF Evicts
    <3> QED
      BY <3>3
  <2>4. CASE task' = [task EXCEPT ![t] = "failed"] /\ UNCHANGED <<tableVars, evicting, lock>>
    <3> DEFINE x == "failed"
    <3>1. task' = [task EXCEPT ![t] = x] /\ x \in {"failed", "ready"}
      BY <2>4
    <3>2. Shrinks /\ UNCHANGED ask
      BY <2>1, <2>4 DEF Shrinks, tableVars, requestVars
    <3> HIDE DEF x
    <3> QED
      BY <2>4, <3>1, <3>2, CalmEnd DEF CapacityInv, TableInv
  <2> QED
    BY <2>2, <2>3, <2>4
<1>2. ASSUME NEW t \in Requests, EvictNext(t) PROVE Evicts(t, evicting[t].rest)
  <2>1. /\ task[t] = "evicting" /\ UNCHANGED requestVars
        /\ Evict(t, evicting[t].rest)
    BY <1>2 DEF EvictNext
  <2>2. evicting[t].rest \in Seq(Models)
    BY DEF CapacityInv, TableInv, TypeInv, TypeOK, Job
  <2>3. lock = t /\ Room(t, Present \ Among(evicting[t].rest))
    BY <2>1 DEF CapacityInv, Admitting
  <2> QED
    BY <2>1, <2>2, <2>3 DEF Evicts
<1>3. ASSUME UNCHANGED <<residents, task, evicting, lock, ask>> PROVE Calm
  BY <1>3 DEF Calm, Shrinks
<1>4. CASE UNCHANGED vars \/ (\E r \in Requests : Exit(r)) \/ (\E m \in Models : Callback(m))
  BY <1>3, <1>4 DEF vars, Exit, Callback, tableVars, loadVars, requestVars
<1> QED
  BY <1>1, <1>2, <1>4, RequestCalm, LoadCalm, ServiceCalm DEF Next, LoadStep

\* CapacityInv is inductive
LEMMA NextCapacity ==
  ASSUME CapacityInv, [Next]_vars
  PROVE  CapacityInv'
<1>1. TableInv' /\ TypeInv' /\ SingleFlight'
  BY NextLive, NextSingle DEF CapacityInv, TableInv
<1>2. Capacity' /\ Admitting' /\ Absent'
  BY <1>1, CalmOrEvict, CalmStep, EvictCapacity DEF Evicts
<1> QED
  BY <1>1, <1>2 DEF CapacityInv

\* Nothing is loaded at first
LEMMA InitCapacity == Init => CapacityInv
<1> SUFFICES ASSUME Init PROVE CapacityInv
  OBVIOUS
<1>1. TableInv
  BY InitTypes DEF Init, TableInv, Untasked, TableIsLive, Present
<1>2. SingleFlight /\ Admitting /\ Absent
  BY DEF Init, SingleFlight, Pending, Admitting, Absent
<1>3. Present = {} /\ Holdings(Present) = {} /\ Occupied(Holdings(Present)) = {}
  BY DEF Init, Present, Holdings, Occupied
<1>4. Capacity
  BY <1>3, FS_EmptySet, SchedulerAssumption DEF Capacity, Used
<1> QED
  BY <1>1, <1>2, <1>4 DEF CapacityInv

\* CapacityInv holds in every reachable state
LEMMA CapacityInvariant == Spec => []CapacityInv
<1>1. Init => CapacityInv
  BY InitCapacity
<1>2. CapacityInv /\ [Next]_vars => CapacityInv'
  BY NextCapacity
<1> QED
  BY <1>1, <1>2, PTL DEF Spec

(***************************************************************************)
(* The table, reservations included, never exceeds the memory budget nor   *)
(* max_loaded_models, for any number of models and concurrent requests:    *)
(* neither the time that evictions take, nor the sweeps, the cancellations *)
(* and the failures that happen meanwhile, break the room that was planned.*)
(***************************************************************************)
THEOREM TableWithinCapacity == Spec => []WithinCapacity
<1>1. CapacityInv => WithinCapacity
  <2> SUFFICES ASSUME CapacityInv PROVE WithinCapacity
    OBVIOUS
  <2>1. Used(ResidentInfos) = Used(Holdings(Present))
    BY InfosFacts DEF CapacityInv, TableInv, ResidentInfos
  <2> QED
    BY <2>1 DEF CapacityInv, Capacity, WithinCapacity
<1> QED
  BY <1>1, CapacityInvariant, PTL

----------------------------------------------------------------------------
(* Whom the first step of a plan unloads                                   *)

\* a load that is admitted in this step only unloads residents that serve nobody
SparesTheBusy ==
  \A t \in Requests :
    task[t] = "queued" /\ task'[t] \in {"evicting", "spawning"} =>
      \A m \in Present : residents'[m] # residents[m] => rsd[residents[m]].active = 0

\* What an admission removes from the table is in its plan
LEMMA AdmissionSpares ==
  ASSUME CapacityInv, NEW t \in Requests, task[t] = "queued",
         NEW plan \in Plans(ask[t].model, Bytes(t), ResidentInfos), Evict(t, plan.evictions),
         NEW m \in Present, residents'[m] # residents[m]
  PROVE  rsd[residents[m]].active = 0
<1> DEFINE names == plan.evictions
<1>1. /\ TypeInv /\ residents[ask[t].model] = None /\ names \in Seq(Models)
      /\ m \in Models /\ residents[m] # None /\ residents[m] \in Opt
  BY EvictionsType DEF CapacityInv, TableInv, Absent, Present, TypeInv, TypeOK
<1>2. \A i \in 1 .. Len(names) : \E r \in ResidentInfos : r.name = names[i] /\ ~IsBusy(r)
  <2> DEFINE name == ask[t].model
             required == Bytes(t)
             R == ResidentInfos
  <2>1. IsFiniteSet(R) /\ plan \in Plans(name, required, R)
    BY ResidentInfosFinite
  <2> HIDE DEF name, required, R
  <2>2. NoneBusy(plan.evictions, name, R)
    BY <2>1, PlanSparesTheBusy
  <2> QED
    BY <2>2 DEF NoneBusy, R
<1> HIDE DEF names
<1>3. TableAfter(names) \in [Models -> Opt]
  BY <1>1, UnloadTypes DEF TypeInv, TypeOK
<1>4. m # ask[t].model
  BY <1>1
<1>5. residents' = TableAfter(names) \/ residents' = [TableAfter(names) EXCEPT ![ask[t].model] = t]
  BY DEF Evict, Unload, names
<1>6. TableAfter(names)[m] # residents[m]
  BY <1>1, <1>3, <1>4, <1>5
<1>7. m \in Popped(names) /\ Passed(names) \in 0 .. Len(names) /\ Len(names) \in Nat
  BY <1>1, <1>6, PassedRange DEF TableAfter
<1>8. PICK i \in 1 .. Len(names) : names[i] = m
  BY <1>7 DEF Popped
<1>9. PICK n \in Present : ResidentInfo(n).name = m /\ ~IsBusy(ResidentInfo(n))
  BY <1>2, <1>8 DEF ResidentInfos
<1>10. n = m /\ ResidentInfo(n).active = rsd[residents[n]].active
  BY <1>9 DEF ResidentInfo
<1>11. rsd[residents[m]] \in Resident
  BY <1>1 DEF TypeInv, TypeOK, Opt
<1>12. rsd[residents[m]].active \in Nat
  BY <1>11, ObjectParts
<1> QED
  BY <1>9, <1>10, <1>12 DEF IsBusy

\* Every step spares the residents that serve a request when it makes a plan
LEMMA NextSpares ==
  ASSUME CapacityInv, [Next]_vars
  PROVE  SparesTheBusy
<1>1. task \in [Requests -> TaskState]
  BY DEF CapacityInv, TableInv, TypeInv, TypeOK, TaskState
<1>2. ASSUME Calm PROVE SparesTheBusy
  BY <1>2 DEF Calm, SparesTheBusy
<1>3. ASSUME NEW t \in Requests, Admission(t) PROVE SparesTheBusy
  <2>1. task[t] = "queued"
    BY <1>3 DEF Admission
  <2>2. PICK plan \in Plans(ask[t].model, Bytes(t), ResidentInfos) :
          Evict(t, plan.evictions) \/ task' = [task EXCEPT ![t] = "failed"]
    BY <1>3 DEF Admission
  <2>3. \A u \in Requests \ {t} : task'[u] = task[u]
    BY <1>1, <2>2 DEF Evict
  <2>4. CASE task' = [task EXCEPT ![t] = "failed"]
    BY <1>1, <2>3, <2>4 DEF SparesTheBusy
  <2>5. CASE Evict(t, plan.evictions)
    BY <2>1, <2>3, <2>5, AdmissionSpares DEF SparesTheBusy
  <2> QED
    BY <2>2, <2>4, <2>5
<1>4. ASSUME NEW t \in Requests, EvictNext(t) PROVE SparesTheBusy
  <2>1. task[t] = "evicting" /\ \A u \in Requests \ {t} : task'[u] = task[u]
    BY <1>1, <1>4 DEF EvictNext, Evict
  <2> QED
    BY <2>1 DEF SparesTheBusy
<1>5. ASSUME NEW t \in Requests, LoadStep(t) PROVE SparesTheBusy
  BY <1>2, <1>3, <1>4, <1>5, LoadCalm DEF LoadStep
<1>6. ASSUME UNCHANGED task PROVE SparesTheBusy
  BY <1>6 DEF SparesTheBusy
<1>7. ASSUME NEW r \in Requests, Exit(r) PROVE SparesTheBusy
  BY <1>6, <1>7 DEF Exit, loadVars
<1>8. ASSUME NEW m \in Models, Callback(m) PROVE SparesTheBusy
  BY <1>6, <1>8 DEF Callback
<1>9. CASE UNCHANGED vars
  BY <1>6, <1>9 DEF vars, loadVars
<1> QED
  BY <1>2, <1>5, <1>7, <1>8, <1>9, RequestCalm, ServiceCalm DEF Next

(***************************************************************************)
(* The step that plans an admission never unloads a model that is serving  *)
(* a request, whatever the residents and the limits are; this is all that  *)
(* the code guarantees of "a BUSY model is never evicted".                 *)
(***************************************************************************)
THEOREM PlannersSpareTheBusy == Spec => FirstVictimIsIdle
<1>1. CapacityInv /\ [Next]_vars => SparesTheBusy
  BY NextSpares
<1>2. CapacityInv /\ [Next]_vars => [SparesTheBusy]_vars
  BY <1>1
<1>3. FirstVictimIsIdle <=> [][SparesTheBusy]_vars
  BY DEF FirstVictimIsIdle, SparesTheBusy
<1> QED
  BY <1>2, <1>3, CapacityInvariant, PTL DEF Spec

----------------------------------------------------------------------------
(* The table implements Residency                                          *)

\* In a live table, what an entry shows is what its load does
StageShown ==
  \A m \in Models :
    StageOf[m] = IF residents[m] = None THEN "unloaded"
                 ELSE IF task[residents[m]] = "spawning" THEN "loading" ELSE "serving"

RefInv == CapacityInv /\ StageShown

LEMMA StagesShown == CapacityInv => StageShown
<1> SUFFICES ASSUME CapacityInv, NEW m \in Models, residents[m] # None
             PROVE  Stage(m) = IF task[residents[m]] = "spawning" THEN "loading" ELSE "serving"
  BY DEF StageShown, StageOf, Stage
<1>1. Live(m, residents[m])
  BY LiveEntries DEF CapacityInv, TableInv
<1> QED
  BY <1>1 DEF Live, Stage, IsServing

\* What holds memory in Residency is what is present, in the same cells
LEMMA AbstractCells ==
  /\ Abstract!Holders = {m \in Models : StageOf[m] # "unloaded"}
  /\ \A S \in SUBSET Present : Abstract!Cells(S) = Occupied(Holdings(S))
<1>1. Abstract!Holders = {m \in Models : StageOf[m] # "unloaded"}
  BY DEF Abstract!Holders
<1>2. ASSUME NEW S \in SUBSET Present PROVE Abstract!Cells(S) = Occupied(Holdings(S))
  <2>1. \A m \in S : HeldOf[m] = Bytes(residents[m])
    BY DEF Present, HeldOf, Held
  <2>2. Abstract!Cells(S) = UNION {{m} \X (1 .. HeldOf[m]) : m \in S}
    BY DEF Abstract!Cells
  <2>3. \A m \in S : Holding(m).name = m /\ Holding(m).bytes = Bytes(residents[m])
    BY DEF Holding
  <2>4. Occupied(Holdings(S)) = UNION {{r.name} \X (1 .. r.bytes) : r \in {Holding(m) : m \in S}}
    BY DEF Occupied, Holdings
  <2>5. {{r.name} \X (1 .. r.bytes) : r \in {Holding(m) : m \in S}}
          = {{Holding(m).name} \X (1 .. Holding(m).bytes) : m \in S}
    OBVIOUS
  <2>6. {{Holding(m).name} \X (1 .. Holding(m).bytes) : m \in S}
          = {{m} \X (1 .. HeldOf[m]) : m \in S}
    BY <2>1, <2>3
  <2> QED
    BY <2>2, <2>4, <2>5, <2>6
<1> QED
  BY <1>1, <1>2

\* the models in the table are those that hold memory
LEMMA HoldersPresent ==
  ASSUME StageShown
  PROVE  Abstract!Holders = Present
BY AbstractCells DEF StageShown, Present

\* A step that only removes entries vacates them, or stutters
LEMMA RemovalRefines ==
  ASSUME TypeInv, StageShown, StageShown', Shrinks,
         \A t \in Requests : task[t] # "none" => ask'[t] = ask[t],
         \A m \in Models : residents'[m] # None =>
           (task'[residents[m]] = "spawning" <=> task[residents[m]] = "spawning")
  PROVE  (\E S \in SUBSET Models : Abstract!Vacate(S)) \/ UNCHANGED <<StageOf, HeldOf>>
<1> DEFINE S == {m \in Models : residents[m] # None /\ residents'[m] = None}
<1>1. \A m \in Models : residents[m] # None => residents[m] \in Requests /\ task[residents[m]] # "none"
  BY DEF TypeInv, TypeOK, Opt, References, Present
<1>2. \A m \in Models : StageOf'[m] = IF m \in S THEN "unloaded" ELSE StageOf[m]
  BY DEF StageShown, Shrinks
<1>3. ASSUME NEW m \in Models PROVE HeldOf'[m] = IF m \in S THEN 0 ELSE HeldOf[m]
  <2>1. HeldOf'[m] = IF residents'[m] = None THEN 0 ELSE Estimate[ask'[residents'[m]].model][ask'[residents'[m]].runtime]
    BY DEF HeldOf, Held, Bytes
  <2>2. HeldOf[m] = IF residents[m] = None THEN 0 ELSE Estimate[ask[residents[m]].model][ask[residents[m]].runtime]
    BY DEF HeldOf, Held, Bytes
  <2> QED
    BY <1>1, <2>1, <2>2 DEF Shrinks
<1>4. /\ StageOf' = [m \in Models |-> IF m \in S THEN "unloaded" ELSE StageOf[m]]
      /\ HeldOf' = [m \in Models |-> IF m \in S THEN 0 ELSE HeldOf[m]]
  BY <1>2, <1>3 DEF StageOf, HeldOf
<1>5. CASE S = {}
  BY <1>4, <1>5 DEF StageOf, HeldOf
<1>6. CASE S # {}
  <2>1. S \subseteq Abstract!Holders
    BY HoldersPresent DEF Present
  <2>2. Abstract!Vacate(S)
    BY <1>4, <1>6, <2>1 DEF Abstract!Vacate, Abstract!Emptied
  <2> QED
    BY <2>2
<1> QED
  BY <1>5, <1>6

\* A load that succeeds completes the reservation of its model, if it still has one
LEMMA ReadyRefines ==
  ASSUME RefInv, StageShown', NEW t \in Requests, SpawnReady(t)
  PROVE  (\E m \in Models : Abstract!Complete(m)) \/ UNCHANGED <<StageOf, HeldOf>>
<1>1. /\ task[t] = "spawning" /\ task' = [task EXCEPT ![t] = "ready"]
      /\ UNCHANGED <<residents, ask>>
      /\ task \in [Requests -> TaskState] /\ residents \in [Models -> Opt]
  BY DEF SpawnReady, requestVars, RefInv, CapacityInv, TableInv, TypeInv, TypeOK, TaskState
<1>2. UNCHANGED HeldOf
  BY <1>1 DEF HeldOf, Held, Bytes
<1>3. CASE \A m \in Models : residents[m] # t
  <2>1. \A m \in Models : StageOf'[m] = StageOf[m]
    BY <1>1, <1>3 DEF RefInv, StageShown, Opt
  <2> QED
    BY <1>2, <2>1 DEF StageOf
<1>4. ASSUME NEW m \in Models, residents[m] = t PROVE Abstract!Complete(m)
  <2>1. t # None
    BY LifecycleAssumption
  <2>2. \A n \in Models \ {m} : residents[n] # t
    BY <1>4, <2>1, OneNameEach DEF RefInv, CapacityInv, TableInv
  <2>3. StageOf[m] = "loading" /\ StageOf'[m] = "serving"
    BY <1>1, <1>4, <2>1 DEF RefInv, StageShown
  <2>4. \A n \in Models \ {m} : StageOf'[n] = StageOf[n]
    BY <1>1, <2>2 DEF RefInv, StageShown, Opt
  <2>5. StageOf' = [StageOf EXCEPT ![m] = "serving"]
    BY <2>3, <2>4 DEF StageOf
  <2> QED
    BY <1>2, <2>3, <2>5 DEF Abstract!Complete
<1> QED
  BY <1>3, <1>4

\* The reservation is admitted in Residency, after the evictions that are still due
LEMMA ReservationRefines ==
  ASSUME RefInv, StageShown', NEW t \in Requests, NEW names, Evicts(t, names),
         Awaited(names) = None
  PROVE  \E S \in SUBSET Models, m \in Models, n \in Sizes : Abstract!Reserve(S, m, n)
<1> DEFINE m == ask[t].model
           n == Bytes(t)
           S == Among(names) \cap Present
<1>1. /\ TypeInv /\ names \in Seq(Models) /\ t # None
      /\ task \in [Requests -> TaskState] /\ residents \in [Models -> Opt]
  BY LifecycleAssumption DEF Evicts, RefInv, CapacityInv, TableInv, TypeInv, TypeOK, TaskState
<1>2. /\ residents' = [TableAfter(names) EXCEPT ![m] = t]
      /\ task' = [task EXCEPT ![t] = "spawning"] /\ UNCHANGED ask
      /\ task[t] \in {"queued", "evicting"}
  BY DEF Evicts, Evict, requestVars
<1>3. m \in Models /\ n \in Nat /\ residents[m] = None /\ n \in Sizes
  <2>1. m \in Models /\ n \in Nat /\ residents[m] = None
    BY <1>1, <1>2, BytesType DEF RefInv, CapacityInv, Absent
  <2>2. ask[t].runtime \in Runtimes
    BY <1>1, <1>2, AskTypes DEF TypeInv, TypeOK, References
  <2> QED
    BY <2>1, <2>2 DEF Sizes, Bytes
<1>4. /\ residents'[m] = t
      /\ \A x \in Models \ {m} : residents'[x] = IF x \in S THEN None ELSE residents[x]
  <2>1. \A x \in Models : TableAfter(names)[x] = IF x \in Among(names) THEN None ELSE residents[x]
    BY <1>1, AllEvicted
  <2>2. TableAfter(names) \in [Models -> Opt]
    BY <1>1, UnloadTypes DEF TypeInv, TypeOK
  <2> QED
    BY <1>2, <1>3, <2>1, <2>2 DEF Present
\* who stays is not the load itself
<1>5. \A x \in Models : residents[x] # None =>
        /\ residents[x] \in Requests /\ residents[x] # t
        /\ task'[residents[x]] = task[residents[x]]
  <2>1. \A x \in Models : residents[x] # None =>
          residents[x] \in Requests /\ task[residents[x]] \in {"spawning", "ready"}
    BY <1>1, LiveEntries DEF RefInv, CapacityInv, TableInv, Live, Opt
  <2> QED
    BY <1>1, <1>2, <2>1
<1>6. StageOf' = [Abstract!Emptied(StageOf, S, "unloaded") EXCEPT ![m] = "loading"]
  <2>1. StageOf'[m] = "loading"
    BY <1>1, <1>2, <1>3, <1>4 DEF StageShown
  <2>2. \A x \in Models \ {m} : StageOf'[x] = IF x \in S THEN "unloaded" ELSE StageOf[x]
    BY <1>4, <1>5 DEF RefInv, StageShown
  <2> QED
    BY <1>3, <2>1, <2>2 DEF StageOf, Abstract!Emptied
<1>7. HeldOf' = [Abstract!Emptied(HeldOf, S, 0) EXCEPT ![m] = n]
  <2>1. HeldOf'[m] = n
    BY <1>1, <1>2, <1>3, <1>4 DEF HeldOf, Held, Bytes
  <2>2. \A x \in Models \ {m} : HeldOf'[x] = IF x \in S THEN 0 ELSE HeldOf[x]
    BY <1>2, <1>4 DEF HeldOf, Held, Bytes
  <2> QED
    BY <1>3, <2>1, <2>2 DEF HeldOf, Abstract!Emptied
<1>8. Abstract!Holders = Present
  BY HoldersPresent DEF RefInv
<1>9. /\ Cardinality(Present \ S) < MaxLoaded
      /\ Budget > 0 => Cardinality(Abstract!Cells(Present \ S)) + n <= Budget
  <2>1. Present \ S = Present \ Among(names) /\ Present \ S \subseteq Present
    OBVIOUS
  <2>2. Abstract!Cells(Present \ S) = Occupied(Holdings(Present \ S))
    BY <2>1, AbstractCells
  <2>3. Room(t, Present \ S)
    BY <2>1 DEF Evicts
  <2> HIDE DEF S
  <2> QED
    BY <2>2, <2>3 DEF Room, Used
<1>10. S \subseteq Models /\ m \notin Present /\ S \subseteq Present
  BY <1>3 DEF Present
\* the instance brings its own copy of Cardinality
<1>11. \A X : Abstract!Cardinality(X) = Cardinality(X)
  BY DEF Abstract!Cardinality, Cardinality
<1> HIDE DEF S, m, n
<1>12. Abstract!Reserve(S, m, n)
  BY <1>6, <1>7, <1>8, <1>9, <1>10, <1>11 DEF Abstract!Reserve
<1> QED
  BY <1>3, <1>10, <1>12

\* Only an answer of the process makes a load ready
LEMMA ReadyByHealth ==
  ASSUME CapacityInv, [Next]_vars, NEW t \in Requests, task'[t] = "ready", task[t] # "ready"
  PROVE  SpawnReady(t)
<1>1. task \in [Requests -> TaskState]
  BY DEF CapacityInv, TableInv, TypeInv, TypeOK, TaskState
<1>2. ASSUME NEW q \in Requests, RequestStep(q) PROVE FALSE
  <2>1. \A a : EnsureReady(q, a) => UNCHANGED task \/ task' = [task EXCEPT ![q] = "queued"]
    BY DEF EnsureReady, Reuse, Reload, JoinLoad, StartLoad, loadVars
  <2>2. \A a : UnloadRequest(q, a) => UNCHANGED task
    BY DEF UnloadRequest, loadVars
  <2>3. UNCHANGED task \/ task' = [task EXCEPT ![q] = "queued"]
    BY <1>2, <2>1, <2>2 DEF RequestStep, Begin, Resume, Wake, Release, EndStop, EndStream, Cancel,
                            loadVars
  <2> QED
    BY <1>1, <2>3
<1>3. ASSUME NEW u \in Requests, LoadStep(u), ~SpawnReady(u) PROVE FALSE
  <2>1. ASSUME NEW names, Evict(u, names) PROVE \E x \in {"evicting", "spawning"} : task' = [task EXCEPT ![u] = x]
    BY <2>1 DEF Evict
  <2>2. UNCHANGED task \/ \E x \in {"evicting", "spawning", "failed"} : task' = [task EXCEPT ![u] = x]
    BY <1>3, <2>1 DEF LoadStep, RejectLoad, Admission, EvictNext, SpawnFails, LoadFails, loadVars
  <2> QED
    BY <1>1, <2>2
<1>4. ASSUME ServiceStep PROVE FALSE
  <2>1. UNCHANGED task \/ \E u \in Requests : task' = [task EXCEPT ![u] = "failed"]
    BY <1>4 DEF ServiceStep, SweepStart, SweepNext, Sweep, Tick, StopService, CancelLoad,
                CloseStart, CloseNext, Close, loadVars
  <2> QED
    BY <1>1, <2>1
<1>5. ASSUME NEW u \in Requests, SpawnReady(u) PROVE u = t
  BY <1>1, <1>5 DEF SpawnReady
<1>6. CASE UNCHANGED vars \/ (\E r \in Requests : Exit(r)) \/ (\E m \in Models : Callback(m))
  BY <1>6 DEF vars, Exit, Callback, loadVars
<1> QED
  BY <1>2, <1>3, <1>4, <1>5, <1>6 DEF Next

\* Every step of the manager is one of Residency, or a stutter
LEMMA NextRefines ==
  ASSUME RefInv, RefInv', [Next]_vars
  PROVE  [Abstract!Next]_(Abstract!vars)
<1>1. TypeInv /\ StageShown /\ StageShown' /\ TableIsLive' /\ CapacityInv
  BY DEF RefInv, CapacityInv, TableInv
<1>2. ASSUME NEW t \in Requests, SpawnReady(t) PROVE [Abstract!Next]_(Abstract!vars)
  BY <1>1, <1>2, ReadyRefines DEF Abstract!Next, Abstract!vars
<1>3. ASSUME Calm, \A t \in Requests : ~SpawnReady(t) PROVE [Abstract!Next]_(Abstract!vars)
  <2>1. ASSUME NEW m \in Models, residents'[m] # None
        PROVE  task'[residents[m]] = "spawning" <=> task[residents[m]] = "spawning"
    <3>1. residents'[m] = residents[m] /\ residents[m] \in Requests
      BY <1>1, <1>3, <2>1 DEF Calm, Shrinks, TypeInv, TypeOK, Opt
    <3>2. task'[residents[m]] \in {"spawning", "ready"}
      BY <1>1, <2>1, <3>1 DEF TableIsLive, Present
    <3>3. task'[residents[m]] = "ready" => task[residents[m]] = "ready"
      BY <1>1, <1>3, <3>1, ReadyByHealth
    <3> QED
      BY <1>3, <3>1, <3>2, <3>3 DEF Calm
  <2> QED
    BY <1>1, <1>3, <2>1, RemovalRefines DEF Calm, Abstract!Next, Abstract!vars
<1>4. ASSUME NEW t \in Requests, NEW names, Evicts(t, names), Awaited(names) # None
      PROVE  [Abstract!Next]_(Abstract!vars)
  <2>1. /\ Shrinks /\ UNCHANGED ask /\ task[t] \in {"queued", "evicting"}
        /\ task' = [task EXCEPT ![t] = "evicting"]
    BY <1>4, UnloadShrinks DEF Evicts, Evict, requestVars
  <2>2. task \in [Requests -> TaskState]
    BY <1>1 DEF TypeInv, TypeOK, TaskState
  <2>3. \A m \in Models : residents[m] # None =>
          residents[m] \in Requests /\ task[residents[m]] \in {"spawning", "ready"}
    BY <1>1, LiveEntries DEF CapacityInv, TableInv, TypeInv, TypeOK, Live, Opt
  <2>4. \A m \in Models : residents'[m] # None =>
          (task'[residents[m]] = "spawning" <=> task[residents[m]] = "spawning")
    BY <2>1, <2>2, <2>3 DEF Shrinks
  <2> QED
    BY <1>1, <2>1, <2>4, RemovalRefines DEF Abstract!Next, Abstract!vars
<1>5. ASSUME NEW t \in Requests, NEW names, Evicts(t, names), Awaited(names) = None
      PROVE  [Abstract!Next]_(Abstract!vars)
  BY <1>5, ReservationRefines DEF RefInv, Abstract!Next
<1> QED
  BY <1>1, <1>2, <1>3, <1>4, <1>5, CalmOrEvict

(***************************************************************************)
(* The manager implements Residency, for any number of models and requests *)
(* and any limits: although it decides an admission before evictions that  *)
(* take time and reserves the memory after them, each reservation fits     *)
(* what the table holds at the very moment it is made.  (That every load   *)
(* ends needs fairness and is checked, not proved.)                        *)
(***************************************************************************)
THEOREM LifecycleImplementsResidency == Spec => Abstract!Spec
<1>1. Init => Abstract!Init
  BY DEF Init, Abstract!Init, StageOf, Stage, HeldOf, Held
<1>2. CapacityInv => RefInv
  BY StagesShown DEF RefInv
<1>3. RefInv /\ RefInv' /\ [Next]_vars => [Abstract!Next]_(Abstract!vars)
  BY NextRefines
<1> QED
  BY <1>1, <1>2, <1>3, CapacityInvariant, PTL DEF Spec, Abstract!Spec

-----------------------------------------------------------------------------
(* No llama-server process is forgotten: whatever lives is in the table,   *)
(* or is being loaded, or is awaited by the coroutine that stops it, or is *)
(* one of those in lost, and only these outlive the service.  And a        *)
(* Resident is BUSY exactly while requests use its process.                *)

InTable(r) == \E m \in Present : residents[m] = r
Victim(r) == StoppedByAdmission(r) \/ StoppedElsewhere(r)

\* a request only awaits the end of a process where it stopped one
AwaitsAtStops == \A q \in Requests : awaits[q] # None => pc[q] \in {"reloading", "stopping"}

\* what is awaited was loaded, and is ending unless its stop was abandoned
VictimsEnd ==
  \A r \in Requests : Victim(r) =>
    task[r] = "ready" /\ (proc[r] \in {"stopping", "gone"} \/ r \in lost)

\* a process that is being loaded has its reservation; without it, it is lost,
\* and nothing has taken the place
Reserved ==
  \A t \in Requests : task[t] = "spawning" =>
    \/ residents[ask[t].model] = t
    \/ residents[ask[t].model] = None /\ t \in lost

StopInv == VictimsEnd /\ Reserved /\ NoProcessForgotten
ProcessInv == AwaitsAtStops /\ StopInv

----------------------------------------------------------------------------
(* What is awaited                                                         *)

\* the load tasks that do not change, as far as processes go
SameLoads ==
  /\ \A t \in Requests : task'[t] = task[t] \/ (task[t] = "none" /\ task'[t] = "queued")
  /\ \A t \in Requests : task[t] # "none" => ask'[t] = ask[t]
  /\ UNCHANGED evicting

\* loads neither enter nor leave the states that matter to the processes
SameProgress ==
  /\ \A t \in Requests : task[t] = "ready" <=> task'[t] = "ready"
  /\ \A t \in Requests : task[t] = "spawning" <=> task'[t] = "spawning"
  /\ \A t \in Requests : task[t] # "none" => ask'[t] = ask[t]

LEMMA LoadsProgress ==
  ASSUME SameLoads
  PROVE  SameProgress
BY DEF SameLoads, SameProgress

\* A request only changes what it awaits itself
LEMMA RequestVictims ==
  ASSUME TypeInv, SameLoads, UNCHANGED serviceVars, NEW q \in Requests,
         NEW w, awaits' = [awaits EXCEPT ![q] = w]
  PROVE  /\ \A r : Victim(r) => Victim(r)' \/ awaits[q] = r
         /\ \A r : Victim(r)' => Victim(r) \/ w = r
         /\ \A r : w = r => Victim(r)'
<1>1. awaits'[q] = w /\ \A p \in Requests \ {q} : awaits'[p] = awaits[p]
  BY DEF TypeInv, TypeOK
<1>2. \A r : StoppedByAdmission(r)' <=> StoppedByAdmission(r)
  BY DEF SameLoads, StoppedByAdmission
<1>3. UNCHANGED <<sweeper, phase, closing>>
  BY DEF serviceVars
<1> QED
  BY <1>1, <1>2, <1>3 DEF Victim, StoppedElsewhere

----------------------------------------------------------------------------
(* Unloading                                                               *)

\* What an unload takes from the table it awaits, or it is lost
LEMMA UnloadTakes ==
  ASSUME TableInv, NEW names \in Seq(Models), NEW m \in Present
  PROVE  \/ TableAfter(names)[m] = residents[m]
         \/ residents[m] = Awaited(names) /\ task[residents[m]] = "ready"
         \/ residents[m] \in LostAfter(names) /\ task[residents[m]] # "ready"
<1>1. m \in Models /\ residents[m] # None
  BY DEF Present
<1>2. CASE m \notin Popped(names)
  BY <1>1, <1>2 DEF TableAfter
<1>3. CASE m \in Popped(names)
  <2>1. PICK i \in 1 .. Passed(names) : names[i] = m
    BY <1>3 DEF Popped
  <2>2. CASE ~HasInstance(residents[m])
    BY <1>3, <2>2 DEF LostAfter, PoppedResidents, HasInstance
  <2>3. CASE HasInstance(residents[m])
    <3>1. Passed(names) \in 0 .. Len(names) /\ Len(names) \in Nat
      BY PassedRange
    <3>2. i \in Blocking(names) /\ Blocking(names) \subseteq Nat
      BY <1>1, <2>1, <2>3, <3>1 DEF Blocking
    <3>3. Passed(names) = Min(Blocking(names)) /\ Min(Blocking(names)) =< i
      BY <3>2, LeastNatural DEF Passed
    <3>4. Passed(names) = i
      BY <2>1, <3>1, <3>3
    <3> QED
      BY <2>1, <2>3, <3>2, <3>4 DEF Awaited, HasInstance
  <2> QED
    BY <2>2, <2>3
<1> QED
  BY <1>2, <1>3

\* What it awaits was up, and is being stopped
LEMMA AwaitedWasUp ==
  ASSUME TableInv, NEW names \in Seq(Models), Awaited(names) # None
  PROVE  /\ Awaited(names) \in Requests
         /\ task[Awaited(names)] = "ready" /\ proc[Awaited(names)] = "up"
         /\ ProcAfter(names)[Awaited(names)] = "stopping"
<1>1. PICK i \in DOMAIN names : i \in Blocking(names) /\ Awaited(names) = residents[names[i]]
  BY PassedRange DEF Awaited, Blocking
<1>2. names[i] \in Models /\ residents[names[i]] # None /\ task[residents[names[i]]] = "ready"
  BY <1>1 DEF Blocking, HasInstance
<1>3. Live(names[i], residents[names[i]]) /\ residents[names[i]] \in Requests
  BY <1>2, LiveEntries, EntriesHaveLoads DEF TableInv
<1> QED
  BY <1>1, <1>2, <1>3 DEF Live, ProcAfter

\* A step that unloads and awaits what it stops, while the others await on
LEMMA UnloadStops ==
  ASSUME TableInv, StopInv, SameProgress, NEW names \in Seq(Models), NEW objects,
         Unload(names, objects),
         \A r \in Requests : Victim(r) => Victim(r)' \/ proc[r] = "gone",
         \A r \in Requests : Victim(r)' => Victim(r) \/ Awaited(names) = r,
         \A r \in Requests : Awaited(names) = r => Victim(r)'
  PROVE  StopInv'
<1>1. /\ residents' = TableAfter(names) /\ proc' = ProcAfter(names) /\ lost' = LostAfter(names)
  BY DEF Unload
<1>2. \A r \in Requests : r # Awaited(names) => proc'[r] = proc[r]
  BY <1>1 DEF ProcAfter
<1>3. \A r \in Requests : r = Awaited(names) =>
        task[r] = "ready" /\ proc[r] = "up" /\ proc'[r] = "stopping"
  BY <1>1, AwaitedWasUp, LifecycleAssumption
<1>4. lost \subseteq lost'
  BY <1>1 DEF LostAfter
<1>5. \A r \in Requests : (task[r] = "ready" <=> task'[r] = "ready")
                          /\ (task[r] = "spawning" <=> task'[r] = "spawning")
  BY DEF SameProgress
<1>6. VictimsEnd'
  BY <1>2, <1>3, <1>4, <1>5 DEF StopInv, VictimsEnd
<1>7. Reserved'
  <2> SUFFICES ASSUME NEW t \in Requests, task'[t] = "spawning"
               PROVE  \/ residents'[ask'[t].model] = t
                      \/ residents'[ask'[t].model] = None /\ t \in lost'
    BY DEF Reserved
  <2>1. task[t] = "spawning" /\ ask'[t] = ask[t]
    BY <1>5 DEF SameProgress
  <2>2. ask[t].model \in Models
    BY <2>1, AskTypes DEF TableInv, TypeInv, TypeOK, References
  <2>3. \/ residents[ask[t].model] = t
        \/ residents[ask[t].model] = None /\ t \in lost
    BY <2>1 DEF StopInv, Reserved
  <2>4. residents'[ask[t].model] \in {None, residents[ask[t].model]}
    BY <1>1, <2>2 DEF TableAfter
  <2>5. ASSUME residents[ask[t].model] = t, residents'[ask[t].model] # t PROVE t \in lost'
    <3>1. ask[t].model \in Present
      BY <2>2, <2>5, LifecycleAssumption DEF Present
    <3> QED
      BY <1>1, <2>1, <2>5, <3>1, UnloadTakes
  <2> QED
    BY <1>4, <2>1, <2>3, <2>4, <2>5
<1>8. NoProcessForgotten'
  <2> SUFFICES ASSUME NEW r \in Alive' \ lost'
               PROVE  (InTable(r) \/ task[r] = "spawning" \/ Victim(r))'
    BY DEF NoProcessForgotten, InTable, Victim, StopAwaited
  <2>1. r \in Requests /\ r \notin lost /\ r \in Alive
    <3>1. r \in Requests /\ r \notin lost
      BY <1>4 DEF Alive
    <3> QED
      BY <1>2, <1>3, <3>1 DEF Alive
  <2>2. InTable(r) \/ task[r] = "spawning" \/ Victim(r)
    BY <2>1 DEF StopInv, NoProcessForgotten, InTable, Victim, StopAwaited
  <2>3. CASE InTable(r)
    <3>1. PICK m \in Present : residents[m] = r
      BY <2>3 DEF InTable
    <3>2. TableAfter(names)[m] = r \/ r = Awaited(names)
      BY <1>1, <3>1, UnloadTakes
    <3>3. TableAfter(names)[m] = r => InTable(r)'
      BY <1>1, <2>1, LifecycleAssumption DEF InTable, Present
    <3> QED
      BY <2>1, <3>2, <3>3
  <2>4. CASE Victim(r)
    <3>1. proc[r] # "gone"
      BY <2>1 DEF Alive
    <3> QED
      BY <2>1, <2>4, <3>1
  <2> QED
    BY <1>5, <2>1, <2>2, <2>3, <2>4
<1> QED
  BY <1>6, <1>7, <1>8 DEF StopInv

\* A step that leaves the table and the processes alone
LEMMA NothingStops ==
  ASSUME TableInv, StopInv, SameProgress, UNCHANGED <<residents, proc, lost>>,
         \A r \in Requests : Victim(r) => Victim(r)' \/ proc[r] = "gone",
         \A r \in Requests : Victim(r)' => Victim(r)
  PROVE  StopInv'
<1>1. \A r \in Requests : (task[r] = "ready" <=> task'[r] = "ready")
                          /\ (task[r] = "spawning" <=> task'[r] = "spawning")
  BY DEF SameProgress
<1>2. VictimsEnd'
  BY <1>1 DEF StopInv, VictimsEnd
<1>3. Reserved'
  BY <1>1 DEF StopInv, Reserved, SameProgress
<1>4. NoProcessForgotten'
  <2> SUFFICES ASSUME NEW r \in Alive' \ lost'
               PROVE  (InTable(r) \/ task[r] = "spawning" \/ Victim(r))'
    BY DEF NoProcessForgotten, InTable, Victim, StopAwaited
  <2>1. r \in Requests /\ r \in Alive \ lost /\ proc[r] # "gone"
    BY DEF Alive
  <2>2. InTable(r) \/ task[r] = "spawning" \/ Victim(r)
    BY <2>1 DEF StopInv, NoProcessForgotten, InTable, Victim, StopAwaited
  <2>3. InTable(r)' <=> InTable(r)
    BY DEF InTable, Present
  <2> QED
    BY <1>1, <2>1, <2>2, <2>3
<1> QED
  BY <1>2, <1>3, <1>4 DEF StopInv

\* A coroutine that abandons what it awaits, a victim or nothing
LEMMA AbandonStops ==
  ASSUME TableInv, StopInv, SameProgress, UNCHANGED residents, NEW v, AbandonStop(v),
         v \in Requests => Victim(v),
         \A r \in Requests : Victim(r) => Victim(r)' \/ r = v,
         \A r \in Requests : Victim(r)' => Victim(r)
  PROVE  StopInv'
<1>1. \A r \in Requests : (task[r] = "ready" <=> task'[r] = "ready")
                          /\ (task[r] = "spawning" <=> task'[r] = "spawning")
  BY DEF SameProgress
<1>2. /\ lost \subseteq lost'
      /\ \A r \in Requests : r # v => proc'[r] = proc[r]
      /\ \A r \in Requests : r = v => (r \in lost' \/ (proc[r] # "stopping" /\ proc'[r] = proc[r]))
  BY LifecycleAssumption DEF AbandonStop, TableInv, TypeInv, TypeOK
<1>3. VictimsEnd'
  BY <1>1, <1>2 DEF StopInv, VictimsEnd
<1>4. Reserved'
  BY <1>1, <1>2 DEF StopInv, Reserved, SameProgress
<1>5. NoProcessForgotten'
  <2> SUFFICES ASSUME NEW r \in Alive' \ lost'
               PROVE  (InTable(r) \/ task[r] = "spawning" \/ Victim(r))'
    BY DEF NoProcessForgotten, InTable, Victim, StopAwaited
  <2>1. r \in Requests /\ r \notin lost /\ proc'[r] = proc[r]
    BY <1>2 DEF Alive
  <2>2. r \in Alive \ lost
    BY <2>1 DEF Alive
  <2>3. InTable(r) \/ task[r] = "spawning" \/ Victim(r)
    BY <2>2 DEF StopInv, NoProcessForgotten, InTable, Victim, StopAwaited
  <2>4. InTable(r)' <=> InTable(r)
    BY DEF InTable, Present
  <2>5. r = v => proc[r] = "gone"
    BY <1>2, <2>1 DEF StopInv, VictimsEnd
  <2>6. r # v
    BY <2>2, <2>5 DEF Alive
  <2> QED
    BY <1>1, <2>1, <2>3, <2>4, <2>6
<1> QED
  BY <1>3, <1>4, <1>5 DEF StopInv

----------------------------------------------------------------------------
(* The steps of a request                                                  *)

\* A request that has nothing to await any more, but what it stops itself
LEMMA RequestUnloads ==
  ASSUME TableInv, ProcessInv, SameLoads, UNCHANGED serviceVars, NEW q \in Requests,
         NEW names \in Seq(Models), NEW objects, Unload(names, objects),
         \A r \in Requests : awaits[q] = r => proc[r] = "gone",
         NEW w, w = Awaited(names), awaits' = [awaits EXCEPT ![q] = w],
         NEW x \in PcState, pc' = [pc EXCEPT ![q] = x],
         w # None => x \in {"reloading", "stopping"}
  PROVE  ProcessInv'
<1>1. /\ \A r : Victim(r) => Victim(r)' \/ awaits[q] = r
      /\ \A r : Victim(r)' => Victim(r) \/ w = r
      /\ \A r : w = r => Victim(r)'
  BY RequestVictims DEF TableInv
<1>2. StopInv'
  BY <1>1, UnloadStops, LoadsProgress DEF ProcessInv
<1>3. AwaitsAtStops'
  BY DEF AwaitsAtStops, ProcessInv, TableInv, TypeInv, TypeOK
<1> QED
  BY <1>2, <1>3 DEF ProcessInv

\* A request that leaves the table alone, and awaits nothing afterwards
LEMMA RequestPasses ==
  ASSUME TableInv, ProcessInv, SameLoads, UNCHANGED serviceVars, NEW q \in Requests,
         UNCHANGED <<residents, proc, lost>>,
         \A r \in Requests : awaits[q] = r => proc[r] = "gone",
         awaits' = [awaits EXCEPT ![q] = None],
         NEW x \in PcState, pc' = [pc EXCEPT ![q] = x]
  PROVE  ProcessInv'
<1>1. /\ \A r : Victim(r) => Victim(r)' \/ awaits[q] = r
      /\ \A r : Victim(r)' => Victim(r) \/ None = r
  BY RequestVictims DEF TableInv
<1>2. StopInv'
  BY <1>1, NothingStops, LoadsProgress, LifecycleAssumption DEF ProcessInv
<1>3. AwaitsAtStops'
  BY DEF AwaitsAtStops, ProcessInv, TableInv, TypeInv, TypeOK
<1> QED
  BY <1>2, <1>3 DEF ProcessInv

\* A request awaits nothing, but where it stops a process
LEMMA AwaitsNothing ==
  ASSUME TableInv, ProcessInv, NEW q \in Requests, pc[q] \notin {"reloading", "stopping"}
  PROVE  awaits[q] = None /\ awaits = [awaits EXCEPT ![q] = None]
BY DEF ProcessInv, AwaitsAtStops, TableInv, TypeInv, TypeOK

\* Leaving acquire
LEMMA LeaveStops ==
  ASSUME TableInv, ProcessInv, SameLoads, UNCHANGED serviceVars, NEW q \in Requests,
         NEW a \in Asks, NEW r \in Requests, task[r] # "none", NEW s, Leave(q, a, r, s),
         \A p \in Requests : awaits[q] = p => proc[p] = "gone"
  PROVE  ProcessInv'
<1> DEFINE objects == [rsd EXCEPT ![r] = s]
           names == IF s.active = 0 /\ s.keepAlive = 0 THEN <<ask[r].model>> ELSE <<>>
           x == IF Awaited(names) = None THEN AfterResponse(a.kind) ELSE "stopping"
           w == Awaited(names)
<1>1. Unload(names, objects) /\ awaits' = [awaits EXCEPT ![q] = w] /\ pc' = [pc EXCEPT ![q] = x]
  BY DEF Leave
<1>2. ask[r].model \in Models
  BY AskTypes DEF TableInv, TypeInv, TypeOK, References
<1>3. names \in Seq(Models)
  BY <1>2
<1>4. x \in PcState /\ (w # None => x \in {"reloading", "stopping"})
  BY DEF PcState, AfterResponse
<1> HIDE DEF objects, names, x, w
<1>5. w = Awaited(names)
  BY DEF w
<1> QED
  BY <1>1, <1>3, <1>4, <1>5, RequestUnloads

\* Entering it
LEMMA EnterStops ==
  ASSUME TableInv, ProcessInv, SameLoads, UNCHANGED serviceVars, NEW q \in Requests,
         NEW a \in Asks, NEW r \in Requests, task[r] # "none", Enter(q, a, r),
         \A p \in Requests : awaits[q] = p => proc[p] = "gone"
  PROVE  ProcessInv'
<1>1. CASE a.kind = "stream"
  <2>1. \E s : Leave(q, a, r, s)
    BY <1>1 DEF Enter
  <2> QED
    BY <2>1, LeaveStops
<1>2. CASE a.kind # "stream"
  <2>1. /\ UNCHANGED <<residents, proc, lost>> /\ awaits' = [awaits EXCEPT ![q] = None]
        /\ \E x \in {"serving", "done"} : pc' = [pc EXCEPT ![q] = x]
    BY <1>2 DEF Enter
  <2> QED
    BY <2>1, RequestPasses DEF PcState
<1> QED
  BY <1>1, <1>2

\* ensure_ready, in its four outcomes
LEMMA EnsureReadyStops ==
  ASSUME TableInv, ProcessInv, UNCHANGED serviceVars, NEW q \in Requests, NEW a \in Asks,
         EnsureReady(q, a), pc[q] \in {"new", "reloading"}, ask' = [ask EXCEPT ![q] = a],
         \A p \in Requests : awaits[q] = p => proc[p] = "gone"
  PROVE  ProcessInv'
<1>1. /\ task[q] = "none" /\ a.model \in Models
      /\ \A t \in Requests : task[t] # "none" => ask'[t] = ask[t]
  BY AskTypes DEF TableInv, Untasked, TypeInv, TypeOK
<1>2. SameLoads
  BY <1>1 DEF EnsureReady, Reuse, Reload, JoinLoad, StartLoad, loadVars, SameLoads,
              TableInv, TypeInv, TypeOK
<1>3. CASE Reuse(q, a)
  <2> DEFINE r == residents[a.model]
  <2>1. r # None /\ Enter(q, a, r)
    BY <1>3 DEF Reuse, HasServing
  <2>2. r \in Requests /\ task[r] # "none"
    BY <1>1, <2>1, EntriesHaveLoads
  <2> HIDE DEF r
  <2> QED
    BY <1>2, <2>1, <2>2, EnterStops
<1>4. CASE Reload(q, a)
  <2> DEFINE names == <<a.model>>
             w == Awaited(names)
             x == "reloading"
  <2>1. Unload(names, rsd) /\ awaits' = [awaits EXCEPT ![q] = w] /\ pc' = [pc EXCEPT ![q] = x]
    BY <1>4 DEF Reload
  <2>2. names \in Seq(Models) /\ x \in PcState /\ x \in {"reloading", "stopping"}
    BY <1>1 DEF PcState
  <2> HIDE DEF names, w, x
  <2>3. w = Awaited(names)
    BY DEF w
  <2> QED
    BY <1>2, <2>1, <2>2, <2>3, RequestUnloads
<1>5. CASE JoinLoad(q, a) \/ StartLoad(q, a)
  <2>1. /\ UNCHANGED <<residents, proc, lost>> /\ awaits' = [awaits EXCEPT ![q] = None]
        /\ pc' = [pc EXCEPT ![q] = "waiting"]
    BY <1>5 DEF JoinLoad, StartLoad, tableVars
  <2> QED
    BY <1>2, <2>1, RequestPasses DEF PcState
<1> QED
  BY <1>3, <1>4, <1>5 DEF EnsureReady

\* The steps of a request
LEMMA RequestStops ==
  ASSUME TableInv, ProcessInv, NEW q \in Requests, RequestStep(q)
  PROVE  ProcessInv'
<1>1. UNCHANGED serviceVars
  BY DEF RequestStep, Begin, Resume, Wake, Release, EndStop, EndStream, Cancel
<1>2. None \notin Requests
  BY LifecycleAssumption
<1>3. ASSUME UNCHANGED <<ask, loadVars>> PROVE SameLoads
  BY <1>3 DEF SameLoads, loadVars
<1>4. CASE Begin(q)
  <2>1. PICK a \in Asks :
          /\ ask' = [ask EXCEPT ![q] = a]
          /\ IF a.kind = "unload" THEN UnloadRequest(q, a) ELSE EnsureReady(q, a)
    BY <1>4 DEF Begin
  <2>2. pc[q] = "new" /\ awaits[q] = None
    BY <1>4, AwaitsNothing DEF Begin
  <2>3. CASE a.kind = "unload"
    <3> DEFINE names == <<a.model>>
               w == Awaited(names)
               x == IF w = None THEN "done" ELSE "stopping"
    <3>1. /\ Unload(names, rsd) /\ awaits' = [awaits EXCEPT ![q] = w]
          /\ pc' = [pc EXCEPT ![q] = x] /\ UNCHANGED loadVars
      BY <2>1, <2>3 DEF UnloadRequest
    <3>2. /\ names \in Seq(Models) /\ x \in PcState
          /\ w # None => x \in {"reloading", "stopping"}
      BY AskTypes DEF PcState
    <3> HIDE DEF names, w, x
    <3>3. SameLoads
      BY <2>1, <2>2, <3>1 DEF SameLoads, loadVars, TableInv, TypeInv, TypeOK, References
    <3>4. w = Awaited(names)
      BY DEF w
    <3> QED
      BY <1>1, <1>2, <2>2, <3>1, <3>2, <3>3, <3>4, RequestUnloads
  <2> QED
    BY <1>1, <1>2, <2>1, <2>2, <2>3, EnsureReadyStops
<1>5. CASE Resume(q)
  <2>1. /\ pc[q] = "reloading" /\ proc[awaits[q]] = "gone"
        /\ EnsureReady(q, ask[q]) /\ UNCHANGED ask
    BY <1>5 DEF Resume
  <2>2. ask[q] \in Asks /\ ask' = [ask EXCEPT ![q] = ask[q]]
    BY <2>1, AskStays DEF TableInv
  <2> QED
    BY <1>1, <2>1, <2>2, EnsureReadyStops
<1>6. CASE Wake(q)
  <2>1. pc[q] = "waiting" /\ UNCHANGED <<ask, loadVars>>
    BY <1>6 DEF Wake
  <2>2. awaits[q] = None /\ awaits = [awaits EXCEPT ![q] = None]
    BY <2>1, AwaitsNothing
  <2>3. holds[q] \in Requests /\ ask[q] \in Asks /\ task[holds[q]] # "none"
    BY <2>1 DEF TableInv, TypeInv, TypeOK, References
  <2>4. CASE Enter(q, ask[q], holds[q])
    BY <1>1, <1>2, <1>3, <2>1, <2>2, <2>3, <2>4, EnterStops
  <2>5. CASE pc' = [pc EXCEPT ![q] = "done"] /\ UNCHANGED <<tableVars, awaits>>
    BY <1>1, <1>2, <1>3, <2>1, <2>2, <2>5, RequestPasses DEF PcState, tableVars
  <2> QED
    BY <1>6, <2>4, <2>5 DEF Wake
<1>7. CASE Release(q)
  <2>1. /\ pc[q] = "serving" /\ UNCHANGED <<ask, loadVars>>
        /\ \E s : Leave(q, ask[q], holds[q], s)
    BY <1>7 DEF Release
  <2>2. awaits[q] = None
    BY <2>1, AwaitsNothing
  <2>3. holds[q] \in Requests /\ ask[q] \in Asks /\ task[holds[q]] # "none"
    BY <2>1 DEF TableInv, TypeInv, TypeOK, References
  <2> QED
    BY <1>1, <1>2, <1>3, <2>1, <2>2, <2>3, LeaveStops
<1>8. CASE EndStop(q)
  <2>1. /\ UNCHANGED <<ask, loadVars, tableVars>> /\ awaits' = [awaits EXCEPT ![q] = None]
        /\ proc[awaits[q]] = "gone"
        /\ \E x \in {"streaming", "done"} : pc' = [pc EXCEPT ![q] = x]
    BY <1>8 DEF EndStop, AfterResponse
  <2> QED
    BY <1>1, <1>3, <2>1, RequestPasses DEF PcState, tableVars
<1>9. CASE EndStream(q)
  <2>1. /\ pc[q] = "streaming" /\ UNCHANGED <<ask, loadVars, tableVars, awaits>>
        /\ pc' = [pc EXCEPT ![q] = "done"]
    BY <1>9 DEF EndStream
  <2>2. awaits[q] = None /\ awaits = [awaits EXCEPT ![q] = None]
    BY <2>1, AwaitsNothing
  <2> QED
    BY <1>1, <1>2, <1>3, <2>1, <2>2, RequestPasses DEF PcState, tableVars
<1>10. CASE Cancel(q)
  <2>1. /\ UNCHANGED <<residents, ask, loadVars>> /\ awaits' = [awaits EXCEPT ![q] = None]
        /\ pc' = [pc EXCEPT ![q] = "done"]
        /\ IF pc[q] = "waiting" THEN UNCHANGED <<proc, lost>> ELSE AbandonStop(awaits[q])
    BY <1>10 DEF Cancel
  <2>2. CASE pc[q] = "waiting"
    <3>1. awaits[q] = None
      BY <2>2, AwaitsNothing
    <3> QED
      BY <1>1, <1>2, <1>3, <2>1, <2>2, <3>1, RequestPasses DEF PcState
  <2>3. CASE pc[q] # "waiting"
    <3>1. PICK v : v = awaits[q]
      OBVIOUS
    <3>2. /\ \A r : Victim(r) => Victim(r)' \/ awaits[q] = r
          /\ \A r : Victim(r)' => Victim(r) \/ None = r
      BY <1>1, <1>3, <2>1, RequestVictims DEF TableInv
    <3>3. v \in Requests => Victim(v)
      BY <3>1 DEF Victim, StoppedElsewhere
    <3>4. SameLoads /\ UNCHANGED residents /\ AbandonStop(v)
      BY <1>3, <2>1, <2>3, <3>1
    <3>5. StopInv'
      BY <1>2, <3>1, <3>2, <3>3, <3>4, AbandonStops, LoadsProgress DEF ProcessInv
    <3>6. AwaitsAtStops'
      BY <2>1 DEF AwaitsAtStops, ProcessInv, TableInv, TypeInv, TypeOK
    <3> QED
      BY <3>5, <3>6 DEF ProcessInv
  <2> QED
    BY <2>2, <2>3
<1> QED
  BY <1>4, <1>5, <1>6, <1>7, <1>8, <1>9, <1>10 DEF RequestStep

----------------------------------------------------------------------------
(* The steps of a load                                                     *)

\* Two loads under way are not for one model
LEMMA OneLoadEach ==
  ASSUME CapacityInv, NEW t \in Requests, NEW u \in Requests, Pending(t), Pending(u),
         ask[t].model = ask[u].model
  PROVE  t = u
BY DEF CapacityInv, SingleFlight

\* The steps of a load, or of the service, leave the requests where they await
LEMMA RequestsAwaitOn ==
  ASSUME ProcessInv, UNCHANGED requestVars, StopInv'
  PROVE  ProcessInv'
BY DEF ProcessInv, AwaitsAtStops, requestVars

\* What is awaited elsewhere, while requests and service do not move
LEMMA OthersAwaitOn ==
  ASSUME UNCHANGED <<requestVars, serviceVars>>
  PROVE  \A r : StoppedElsewhere(r)' <=> StoppedElsewhere(r)
BY DEF StoppedElsewhere, requestVars, serviceVars

\* An eviction: its victim is awaited by the load, and its reservation has an owner
LEMMA EvictStops ==
  ASSUME CapacityInv, ProcessInv, NEW t \in Requests, task[t] \in {"queued", "evicting"},
         task[t] = "evicting" => proc[evicting[t].victim] = "gone",
         NEW names \in Seq(Models), Evict(t, names), UNCHANGED <<requestVars, serviceVars>>
  PROVE  StopInv'
<1>1. /\ TableInv /\ TypeInv /\ StopInv /\ None \notin Requests
      /\ task \in [Requests -> TaskState] /\ evicting \in [Requests -> Job]
      /\ proc \in [Requests -> ProcState] /\ ask[t].model \in Models
  BY LifecycleAssumption, AskTypes
  DEF CapacityInv, TableInv, ProcessInv, TypeInv, TypeOK, TaskState, ProcState, References
<1>2. UNCHANGED ask /\ \A r : StoppedElsewhere(r)' <=> StoppedElsewhere(r)
  BY OthersAwaitOn DEF requestVars
<1>3. CASE Awaited(names) # None
  <2>1. /\ Unload(names, rsd) /\ task' = [task EXCEPT ![t] = "evicting"]
        /\ evicting' = [evicting EXCEPT ![t] = JobAfter(names)]
    BY <1>3 DEF Evict
  <2>2. SameProgress
    BY <1>1, <1>2, <2>1 DEF SameProgress
  <2>3. evicting'[t].victim = Awaited(names) /\ task'[t] = "evicting"
    BY <1>1, <2>1 DEF JobAfter
  <2>4. \A u \in Requests \ {t} : task'[u] = task[u] /\ evicting'[u] = evicting[u]
    BY <1>1, <2>1
  <2>5. \A r \in Requests : Victim(r) => Victim(r)' \/ proc[r] = "gone"
    BY <1>2, <2>4 DEF Victim, StoppedByAdmission
  <2>6. \A r \in Requests : Victim(r)' => Victim(r) \/ Awaited(names) = r
    BY <1>2, <2>3, <2>4 DEF Victim, StoppedByAdmission
  <2>7. \A r \in Requests : Awaited(names) = r => Victim(r)'
    BY <2>3 DEF Victim, StoppedByAdmission
  <2> QED
    BY <1>1, <2>1, <2>2, <2>5, <2>6, <2>7, UnloadStops
<1>4. CASE Awaited(names) = None
  <2>1. /\ residents' = [TableAfter(names) EXCEPT ![ask[t].model] = t]
        /\ proc' = [proc EXCEPT ![t] = "starting"]
        /\ lost' = LostAfter(names)
        /\ task' = [task EXCEPT ![t] = "spawning"]
        /\ evicting' = [evicting EXCEPT ![t] = NoJob]
    BY <1>4 DEF Evict
  <2>2. task'[t] = "spawning" /\ \A u \in Requests \ {t} : task'[u] = task[u]
                                    /\ evicting'[u] = evicting[u] /\ proc'[u] = proc[u]
    BY <1>1, <2>1
  <2>3. /\ residents'[ask[t].model] = t /\ lost \subseteq lost'
        /\ \A m \in Models \ {ask[t].model} : residents'[m] = TableAfter(names)[m]
    BY <1>1, <2>1 DEF LostAfter, TableAfter
  <2>4. residents[ask[t].model] = None
    BY DEF CapacityInv, Absent
  <2>5. \A r \in Requests : Victim(r)' => Victim(r) /\ r # t
    <3>1. \A r \in Requests : Victim(r)' => Victim(r)
      BY <1>2, <2>2 DEF Victim, StoppedByAdmission
    <3>2. ~Victim(t)
      BY <1>1 DEF StopInv, VictimsEnd
    <3> QED
      BY <3>1, <3>2
  <2>6. VictimsEnd'
    BY <1>1, <2>2, <2>3, <2>5 DEF StopInv, VictimsEnd
  <2>7. Reserved'
    <3> SUFFICES ASSUME NEW u \in Requests, task'[u] = "spawning"
                 PROVE  \/ residents'[ask[u].model] = u
                        \/ residents'[ask[u].model] = None /\ u \in lost'
      BY <1>2 DEF Reserved
    <3>1. CASE u = t
      BY <2>3, <3>1
    <3>2. CASE u # t
      <4>1. task[u] = "spawning" /\ ask[u].model # ask[t].model /\ ask[u].model \in Models
        BY <1>1, <2>2, <3>2, OneLoadEach, AskTypes DEF Pending, TypeInv, TypeOK, References
      <4>2. /\ residents'[ask[u].model] = TableAfter(names)[ask[u].model]
            /\ \/ residents[ask[u].model] = u
               \/ residents[ask[u].model] = None /\ u \in lost
        BY <1>1, <2>3, <4>1 DEF StopInv, Reserved
      <4>3. TableAfter(names)[ask[u].model] \in {None, residents[ask[u].model]}
        BY <4>1 DEF TableAfter
      <4>4. ASSUME residents[ask[u].model] = u, residents'[ask[u].model] # u PROVE u \in lost'
        <5>1. ask[u].model \in Present
          BY <1>1, <4>1, <4>4 DEF Present
        <5> QED
          BY <1>1, <2>1, <4>1, <4>2, <4>4, <5>1, UnloadTakes, ZenonT(30)
      <4> QED
        BY <2>3, <4>2, <4>3, <4>4
    <3> QED
      BY <3>1, <3>2
  <2>8. NoProcessForgotten'
    <3> SUFFICES ASSUME NEW r \in Alive' \ lost'
                 PROVE  (InTable(r) \/ task[r] = "spawning" \/ Victim(r))'
      BY DEF NoProcessForgotten, InTable, Victim, StopAwaited
    <3>1. r \in Requests /\ r \notin lost
      BY <2>3 DEF Alive
    <3>2. CASE r = t
      BY <2>2, <3>2
    <3>3. CASE r # t
      <4>1. r \in Alive /\ proc[r] # "gone"
        BY <2>2, <3>1, <3>3 DEF Alive
      <4>2. InTable(r) \/ task[r] = "spawning" \/ Victim(r)
        BY <1>1, <3>1, <4>1 DEF StopInv, NoProcessForgotten, InTable, Victim, StopAwaited
      <4>3. CASE InTable(r)
        <5>1. PICK m \in Present : residents[m] = r
          BY <4>3 DEF InTable
        <5>2. m \in Models /\ m # ask[t].model /\ r # None
          BY <1>1, <2>4, <3>1, <5>1 DEF Present
        <5>3. TableAfter(names)[m] = r
          BY <1>1, <1>4, <2>1, <3>1, <5>1, UnloadTakes
        <5> QED
          BY <2>3, <5>2, <5>3 DEF InTable, Present
      <4>4. CASE Victim(r)
        BY <1>2, <2>2, <4>1, <4>4 DEF Victim, StoppedByAdmission
      <4> QED
        BY <2>2, <3>1, <3>3, <4>2, <4>3, <4>4
    <3> QED
      BY <3>2, <3>3
  <2> QED
    BY <2>6, <2>7, <2>8 DEF StopInv
<1> QED
  BY <1>3, <1>4

\* A load under way that goes on, becomes ready or ends, and its reservation with it
LEMMA OneLoadMoves ==
  ASSUME TableInv, StopInv, UNCHANGED ask, NEW t \in Requests, task[t] = "spawning",
         \A r \in Requests \ {t} : task'[r] = task[r] /\ proc'[r] = proc[r],
         lost \subseteq lost', \A r \in Requests : Victim(r)' <=> Victim(r),
         \/ task'[t] \in {"spawning", "ready"} /\ UNCHANGED residents
         \/ /\ task'[t] = "failed" /\ residents' = ReservationDropped(t)
            /\ t \in lost' \/ proc'[t] = "gone"
  PROVE  StopInv'
<1>1. /\ VictimsEnd /\ Reserved /\ NoProcessForgotten /\ t # None
      /\ residents \in [Models -> Opt] /\ ask[t].model \in Models
  BY LifecycleAssumption, AskTypes DEF StopInv, TableInv, TypeInv, TypeOK, References
<1>2. \A m \in Models : residents'[m] = residents[m]
                        \/ (task'[t] = "failed" /\ residents[m] = t /\ residents'[m] = None)
  BY <1>1 DEF ReservationDropped, Reserved
<1>3. VictimsEnd'
  BY <1>1 DEF VictimsEnd
<1>4. Reserved'
  <2> SUFFICES ASSUME NEW u \in Requests, task'[u] = "spawning"
               PROVE  \/ residents'[ask[u].model] = u
                      \/ residents'[ask[u].model] = None /\ u \in lost'
    BY DEF Reserved
  <2>1. task[u] = "spawning" /\ ask[u].model \in Models
    BY AskTypes DEF TableInv, TypeInv, TypeOK, References
  <2> QED
    BY <1>1, <1>2, <2>1 DEF Reserved
<1>5. NoProcessForgotten'
  <2> SUFFICES ASSUME NEW r \in Alive' \ lost'
               PROVE  (InTable(r) \/ task[r] = "spawning" \/ Victim(r))'
    BY DEF NoProcessForgotten, InTable, Victim, StopAwaited
  <2>1. r \in Requests /\ r \notin lost /\ proc'[r] # "gone"
    BY DEF Alive
  <2>2. ASSUME NEW m \in Models, residents'[m] = r PROVE InTable(r)'
    BY <2>1, <2>2, LifecycleAssumption DEF InTable, Present
  <2>3. CASE r = t
    BY <1>1, <2>1, <2>2, <2>3 DEF Reserved
  <2>4. CASE r # t
    <3>1. r \in Alive
      BY <2>1, <2>4 DEF Alive
    <3>2. InTable(r) \/ task[r] = "spawning" \/ Victim(r)
      BY <1>1, <2>1, <3>1 DEF NoProcessForgotten, InTable, Victim, StopAwaited
    <3>3. InTable(r) => \E m \in Models : residents'[m] = r
      BY <1>2, <2>4 DEF InTable, Present
    <3> QED
      BY <2>1, <2>2, <2>4, <3>2, <3>3
  <2> QED
    BY <2>3, <2>4
<1> QED
  BY <1>3, <1>4, <1>5 DEF StopInv

\* The steps of a load
LEMMA LoadStops ==
  ASSUME CapacityInv, ProcessInv, NEW t \in Requests, LoadStep(t)
  PROVE  ProcessInv'
<1>1. /\ TableInv /\ StopInv /\ task \in [Requests -> TaskState]
      /\ proc \in [Requests -> ProcState]
  BY DEF CapacityInv, TableInv, ProcessInv, TypeInv, TypeOK, TaskState, ProcState
<1>2. UNCHANGED <<requestVars, serviceVars>> /\ UNCHANGED <<requestVars, ask>>
  BY DEF LoadStep, RejectLoad, Admission, EvictNext, SpawnReady, SpawnFails, LoadFails,
         requestVars
<1>3. \A r : StoppedElsewhere(r)' <=> StoppedElsewhere(r)
  BY <1>2, OthersAwaitOn
<1>4. CASE task' = [task EXCEPT ![t] = "failed"] /\ UNCHANGED <<tableVars, evicting>>
           /\ task[t] = "queued"
  <2>1. SameProgress
    BY <1>1, <1>2, <1>4 DEF SameProgress
  <2>2. \A r : Victim(r)' <=> Victim(r)
    BY <1>1, <1>3, <1>4 DEF Victim, StoppedByAdmission
  <2>3. StopInv'
    BY <1>1, <1>4, <2>1, <2>2, NothingStops DEF tableVars
  <2> QED
    BY <1>2, <2>3, RequestsAwaitOn
<1>5. ASSUME NEW names \in Seq(Models), Evict(t, names), task[t] \in {"queued", "evicting"},
             task[t] = "evicting" => proc[evicting[t].victim] = "gone"
      PROVE  ProcessInv'
  BY <1>2, <1>5, EvictStops, RequestsAwaitOn
<1>6. CASE RejectLoad(t)
  BY <1>4, <1>6 DEF RejectLoad
<1>7. CASE Admission(t)
  <2>1. PICK plan \in Plans(ask[t].model, Bytes(t), ResidentInfos) :
          \/ plan.admitted /\ Evict(t, plan.evictions)
          \/ /\ ~plan.admitted
             /\ task' = [task EXCEPT ![t] = "failed"]
             /\ UNCHANGED <<tableVars, evicting, lock>>
    BY <1>7 DEF Admission
  <2>2. task[t] = "queued" /\ plan.evictions \in Seq(Models)
    BY <1>7, EvictionsType DEF Admission
  <2> QED
    BY <1>4, <1>5, <2>1, <2>2
<1>8. CASE EvictNext(t)
  <2>1. evicting[t].rest \in Seq(Models)
    BY <1>1 DEF TableInv, TypeInv, TypeOK, Job
  <2> QED
    BY <1>5, <1>8, <2>1 DEF EvictNext
<1>9. CASE SpawnReady(t) \/ SpawnFails(t) \/ LoadFails(t)
  <2>1. /\ task[t] = "spawning" /\ UNCHANGED <<evicting, lost>>
        /\ \/ task' = [task EXCEPT ![t] = "ready"] /\ UNCHANGED residents
           \/ task' = task /\ UNCHANGED residents
           \/ /\ task' = [task EXCEPT ![t] = "failed"] /\ UNCHANGED proc /\ proc[t] = "gone"
              /\ residents' = ReservationDropped(t)
        /\ UNCHANGED proc \/ \E x \in ProcState : proc' = [proc EXCEPT ![t] = x]
    BY <1>9 DEF SpawnReady, SpawnFails, LoadFails, loadVars, ProcState
  <2>2. \A r \in Requests \ {t} : task'[r] = task[r] /\ proc'[r] = proc[r]
    BY <1>1, <2>1
  <2>3. task'[t] \in {"ready", "spawning", "failed"}
    BY <1>1, <2>1
  <2>4. \A r : Victim(r)' <=> Victim(r)
    <3>1. \A u \in Requests : task'[u] = "evicting" <=> task[u] = "evicting"
      BY <2>1, <2>2, <2>3
    <3> QED
      BY <1>3, <2>1, <3>1 DEF Victim, StoppedByAdmission
  <2>5. \/ task'[t] \in {"spawning", "ready"} /\ UNCHANGED residents
        \/ task'[t] = "failed" /\ residents' = ReservationDropped(t) /\ proc'[t] = "gone"
    BY <1>1, <2>1
  <2>6. StopInv'
    BY <1>1, <1>2, <2>1, <2>2, <2>4, <2>5, OneLoadMoves
  <2> QED
    BY <1>2, <2>6, RequestsAwaitOn
<1> QED
  BY <1>6, <1>7, <1>8, <1>9 DEF LoadStep

----------------------------------------------------------------------------
(* The steps of the service                                                *)

\* a load has evictions to wait for in one state only
JobsWhileEvicting == \A t \in Requests : task[t] # "evicting" => evicting[t] = NoJob

LEMMA NextJobs ==
  ASSUME TableInv, JobsWhileEvicting, [Next]_vars
  PROVE  JobsWhileEvicting'
<1> USE DEF TableInv
<1>1. ASSUME UNCHANGED <<task, evicting>> PROVE JobsWhileEvicting'
  BY <1>1 DEF JobsWhileEvicting
<1>2. ASSUME NEW t \in Requests, NEW x \in TaskState, NEW j \in {NoJob, evicting[t]},
             task' = [task EXCEPT ![t] = x], evicting' = [evicting EXCEPT ![t] = j],
             x # "evicting", j = NoJob \/ task[t] # "evicting"
      PROVE  JobsWhileEvicting'
  BY <1>2 DEF JobsWhileEvicting, TypeInv, TypeOK
<1>3. ASSUME NEW t \in Requests, NEW x \in TaskState, task' = [task EXCEPT ![t] = x],
             x # "evicting", task[t] # "evicting", UNCHANGED evicting
      PROVE  JobsWhileEvicting'
  BY <1>3 DEF JobsWhileEvicting, TypeInv, TypeOK
<1>4. ASSUME NEW t \in Requests, NEW names, Evict(t, names) PROVE JobsWhileEvicting'
  BY <1>4 DEF Evict, JobsWhileEvicting, TypeInv, TypeOK
<1>5. ASSUME NEW q \in Requests, RequestStep(q) PROVE JobsWhileEvicting'
  <2>1. \/ UNCHANGED <<task, evicting>>
        \/ \E a \in Asks : StartLoad(q, a) /\ pc[q] \in {"new", "reloading"}
    <3>1. ASSUME NEW a \in Asks, EnsureReady(q, a)
          PROVE  UNCHANGED <<task, evicting>> \/ StartLoad(q, a)
      BY <3>1 DEF EnsureReady, Reuse, Reload, JoinLoad, loadVars
    <3>2. CASE Begin(q)
      BY <3>1, <3>2 DEF Begin, UnloadRequest, loadVars
    <3>3. CASE Resume(q)
      BY <3>1, <3>3 DEF Resume, TableInv, TypeInv, TypeOK
    <3> QED
      BY <1>5, <3>2, <3>3
      DEF RequestStep, Wake, Release, EndStop, EndStream, Cancel, loadVars
  <2>2. pc[q] \in {"new", "reloading"} => task[q] = "none"
    BY DEF TableInv, Untasked
  <2> QED
    BY <1>1, <1>3, <2>1, <2>2 DEF StartLoad, TaskState
<1>6. ASSUME NEW t \in Requests, LoadStep(t) PROVE JobsWhileEvicting'
  BY <1>1, <1>3, <1>4, <1>6
  DEF LoadStep, RejectLoad, Admission, EvictNext, SpawnReady, SpawnFails, LoadFails, loadVars,
      TaskState
<1>7. ASSUME NEW t \in Requests, CancelLoad(t) PROVE JobsWhileEvicting'
  BY <1>1, <1>2, <1>3, <1>7 DEF CancelLoad, TaskState
<1>8. CASE ServiceStep
  BY <1>1, <1>7, <1>8
  DEF ServiceStep, SweepStart, SweepNext, Sweep, Tick, StopService, CloseStart, CloseNext, Close,
      loadVars
<1>9. CASE UNCHANGED vars \/ (\E r \in Requests : Exit(r)) \/ (\E m \in Models : Callback(m))
  BY <1>1, <1>9 DEF vars, loadVars, Exit, Callback
<1> QED
  BY <1>5, <1>6, <1>8, <1>9 DEF Next

\* what the sweep and the shutdown await, and what remains of the requests
LEMMA ServiceVictims ==
  ASSUME UNCHANGED <<evicting, task, requestVars>>
  PROVE  /\ SameProgress
         /\ \A r : StoppedByAdmission(r)' <=> StoppedByAdmission(r)
         /\ \A r : (\E q \in Requests : awaits'[q] = r) <=> (\E q \in Requests : awaits[q] = r)
BY DEF SameProgress, StoppedByAdmission, requestVars

\* The sweep and the passing of time, the stop of the service and its shutdown
LEMMA ServiceStops ==
  ASSUME CapacityInv, ProcessInv, JobsWhileEvicting, ServiceStep
  PROVE  ProcessInv'
<1>1. /\ TableInv /\ TypeInv /\ StopInv /\ task \in [Requests -> TaskState]
      /\ proc \in [Requests -> ProcState] /\ None \notin Requests
  BY LifecycleAssumption
  DEF CapacityInv, TableInv, ProcessInv, TypeInv, TypeOK, TaskState, ProcState
<1>2. UNCHANGED requestVars
  BY DEF ServiceStep, SweepStart, SweepNext, Sweep, Tick, StopService, CancelLoad, CloseStart,
         CloseNext, Close
<1> SUFFICES StopInv'
  BY <1>2, RequestsAwaitOn
<1>3. Present \in SUBSET Models /\ Due \in SUBSET Models
  BY DEF Present, Due
<1>4. ASSUME NEW names \in Seq(Models), Sweep(names),
             \A r \in Requests : sweeper.victim = r => proc[r] = "gone"
      PROVE  StopInv'
  <2>1. /\ Unload(names, rsd) /\ UNCHANGED <<evicting, task, phase, closing>>
        /\ sweeper'.victim = Awaited(names)
    BY <1>4 DEF Sweep, JobAfter, loadVars
  <2>2. /\ \A r \in Requests : Victim(r) => Victim(r)' \/ proc[r] = "gone"
        /\ \A r \in Requests : Victim(r)' => Victim(r) \/ Awaited(names) = r
        /\ \A r \in Requests : Awaited(names) = r => Victim(r)'
    BY <1>2, <1>4, <2>1, ServiceVictims DEF Victim, StoppedElsewhere
  <2> QED
    BY <1>1, <1>2, <2>1, <2>2, ServiceVictims, UnloadStops
<1>5. CASE SweepStart \/ SweepNext
  <2>1. CASE SweepStart
    <3>1. sweeper.victim = None
      BY <2>1 DEF SweepStart, NoJob
    <3> QED
      BY <1>1, <1>3, <1>4, <2>1, <3>1, SequencesOfSets DEF SweepStart
  <2>2. CASE SweepNext
    <3>1. sweeper.rest \in Seq(Models)
      BY <1>1 DEF TypeInv, TypeOK, Job
    <3> QED
      BY <1>4, <2>2, <3>1 DEF SweepNext
  <2> QED
    BY <1>5, <2>1, <2>2
<1>6. CASE Tick
  <2>1. UNCHANGED <<residents, proc, lost, evicting, task, sweeper, phase, closing>>
    BY <1>6 DEF Tick, loadVars, serviceVars
  <2>2. \A r : Victim(r)' <=> Victim(r)
    BY <1>2, <2>1, ServiceVictims DEF Victim, StoppedElsewhere
  <2> QED
    BY <1>1, <1>2, <2>1, <2>2, ServiceVictims, NothingStops
<1>7. CASE StopService
  <2>1. /\ UNCHANGED <<residents, evicting, task, closing>> /\ AbandonStop(sweeper.victim)
        /\ phase = "up" /\ phase' = "loads" /\ sweeper' = NoJob
    BY <1>7 DEF StopService, loadVars
  <2>2. /\ \A r \in Requests : Victim(r) => Victim(r)' \/ r = sweeper.victim
        /\ \A r \in Requests : Victim(r)' => Victim(r)
        /\ sweeper.victim \in Requests => Victim(sweeper.victim)
    BY <1>1, <1>2, <2>1, ServiceVictims DEF Victim, StoppedElsewhere, NoJob
  <2> DEFINE v == sweeper.victim
  <2> HIDE DEF v
  <2>3. /\ AbandonStop(v) /\ (v \in Requests => Victim(v))
        /\ \A r \in Requests : Victim(r) => Victim(r)' \/ r = v
    BY <2>1, <2>2 DEF v
  <2> QED
    BY <1>1, <1>2, <2>1, <2>2, <2>3, ServiceVictims, AbandonStops
<1>8. ASSUME NEW t \in Requests, CancelLoad(t) PROVE StopInv'
  <2>1. /\ phase = "loads" /\ UNCHANGED <<ask, sweeper, phase>>
        /\ \A r : StoppedElsewhere(r)' <=> StoppedElsewhere(r)
    BY <1>2, <1>8 DEF CancelLoad, StoppedElsewhere, requestVars
  <2>2. CASE task[t] = "spawning"
    <3>1. /\ UNCHANGED evicting /\ lost \subseteq lost'
          /\ \A r \in Requests \ {t} : task'[r] = task[r] /\ proc'[r] = proc[r]
          /\ \/ task'[t] = "spawning" /\ UNCHANGED residents
             \/ task'[t] = "failed" /\ residents' = ReservationDropped(t) /\ t \in lost'
      <4>1. CASE proc' = [proc EXCEPT ![t] = "stopping"]
                 /\ UNCHANGED <<residents, lost, task, evicting, lock>>
        BY <1>1, <2>2, <4>1
      <4>2. CASE /\ proc[t] = "stopping" /\ AbandonStop(t)
                 /\ residents' = ReservationDropped(t)
                 /\ task' = [task EXCEPT ![t] = "failed"] /\ UNCHANGED evicting
        BY <1>1, <4>2 DEF AbandonStop
      <4> QED
        BY <1>8, <2>2, <4>1, <4>2 DEF CancelLoad
    <3>2. \A r : Victim(r)' <=> Victim(r)
      BY <2>1, <2>2, <3>1 DEF Victim, StoppedByAdmission
    <3> QED
      BY <1>1, <2>1, <2>2, <3>1, <3>2, OneLoadMoves
  <2>3. CASE task[t] \in {"queued", "evicting"}
    <3>1. /\ UNCHANGED residents /\ task' = [task EXCEPT ![t] = "failed"]
          /\ evicting' = [evicting EXCEPT ![t] = NoJob] /\ AbandonStop(evicting[t].victim)
      BY <1>8, <2>3 DEF CancelLoad
    <3> DEFINE v == evicting[t].victim
    <3>2. v \in Requests => Victim(v)
      BY <1>1 DEF JobsWhileEvicting, NoJob, Victim, StoppedByAdmission
    <3>3. /\ \A r \in Requests : Victim(r) => Victim(r)' \/ r = v
          /\ \A r \in Requests : Victim(r)' => Victim(r)
      <4>1. /\ task'[t] = "failed"
            /\ \A u \in Requests \ {t} : task'[u] = task[u] /\ evicting'[u] = evicting[u]
        BY <1>1, <3>1 DEF TypeInv, TypeOK
      <4> QED
        BY <2>1, <4>1 DEF Victim, StoppedByAdmission
    <3>4. SameProgress
      BY <1>1, <2>1, <2>3, <3>1 DEF SameProgress
    <3> HIDE DEF v
    <3>5. AbandonStop(v)
      BY <3>1 DEF v
    <3> QED
      BY <1>1, <3>1, <3>2, <3>3, <3>4, <3>5, AbandonStops
  <2> QED
    BY <1>8, <2>2, <2>3 DEF CancelLoad, Pending
<1>9. ASSUME NEW names \in Seq(Models), Close(names), phase \in {"loads", "residents"},
             phase = "residents" => proc[closing.victim] = "gone"
      PROVE  StopInv'
  <2>1. /\ Unload(names, rsd) /\ UNCHANGED <<evicting, task, sweeper>>
        /\ closing'.victim = Awaited(names)
        /\ phase' = IF Awaited(names) = None THEN "down" ELSE "residents"
    BY <1>9 DEF Close, JobAfter, loadVars
  <2>2. /\ \A r \in Requests : Victim(r) => Victim(r)' \/ proc[r] = "gone"
        /\ \A r \in Requests : Victim(r)' => Victim(r) \/ Awaited(names) = r
        /\ \A r \in Requests : Awaited(names) = r => Victim(r)'
    BY <1>1, <1>2, <1>9, <2>1, ServiceVictims, ZenonT(30) DEF Victim, StoppedElsewhere
  <2> QED
    BY <1>1, <1>2, <2>1, <2>2, ServiceVictims, UnloadStops
<1>10. CASE CloseStart \/ CloseNext
  <2>1. CASE CloseStart
    BY <1>3, <1>9, <2>1, SequencesOfSets DEF CloseStart
  <2>2. CASE CloseNext
    <3>1. closing.rest \in Seq(Models)
      BY <1>1 DEF TypeInv, TypeOK, Job
    <3> QED
      BY <1>9, <2>2, <3>1 DEF CloseNext
  <2> QED
    BY <1>10, <2>1, <2>2
<1> QED
  BY <1>5, <1>6, <1>7, <1>8, <1>10 DEF ServiceStep

----------------------------------------------------------------------------
(* No process is forgotten                                                 *)

\* what the steps keep
StopsInv == CapacityInv /\ JobsWhileEvicting /\ ProcessInv

\* Nothing is stopped at first
LEMMA InitStops == Init => StopsInv
<1> SUFFICES ASSUME Init PROVE StopsInv
  OBVIOUS
<1>1. CapacityInv /\ JobsWhileEvicting
  BY InitCapacity DEF Init, JobsWhileEvicting
<1>2. \A r \in Requests : ~Victim(r) /\ task[r] = "none" /\ proc[r] = "none"
  BY LifecycleAssumption
  DEF Init, Victim, StoppedByAdmission, StoppedElsewhere, NoJob
<1>3. AwaitsAtStops /\ VictimsEnd /\ Reserved /\ NoProcessForgotten
  BY <1>2 DEF Init, AwaitsAtStops, VictimsEnd, Reserved, NoProcessForgotten, Alive
<1> QED
  BY <1>1, <1>3 DEF StopsInv, ProcessInv, StopInv

\* The end of a process, and what does not concern processes
LEMMA OtherStops ==
  ASSUME TableInv, ProcessInv,
         (\E r \in Requests : Exit(r)) \/ (\E m \in Models : Callback(m)) \/ UNCHANGED vars
  PROVE  ProcessInv'
<1>1. /\ UNCHANGED <<residents, lost, task, evicting, requestVars, sweeper, phase, closing>>
      /\ UNCHANGED proc \/ \E r \in Requests :
           proc[r] = "stopping" /\ proc' = [proc EXCEPT ![r] = "gone"]
  BY DEF Exit, Callback, vars, tableVars, loadVars, serviceVars
<1>2. /\ SameProgress /\ UNCHANGED requestVars
      /\ \A r : Victim(r)' <=> Victim(r)
  BY <1>1, ServiceVictims DEF Victim, StoppedElsewhere
<1>3. StopInv
  BY DEF ProcessInv
<1>4. CASE UNCHANGED proc
  BY <1>1, <1>2, <1>3, <1>4, NothingStops, RequestsAwaitOn
<1>5. CASE \E r \in Requests : proc[r] = "stopping" /\ proc' = [proc EXCEPT ![r] = "gone"]
  <2>1. \A r \in Requests : proc'[r] = proc[r] \/ proc'[r] = "gone"
    BY <1>5 DEF TableInv, TypeInv, TypeOK
  <2>2. VictimsEnd' /\ Reserved'
    BY <1>1, <1>2, <1>3, <2>1 DEF StopInv, VictimsEnd, Reserved, requestVars
  <2>3. NoProcessForgotten'
    <3>1. Alive' \subseteq Alive
      BY <2>1 DEF Alive
    <3> QED
      BY <1>1, <1>2, <1>3, <3>1
      DEF StopInv, NoProcessForgotten, Victim, StopAwaited, Present
  <2> QED
    BY <1>2, <2>2, <2>3, RequestsAwaitOn DEF StopInv
<1> QED
  BY <1>1, <1>4, <1>5

\* Every step keeps track of the processes
LEMMA NextStops ==
  ASSUME StopsInv, [Next]_vars
  PROVE  StopsInv'
<1>1. CapacityInv' /\ JobsWhileEvicting' /\ TableInv
  BY NextCapacity, NextJobs DEF StopsInv, CapacityInv
<1>2. ProcessInv'
  BY <1>1, RequestStops, LoadStops, ServiceStops, OtherStops DEF Next, StopsInv
<1> QED
  BY <1>1, <1>2 DEF StopsInv

(***************************************************************************)
(* At any moment, a live llama-server is in the table, or is being loaded, *)
(* or is awaited by whoever stops it, unless it is one of those in lost:   *)
(* unloaded while it was loading, or left by a cancelled stop.  A failed   *)
(* load, an eviction, a sweep and a shutdown leave none behind otherwise,  *)
(* for any number of models and requests (lifecycle.py, _load and          *)
(* _unload_key).                                                           *)
(***************************************************************************)
THEOREM NoProcessIsForgotten == Spec => []NoProcessForgotten
<1>1. Init => StopsInv
  BY InitStops
<1>2. StopsInv /\ [Next]_vars => StopsInv'
  BY NextStops
<1>3. StopsInv => NoProcessForgotten
  BY DEF StopsInv, ProcessInv, StopInv
<1> QED
  BY <1>1, <1>2, <1>3, PTL DEF Spec

----------------------------------------------------------------------------
(* The shutdown                                                            *)

\* no handler runs any more, and the sweeper is cancelled
Drained ==
  phase # "up" => (\A q \in Requests : pc[q] \in {"new", "done"}) /\ sweeper.victim = None

\* nor does any load,
NothingPending == phase \in {"residents", "down"} => \A t \in Requests : ~Pending(t)

\* and what is left in the table is left to unload
Emptying ==
  /\ phase = "residents" => Present \subseteq Among(closing.rest)
  /\ phase = "down" => Present = {}

ShutdownInv == Drained /\ NothingPending /\ Emptying

\* A set in any order has all its members
LEMMA AllNamed ==
  ASSUME NEW S \in SUBSET Models, NEW names \in SetToSeqs(S)
  PROVE  Among(names) = S
<1> DEFINE n == Cardinality(S)
           D == 1 .. n
<1>1. IsFiniteSet(S) /\ n \in Nat
  BY LifecycleAssumption, FS_Subset, FS_CardinalityType
<1>2. names \in [D -> S] /\ \A i, j \in D : i # j => names[i] # names[j]
  BY DEF SetToSeqs
<1>3. Cardinality(D) = n
  BY <1>1, FS_Interval
<1>4. names \in Injection(D, S)
  BY <1>2 DEF Injection, IsInjective
<1>5. names \in Surjection(D, S)
  BY <1>1, <1>3, <1>4, FS_Injection
<1>6. \A m \in S : \E i \in D : names[i] = m
  BY <1>5 DEF Surjection
<1>7. names \in Seq(Models) /\ Len(names) = n
  BY <1>1, <1>2, SequencesOfSets
<1> HIDE DEF n
<1> QED
  BY <1>2, <1>6, <1>7 DEF Among

\* Unloading what is left, up to the next await
LEMMA CloseEmpties ==
  ASSUME TypeInv, NEW names \in Seq(Models), Present \subseteq Among(names), Close(names)
  PROVE  Emptying'
<1>1. /\ residents' = TableAfter(names) /\ closing'.rest = Remaining(names)
      /\ phase' = IF Awaited(names) = None THEN "down" ELSE "residents"
  BY DEF Close, Unload, JobAfter
<1>2. Present' = {m \in Present : TableAfter(names)[m] # None}
  BY <1>1 DEF Present, TableAfter
<1>3. Present' \subseteq Among(closing'.rest)
  BY <1>1, <1>2, RemainingRoom
<1>4. Awaited(names) = None => Present' = {}
  BY <1>1, <1>2, AllEvicted DEF Present
<1> QED
  BY <1>1, <1>3, <1>4 DEF Emptying, Among

\* Once the service stops, no request moves
LEMMA DrainedRequests ==
  ASSUME Drained, NEW q \in Requests, RequestStep(q)
  PROVE  phase = "up" /\ phase' = "up"
BY DEF Drained, RequestStep, Begin, Resume, Wake, Release, EndStop, EndStream, Cancel,
       serviceVars

\* The steps that leave the shutdown where it is
LEMMA ShutdownStays ==
  ASSUME ShutdownInv, UNCHANGED <<requestVars, serviceVars>>, UNCHANGED <<residents, task>>
  PROVE  ShutdownInv'
BY DEF ShutdownInv, Drained, NothingPending, Emptying, Pending, Present, Among, requestVars,
       serviceVars

\* Every step keeps the order of the shutdown
LEMMA NextShutdown ==
  ASSUME TypeInv, ShutdownInv, [Next]_vars
  PROVE  ShutdownInv'
<1>1. ASSUME phase' = "up" PROVE ShutdownInv'
  BY <1>1 DEF ShutdownInv, Drained, NothingPending, Emptying
<1>2. ASSUME NEW q \in Requests, RequestStep(q) PROVE ShutdownInv'
  BY <1>1, <1>2, DrainedRequests DEF ShutdownInv
<1>3. ASSUME NEW t \in Requests, LoadStep(t) PROVE ShutdownInv'
  <2>1. Pending(t) /\ UNCHANGED <<requestVars, serviceVars>>
    BY <1>3 DEF LoadStep, RejectLoad, Admission, EvictNext, SpawnReady, SpawnFails, LoadFails,
                Pending
  <2>2. phase' = phase /\ phase \notin {"residents", "down"}
    BY <2>1 DEF ShutdownInv, NothingPending, serviceVars
  <2> QED
    BY <2>1, <2>2 DEF ShutdownInv, Drained, NothingPending, Emptying, requestVars, serviceVars
<1>4. CASE SweepStart \/ SweepNext
  <2>1. phase' = phase /\ phase = "up"
    BY <1>4, LifecycleAssumption
    DEF SweepStart, SweepNext, Sweep, ShutdownInv, Drained
  <2> QED
    BY <1>1, <2>1
<1>5. CASE StopService
  BY <1>5 DEF StopService, ShutdownInv, Drained, NothingPending, Emptying, NoJob, requestVars
<1>6. ASSUME NEW t \in Requests, CancelLoad(t) PROVE ShutdownInv'
  BY <1>6 DEF CancelLoad, ShutdownInv, Drained, NothingPending, Emptying, requestVars
<1>7. CASE CloseStart \/ CloseNext
  <2>1. PICK names \in Seq(Models) : Present \subseteq Among(names) /\ Close(names)
    <3>1. CASE CloseStart
      BY <3>1, AllNamed, SequencesOfSets DEF CloseStart, Present
    <3>2. CASE CloseNext
      <4>1. closing.rest \in Seq(Models)
        BY DEF TypeInv, TypeOK, Job
      <4> QED
        BY <3>2, <4>1 DEF CloseNext, ShutdownInv, Emptying
    <3> QED
      BY <1>7, <3>1, <3>2
  <2>2. Emptying'
    BY <2>1, CloseEmpties
  <2>3. phase # "up" /\ (\A t \in Requests : ~Pending(t))
    BY <1>7 DEF CloseStart, CloseNext, PendingLoads, ShutdownInv, NothingPending
  <2>4. UNCHANGED <<task, requestVars, sweeper>>
    BY <2>1 DEF Close, loadVars
  <2> QED
    BY <2>2, <2>3, <2>4 DEF ShutdownInv, Drained, NothingPending, Pending, requestVars
<1>8. CASE Tick \/ UNCHANGED vars \/ (\E r \in Requests : Exit(r)) \/ (\E m \in Models : Callback(m))
  BY <1>8, ShutdownStays
  DEF Tick, vars, tableVars, loadVars, Exit, Callback
<1> QED
  BY <1>2, <1>3, <1>4, <1>5, <1>6, <1>7, <1>8 DEF Next, ServiceStep

(***************************************************************************)
(* When the service is down, every llama-server is gone but those in lost: *)
(* the shutdown leaves no request, no load and no entry of the table       *)
(* behind (service.py, stop; lifecycle.py, shutdown).                      *)
(***************************************************************************)
THEOREM OnlyLostProcessesSurvive == Spec => []DownLeavesOnlyLost
<1>1. Init => StopsInv /\ ShutdownInv
  BY InitStops DEF Init, ShutdownInv, Drained, NothingPending, Emptying
<1>2. StopsInv /\ ShutdownInv /\ [Next]_vars => StopsInv' /\ ShutdownInv'
  BY NextStops, NextShutdown DEF StopsInv, CapacityInv, TableInv
<1>3. StopsInv /\ ShutdownInv => DownLeavesOnlyLost
  <2> SUFFICES ASSUME StopsInv, ShutdownInv, phase = "down", NEW r \in Alive \ lost PROVE FALSE
    BY DEF DownLeavesOnlyLost
  <2>1. Present = {} /\ ~Pending(r) /\ \A t \in Requests : ~Pending(t)
    BY DEF ShutdownInv, Emptying, NothingPending, Alive
  <2>2. ~StoppedByAdmission(r) /\ task[r] # "spawning"
    BY <2>1 DEF StoppedByAdmission, Pending
  <2>3. r # None /\ \A q \in Requests : awaits[q] # r
    BY LifecycleAssumption
    DEF Alive, ShutdownInv, Drained, StopsInv, ProcessInv, AwaitsAtStops
  <2>4. ~StoppedElsewhere(r)
    BY <2>3 DEF StoppedElsewhere, ShutdownInv, Drained
  <2> QED
    BY <2>1, <2>2, <2>4
    DEF StopsInv, ProcessInv, StopInv, NoProcessForgotten, StopAwaited
<1> QED
  BY <1>1, <1>2, <1>3, PTL DEF Spec

----------------------------------------------------------------------------
(* The memory of the processes                                             *)

Owners == {residents[m] : m \in Present}
Evicted == {r \in Requests : StoppedByAdmission(r)}
Processes(S) == {Process(r) : r \in S}

(***************************************************************************)
(* What the processes of the table take is within the budget even with the *)
(* one that the admission under way waits for.                             *)
(***************************************************************************)
Freeing == Budget > 0 => Used(Processes(Owners \cup Evicted)) <= Budget

\* Processes take memory as the residents of the scheduler do
LEMMA ProcessesFacts ==
  ASSUME TypeInv, NEW S \in SUBSET Requests, \A r \in S : task[r] # "none"
  PROVE  Residents(Processes(S)) /\ Used(Processes(S)) \in Nat
<1> DEFINE f == [r \in S |-> Process(r)]
<1>1. IsFiniteSet(S)
  BY LifecycleAssumption, FS_Subset
<1>2. f \in Surjection(S, Processes(S))
  BY DEF Processes, Surjection
<1>3. IsFiniteSet(Processes(S))
  BY <1>1, <1>2, FS_Surjection
<1>4. \A r \in S : Bytes(r) \in Nat
  BY BytesType
<1>5. Residents(Processes(S))
  BY <1>3, <1>4 DEF Residents, Processes, Process
<1> QED
  BY <1>5, OccupiedFinite

\* Fewer processes take no more
LEMMA FewerProcesses ==
  ASSUME TypeInv, NEW S \in SUBSET Requests, \A r \in S : task[r] # "none", NEW T \in SUBSET S
  PROVE  /\ Used(Processes(T)) \in Nat /\ Used(Processes(S)) \in Nat
         /\ Used(Processes(T)) =< Used(Processes(S))
<1>1. Processes(T) \subseteq Processes(S)
  BY DEF Processes
<1> QED
  BY <1>1, ProcessesFacts, UsedMonotone

\* An entry is held by one model, and its owner has a load
LEMMA OwnersFacts ==
  ASSUME TableInv
  PROVE  /\ Owners \subseteq Requests
         /\ \A r \in Owners : task[r] # "none"
         /\ \A m \in Present : ask[residents[m]].model = m /\ Bytes(residents[m]) \in Nat
<1>1. \A m \in Present : residents[m] \in Requests /\ task[residents[m]] # "none"
  BY EntriesHaveLoads DEF Present
<1>2. \A m \in Present : ask[residents[m]].model = m
  BY LiveEntries DEF TableInv, Present, Live
<1> QED
  BY <1>1, <1>2, BytesType DEF TableInv, Owners

\* The processes of the table take what the table says
OwnersFit == Used(Processes(Owners)) = Used(Holdings(Present))

LEMMA OwnersUsed ==
  ASSUME TableInv
  PROVE  OwnersFit
<1> DEFINE H == Occupied(Holdings(Present))
           P == Occupied(Processes(Owners))
           f == [c \in H |-> <<residents[c[1]], c[2]>>]
<1>1. \A c : c \in H <=> \E m \in Present : \E i \in 1 .. Bytes(residents[m]) : c = <<m, i>>
  <2>1. \A m : Holding(m).name = m /\ Holding(m).bytes = Bytes(residents[m])
    BY DEF Holding
  <2>2. H = UNION {{m} \X (1 .. Bytes(residents[m])) : m \in Present}
    BY <2>1 DEF Occupied, Holdings
  <2> QED
    BY <2>2
<1>2. \A c : c \in P <=> \E m \in Present : \E i \in 1 .. Bytes(residents[m]) :
                           c = <<residents[m], i>>
  <2>1. \A r : Process(r).name = r /\ Process(r).bytes = Bytes(r)
    BY DEF Process
  <2>2. P = UNION {{r} \X (1 .. Bytes(r)) : r \in Owners}
    BY <2>1 DEF Occupied, Processes
  <2> QED
    BY <2>2 DEF Owners
<1>3. \A m, n \in Present : residents[m] = residents[n] => m = n
  BY OwnersFacts
<1> HIDE DEF H, P
<1>4. ASSUME NEW c \in H
      PROVE  \E m \in Present : \E i \in 1 .. Bytes(residents[m]) :
               c = <<m, i>> /\ f[c] = <<residents[m], i>>
  <2>1. PICK m \in Present : \E i \in 1 .. Bytes(residents[m]) : c = <<m, i>>
    BY <1>1
  <2>2. PICK i \in 1 .. Bytes(residents[m]) : c = <<m, i>>
    BY <2>1
  <2>3. f[c] = <<residents[m], i>>
    BY <2>2
  <2> QED
    BY <2>2, <2>3
<1>5. f \in [H -> P]
  <2>1. \A c \in H : f[c] \in P
    BY <1>2, <1>4
  <2> QED
    BY <2>1
<1>6. ASSUME NEW c \in H, NEW d \in H, f[c] = f[d] PROVE c = d
  <2>1. PICK m \in Present : \E i : c = <<m, i>> /\ f[c] = <<residents[m], i>>
    BY <1>4
  <2>2. PICK n \in Present : \E j : d = <<n, j>> /\ f[d] = <<residents[n], j>>
    BY <1>4
  <2>3. residents[m] = residents[n]
    BY <1>6, <2>1, <2>2
  <2> QED
    BY <1>3, <1>6, <2>1, <2>2, <2>3
<1>7. ASSUME NEW d \in P PROVE \E c \in H : f[c] = d
  <2>1. PICK m \in Present : \E i \in 1 .. Bytes(residents[m]) : d = <<residents[m], i>>
    BY <1>2, <1>7
  <2>2. PICK i \in 1 .. Bytes(residents[m]) : d = <<residents[m], i>>
    BY <2>1
  <2>3. <<m, i>> \in H
    BY <1>1
  <2>4. f[<<m, i>>] = d
    BY <2>2, <2>3
  <2> QED
    BY <2>3, <2>4
<1>8. f \in Bijection(H, P)
  BY <1>5, <1>6, <1>7 DEF Bijection, Injection, Surjection, IsInjective
<1>9. IsFiniteSet(H)
  BY HoldingsFacts, OccupiedFinite DEF H, TableInv
<1>10. Cardinality(P) = Cardinality(H)
  BY <1>8, <1>9, FS_Bijection DEF ExistsBijection
<1> QED
  BY <1>10 DEF OwnersFit, Used, H, P

\* A step that owes no more than before, or no more than a table within the budget
LEMMA OwesNoMore ==
  ASSUME StopsInv, NEW S \in SUBSET (Owners \cup Evicted),
         Freeing \/ S \subseteq Owners
  PROVE  Budget > 0 => Used(Processes(S)) <= Budget
<1>1. /\ TableInv /\ TypeInv /\ Budget \in Nat
      /\ Budget > 0 => Used(Holdings(Present)) <= Budget
  BY SchedulerAssumption DEF StopsInv, CapacityInv, TableInv, Capacity
<1>2. \A r \in Evicted : task[r] # "none"
  BY DEF StopsInv, ProcessInv, StopInv, VictimsEnd, Victim, Evicted
<1>3. Owners \subseteq Requests /\ \A r \in Owners : task[r] # "none"
  BY <1>1, OwnersFacts
<1>4. CASE S \subseteq Owners
  BY <1>1, <1>3, <1>4, OwnersUsed, FewerProcesses DEF OwnersFit
<1>5. CASE Freeing
  <2> DEFINE T == Owners \cup Evicted
  <2>1. T \subseteq Requests /\ (\A r \in T : task[r] # "none") /\ S \subseteq T
    BY <1>2, <1>3 DEF Evicted
  <2>2. Budget > 0 => Used(Processes(T)) <= Budget
    BY <1>5 DEF Freeing
  <2> HIDE DEF T
  <2> QED
    BY <1>1, <2>1, <2>2, FewerProcesses
<1> QED
  BY <1>4, <1>5

\* An admission, up to its next await
LEMMA EvictFrees ==
  ASSUME StopsInv, StopsInv', OwnersFit', NEW t \in Requests, NEW names \in Seq(Models),
         Evict(t, names), UNCHANGED ask, \A u \in Requests \ {t} : task[u] # "evicting"
  PROVE  Freeing'
<1>1. /\ TypeInv /\ TableInv /\ task \in [Requests -> TaskState]
      /\ evicting \in [Requests -> Job] /\ None \notin Requests
  BY LifecycleAssumption DEF StopsInv, CapacityInv, TableInv, TypeInv, TypeOK, TaskState
<1>2. \A u \in Requests \ {t} : task'[u] # "evicting"
  BY <1>1 DEF Evict
<1>3. CASE Awaited(names) # None
  <2>1. /\ residents' = TableAfter(names) /\ evicting'[t].victim = Awaited(names)
    BY <1>1, <1>3 DEF Evict, Unload, JobAfter
  <2>2. Awaited(names) \in Owners
    BY <1>1, <1>3, PassedRange, SMTT(20) DEF Awaited, Blocking, Owners, Present
  <2>3. Evicted' \subseteq Owners
    BY <1>2, <2>1, <2>2 DEF Evicted, StoppedByAdmission
  <2>4. Owners' \subseteq Owners
    BY <2>1 DEF Owners, Present, TableAfter
  <2> DEFINE S == Owners' \cup Evicted'
  <2>5. S \subseteq Owners /\ Owners \subseteq Requests
    BY <1>1, <2>3, <2>4, OwnersFacts
  <2>6. {Process(r)' : r \in S} = Processes(S)
    BY DEF Processes, Process, Bytes
  <2>7. Freeing' <=> (Budget > 0 => Used({Process(r)' : r \in S}) <= Budget)
    BY DEF Freeing, Processes
  <2> HIDE DEF S
  <2> QED
    BY <2>5, <2>6, <2>7, OwesNoMore
<1>4. CASE Awaited(names) = None
  <2>1. Evicted' = {}
    BY <1>1, <1>2, <1>4 DEF Evict, Evicted, StoppedByAdmission
  <2>2. Budget > 0 => Used(Holdings(Present))' <= Budget
    BY DEF StopsInv, CapacityInv, Capacity
  <2> QED
    BY <2>1, <2>2 DEF Freeing, OwnersFit
<1> QED
  BY <1>3, <1>4

\* What the processes of the table and of the admissions take stays within the budget
LEMMA NextFrees ==
  ASSUME StopsInv, StopsInv', OwnersFit', Freeing, [Next]_vars
  PROVE  Freeing'
<1>1. CASE Calm
  <2>1. Owners' \subseteq Owners
    BY <1>1 DEF Calm, Shrinks, Owners, Present
  <2>2. Evicted' \subseteq Evicted
    BY <1>1 DEF Calm, Evicted, StoppedByAdmission
  <2> DEFINE S == Owners' \cup Evicted'
  <2>3. S \subseteq Owners \cup Evicted
    BY <2>1, <2>2
  <2>4. \A r \in S : ask'[r] = ask[r]
    <3>1. \A r \in Evicted : task[r] # "none" /\ r \in Requests
      BY DEF StopsInv, ProcessInv, StopInv, VictimsEnd, Victim, Evicted
    <3>2. \A r \in Owners : task[r] # "none" /\ r \in Requests
      BY OwnersFacts DEF StopsInv, CapacityInv
    <3> QED
      BY <1>1, <2>3, <3>1, <3>2 DEF Calm
  <2>5. {Process(r)' : r \in S} = Processes(S)
    BY <2>4 DEF Processes, Process, Bytes
  <2>6. Freeing' <=> (Budget > 0 => Used({Process(r)' : r \in S}) <= Budget)
    BY DEF Freeing, Processes
  <2> HIDE DEF S
  <2> QED
    BY <2>3, <2>5, <2>6, OwesNoMore
<1>2. ASSUME NEW t \in Requests, NEW names, Evicts(t, names) PROVE Freeing'
  <2>1. names \in Seq(Models) /\ Evict(t, names) /\ UNCHANGED ask
    BY <1>2 DEF Evicts, requestVars
  <2>2. \A u \in Requests \ {t} : task[u] # "evicting"
    BY <1>2, LifecycleAssumption DEF Evicts, StopsInv, CapacityInv, Admitting
  <2> QED
    BY <2>1, <2>2, EvictFrees
<1> QED
  BY <1>1, <1>2, CalmOrEvict DEF StopsInv

(***************************************************************************)
(* An admission waits for the processes it evicts: whatever is requested,  *)
(* loaded, cancelled or unloaded meanwhile, the live processes stay within *)
(* the budget, but for those that something else is stopping and the lost. *)
(***************************************************************************)
THEOREM EvictionsAreAwaited == Spec => []AdmissionAwaitsEvictions
<1>1. Init => StopsInv /\ Freeing
  <2> SUFFICES ASSUME Init PROVE StopsInv /\ Freeing
    OBVIOUS
  <2>1. Owners = {} /\ Evicted = {} /\ StopsInv
    BY InitStops DEF Init, Owners, Present, Evicted, StoppedByAdmission
  <2>2. Occupied(Processes({})) = {}
    BY DEF Occupied, Processes
  <2> QED
    BY <2>1, <2>2, FS_EmptySet, SchedulerAssumption DEF Freeing, Used
<1>2. StopsInv /\ [Next]_vars => StopsInv'
  BY NextStops
<1>3. StopsInv => OwnersFit
  BY OwnersUsed DEF StopsInv, CapacityInv
<1>4. StopsInv /\ StopsInv' /\ OwnersFit' /\ Freeing /\ [Next]_vars => Freeing'
  BY NextFrees
<1>5. StopsInv /\ Freeing => AdmissionAwaitsEvictions
  <2> SUFFICES ASSUME StopsInv, Freeing PROVE AdmissionAwaitsEvictions
    OBVIOUS
  <2> DEFINE S == {x \in Alive \ lost : ~StoppedElsewhere(x)}
  <2>1. ASSUME NEW r \in S PROVE r \in Owners \cup Evicted
    <3>1. InTable(r) \/ task[r] = "spawning" \/ StoppedByAdmission(r)
      BY <2>1 DEF StopsInv, ProcessInv, StopInv, NoProcessForgotten, InTable, StopAwaited
    <3>2. r \in Requests /\ r \notin lost
      BY <2>1 DEF Alive
    <3>3. CASE task[r] = "spawning"
      <4>1. residents[ask[r].model] = r /\ ask[r].model \in Models
        BY <3>2, <3>3, BytesType
        DEF StopsInv, CapacityInv, TableInv, ProcessInv, StopInv, Reserved
      <4> QED
        BY <3>2, <4>1, LifecycleAssumption DEF Owners, Present
    <3> QED
      BY <3>1, <3>2, <3>3 DEF InTable, Owners, Evicted
  <2>2. S \in SUBSET (Owners \cup Evicted)
    BY <2>1
  <2>3. Budget > 0 => Used(Processes(S)) <= Budget
    <3> HIDE DEF S
    <3> QED
      BY <2>2, OwesNoMore
  <2> QED
    BY <2>3 DEF AdmissionAwaitsEvictions, Processes
<1> QED
  BY <1>1, <1>2, <1>3, <1>4, <1>5, PTL DEF Spec

----------------------------------------------------------------------------
(* The two readings of an expired keep_alive                               *)

(***************************************************************************)
(* What sweep unloads is what ModelScheduler.expired reports: pinned there *)
(* is the contrary of is_serving here, and IsExpired asks for no request.  *)
(***************************************************************************)
THEOREM SweepAndSchedulerAgree == Spec => []SweepAgreesWithScheduler
<1>1. ASSUME TypeInv PROVE SweepAgreesWithScheduler
  <2>1. ASSUME NEW m \in Present
        PROVE  /\ ResidentInfo(m).name = m
               /\ (IsServing(residents[m]) /\ IsExpired(residents[m]))
                    <=> (ResidentInfo(m).expired /\ ~IsBusy(ResidentInfo(m)))
    <3> DEFINE r == residents[m]
    <3>1. r \in Requests
      BY <1>1 DEF Present, TypeInv, TypeOK, Opt
    <3>2. rsd[r].state \in ResidentState /\ rsd[r].active \in Nat
      BY <1>1, <3>1, ObjectParts DEF TypeInv, TypeOK
    <3>3. /\ ResidentInfo(m).name = m
          /\ ResidentInfo(m).expired <=> IsExpired(r)
          /\ ResidentInfo(m).active = rsd[r].active
          /\ ResidentInfo(m).pinned <=> rsd[r].state \in {"LOADING", "UNLOADING"}
      BY DEF ResidentInfo
    <3>4. IsExpired(r) => rsd[r].active = 0
      BY DEF IsExpired
    <3>5. IsServing(r) <=> rsd[r].state \notin {"LOADING", "UNLOADING"}
      BY <3>2 DEF IsServing, ResidentState
    <3>6. IsBusy(ResidentInfo(m)) <=> rsd[r].active > 0 \/ ~IsServing(r)
      BY <3>3, <3>5 DEF IsBusy
    <3>7. rsd[r].active = 0 => ~(rsd[r].active > 0)
      OBVIOUS
    <3> HIDE DEF r
    <3> QED
      BY <3>3, <3>4, <3>6, <3>7 DEF r
  <2>2. Due = {m \in Present : ResidentInfo(m).expired /\ ~IsBusy(ResidentInfo(m))}
    BY <2>1 DEF Due
  <2> QED
    BY <2>1, <2>2 DEF SweepAgreesWithScheduler, Expired, ResidentInfos
<1> QED
  BY <1>1, TypeInvariant, PTL

----------------------------------------------------------------------------
(* BUSY exactly while it serves                                            *)

\* a request only serves on a Resident that was loaded
ServesLoaded ==
  \A q \in Requests : pc[q] = "serving" => holds[q] \in Requests /\ task[holds[q]] = "ready"

Counted == \A r \in Requests : rsd[r].active = Cardinality(Servers(r))

\* whether it is in the table or not
Shows(s) == /\ s.state = "BUSY" => s.active > 0
            /\ s.active > 0 => s.state \in {"BUSY", "UNLOADING"}
Shown == \A r \in Requests : Shows(rsd[r])

ServedInv == ServesLoaded /\ Counted /\ Shown

\* The requests that a Resident serves are finitely many
LEMMA ServersFinite == \A r : IsFiniteSet(Servers(r)) /\ IsFiniteSet(Servers(r)')
<1>1. \A r : Servers(r) \in SUBSET Requests /\ Servers(r)' \in SUBSET Requests
  BY DEF Servers
<1> QED
  BY <1>1, FS_Subset, LifecycleAssumption

\* What acquire, its finally, _touch and unload do to a Resident object
LEMMA ObjectShows ==
  ASSUME NEW s \in Resident, Shows(s)
  PROVE  /\ Acquired(s).active = s.active + 1 /\ Shows(Acquired(s))
         /\ s.active > 0 => Released(s).active = s.active - 1
         /\ Shows(Released(s))
         /\ \A ka : Touched(s, ka).active = s.active /\ Shows(Touched(s, ka))
         /\ [s EXCEPT !.state = "UNLOADING"].active = s.active
         /\ Shows([s EXCEPT !.state = "UNLOADING"])
<1>1. s.active \in Nat /\ s.state \in ResidentState
  BY ObjectParts
<1>2. /\ Acquired(s).active = s.active + 1 /\ Acquired(s).state = "BUSY"
  BY DEF Acquired, Resident
<1>3. /\ Released(s).active = IF s.active = 0 THEN 0 ELSE s.active - 1
      /\ Released(s).state = IF Released(s).active = 0 /\ s.state = "BUSY" THEN "IDLE" ELSE s.state
  BY DEF Released, Resident
<1>4. ASSUME NEW ka
      PROVE  /\ Touched(s, ka).active = s.active
             /\ Touched(s, ka).state = IF s.state = "IDLE" THEN "READY" ELSE s.state
  BY DEF Touched, Resident
<1>5. /\ [s EXCEPT !.state = "UNLOADING"].active = s.active
      /\ [s EXCEPT !.state = "UNLOADING"].state = "UNLOADING"
  BY DEF Resident
<1>6. Shows(Acquired(s))
  BY <1>1, <1>2 DEF Shows
<1>7. Shows(Released(s)) /\ (s.active > 0 => Released(s).active = s.active - 1)
  BY <1>1, <1>3 DEF Shows
<1>8. \A ka : Shows(Touched(s, ka))
  BY <1>1, <1>4 DEF Shows
<1>9. Shows([s EXCEPT !.state = "UNLOADING"])
  BY <1>5 DEF Shows
<1> QED
  BY <1>2, <1>4, <1>5, <1>6, <1>7, <1>8, <1>9

\* the objects keep their count and go on showing it
KeepCounts(objects) ==
  \A r \in Requests : objects[r].active = rsd[r].active /\ Shows(objects[r])

\* Unloading leaves the counts alone
LEMMA UnloadShows ==
  ASSUME NEW names, NEW objects \in [Requests -> Resident],
         \A r \in Requests : Shows(objects[r])
  PROVE  \A r \in Requests : /\ RsdAfter(names, objects)[r].active = objects[r].active
                             /\ Shows(RsdAfter(names, objects)[r])
BY ObjectShows DEF RsdAfter

\* loads that were over stay so, loaded ones stay loaded
ReadyStays == \A t \in Requests : task[t] = "ready" => task'[t] = "ready"

(***************************************************************************)
(* A step in which no request enters or leaves acquire, and the objects    *)
(* keep their counts.                                                      *)
(***************************************************************************)
LEMMA CountsKept ==
  ASSUME TypeInv, ServedInv, ReadyStays, KeepCounts(rsd'),
         \A q \in Requests : /\ pc'[q] = "serving" <=> pc[q] = "serving"
                             /\ pc[q] = "serving" => holds'[q] = holds[q]
  PROVE  ServedInv'
<1>1. \A r \in Requests : Servers(r)' = Servers(r)
  BY DEF Servers
<1>2. Counted'
  BY <1>1 DEF Counted, ServedInv, KeepCounts
<1>3. ServesLoaded'
  BY DEF ServesLoaded, ServedInv, ReadyStays
<1>4. Shown'
  BY DEF Shown, KeepCounts
<1> QED
  BY <1>2, <1>3, <1>4 DEF ServedInv

\* A step of a request that is outside acquire before and after it
LEMMA OutsideAcquire ==
  ASSUME TypeInv, ServedInv, ReadyStays, KeepCounts(rsd'), NEW q \in Requests,
         pc[q] # "serving", NEW x \in PcState \ {"serving"}, pc' = [pc EXCEPT ![q] = x],
         NEW h, holds' = [holds EXCEPT ![q] = h]
  PROVE  ServedInv'
BY CountsKept DEF TypeInv, TypeOK

\* A step that is no step of a request
LEMMA NoRequestMoves ==
  ASSUME TypeInv, ServedInv, ReadyStays, KeepCounts(rsd'), UNCHANGED <<pc, holds>>
  PROVE  ServedInv'
BY CountsKept

\* acquire lets a request in
LEMMA OneMore ==
  ASSUME TypeInv, ServedInv, UNCHANGED task, NEW q \in Requests, NEW r \in Requests,
         pc[q] # "serving", task[r] = "ready",
         pc' = [pc EXCEPT ![q] = "serving"], holds' = [holds EXCEPT ![q] = r],
         NEW s \in Resident, s.active = rsd[r].active, Shows(s),
         rsd' = [rsd EXCEPT ![r] = Acquired(s)]
  PROVE  ServedInv'
<1>1. /\ pc'[q] = "serving" /\ holds'[q] = r
      /\ \A p \in Requests \ {q} : pc'[p] = pc[p] /\ holds'[p] = holds[p]
  BY DEF TypeInv, TypeOK
<1>2. Servers(r)' = Servers(r) \cup {q} /\ q \notin Servers(r)
  BY <1>1 DEF Servers
<1>3. Cardinality(Servers(r)') = Cardinality(Servers(r)) + 1
  BY <1>2, ServersFinite, FS_AddElement
<1>4. \A p \in Requests \ {r} : Servers(p)' = Servers(p)
  BY <1>1 DEF Servers
<1>5. /\ rsd'[r] = Acquired(s)
      /\ \A p \in Requests \ {r} : rsd'[p] = rsd[p]
  BY DEF TypeInv, TypeOK
<1>6. Acquired(s).active = s.active + 1 /\ Shows(Acquired(s))
  BY ObjectShows
<1>7. Counted'
  BY <1>3, <1>4, <1>5, <1>6 DEF Counted, ServedInv
<1>8. ServesLoaded'
  BY <1>1 DEF ServesLoaded, ServedInv
<1>9. Shown'
  BY <1>5, <1>6 DEF Shown, ServedInv
<1> QED
  BY <1>7, <1>8, <1>9 DEF ServedInv

\* Its finally lets it out, whatever it unloads
LEMMA OneLess ==
  ASSUME TypeInv, ServedInv, UNCHANGED task, NEW q \in Requests,
         pc[q] = "serving", NEW x \in PcState \ {"serving"}, pc' = [pc EXCEPT ![q] = x],
         NEW h, holds' = [holds EXCEPT ![q] = h],
         \A r \in Requests :
           /\ Shows(rsd'[r])
           /\ rsd'[r].active = IF r = holds[q] THEN rsd[r].active - 1 ELSE rsd[r].active
  PROVE  ServedInv'
<1>1. /\ pc'[q] # "serving"
      /\ \A p \in Requests \ {q} : pc'[p] = pc[p] /\ holds'[p] = holds[p]
  BY DEF TypeInv, TypeOK
<1>2. PICK r \in Requests : r = holds[q]
  BY DEF ServedInv, ServesLoaded
<1>3. Servers(r)' = Servers(r) \ {q} /\ q \in Servers(r)
  BY <1>1, <1>2 DEF Servers
<1>4. Cardinality(Servers(r)') = Cardinality(Servers(r)) - 1
  BY <1>3, ServersFinite, FS_RemoveElement
<1>5. \A p \in Requests \ {r} : Servers(p)' = Servers(p)
  BY <1>1, <1>2 DEF Servers
<1>6. Counted'
  BY <1>2, <1>4, <1>5 DEF Counted, ServedInv
<1>7. ServesLoaded'
  BY <1>1 DEF ServesLoaded, ServedInv
<1>8. Shown'
  BY DEF Shown
<1> QED
  BY <1>6, <1>7, <1>8 DEF ServedInv

\* Leaving acquire writes an object of the same request, and may unload
LEMMA LeaveObjects ==
  ASSUME TypeInv, ServedInv, NEW q \in Requests, NEW a \in Asks, NEW r \in Requests,
         NEW s \in Resident, Shows(s), Leave(q, a, r, s)
  PROVE  \A p \in Requests :
           /\ Shows(rsd'[p])
           /\ rsd'[p].active = IF p = r THEN s.active ELSE rsd[p].active
<1> DEFINE objects == [rsd EXCEPT ![r] = s]
           names == IF s.active = 0 /\ s.keepAlive = 0 THEN <<ask[r].model>> ELSE <<>>
<1>1. rsd' = RsdAfter(names, objects)
  BY DEF Leave, Unload
<1>2. /\ objects \in [Requests -> Resident]
      /\ \A p \in Requests : objects[p] = IF p = r THEN s ELSE rsd[p]
  BY DEF TypeInv, TypeOK
<1>3. \A p \in Requests : Shows(objects[p])
  BY <1>2 DEF ServedInv, Shown
<1> HIDE DEF names, objects
<1>4. \A p \in Requests : /\ RsdAfter(names, objects)[p].active = objects[p].active
                          /\ Shows(RsdAfter(names, objects)[p])
  BY <1>2, <1>3, UnloadShows
<1> QED
  BY <1>1, <1>2, <1>4

\* ensure_ready returns a loaded Resident
LEMMA EnterServed ==
  ASSUME TypeInv, ServedInv, UNCHANGED task, NEW q \in Requests, NEW a \in Asks,
         NEW r \in Requests, pc[q] # "serving", task[r] = "ready", Enter(q, a, r)
  PROVE  ServedInv'
<1> DEFINE s == Touched(rsd[r], a.keepAlive)
<1>1. /\ s \in Resident /\ Acquired(s) \in Resident /\ Released(Acquired(s)) \in Resident
      /\ rsd[r] \in Resident /\ Shows(rsd[r])
  BY ObjectTypes DEF TypeInv, TypeOK, ServedInv, Shown
<1>2. s.active = rsd[r].active /\ Shows(s)
  BY <1>1, ObjectShows
<1> HIDE DEF s
<1>3. ReadyStays
  BY DEF ReadyStays
<1>4. CASE a.kind = "call"
  BY <1>1, <1>2, <1>4, OneMore DEF Enter, s
<1>5. CASE a.kind = "preload"
  <2>1. /\ rsd' = [rsd EXCEPT ![r] = s] /\ pc' = [pc EXCEPT ![q] = "done"]
        /\ holds' = [holds EXCEPT ![q] = None]
    BY <1>5 DEF Enter, s
  <2>2. KeepCounts(rsd')
    BY <1>2, <2>1 DEF KeepCounts, ServedInv, Shown, TypeInv, TypeOK
  <2> QED
    BY <1>3, <2>1, <2>2, OutsideAcquire DEF PcState
<1>6. CASE a.kind = "stream"
  <2> DEFINE left == Released(Acquired(s))
  <2>1. Leave(q, a, r, left)
    BY <1>6 DEF Enter, s
  <2>2. Acquired(s).active = s.active + 1 /\ Shows(Acquired(s)) /\ s.active \in Nat
    BY <1>1, <1>2, ObjectShows, ObjectParts
  <2>3. left.active = s.active /\ Shows(left)
    <3> DEFINE b == Acquired(s)
    <3>1. b \in Resident /\ Shows(b) /\ b.active > 0
      BY <1>1, <2>2
    <3> HIDE DEF b
    <3>2. Released(b).active = b.active - 1 /\ Shows(Released(b))
      BY <3>1, ObjectShows
    <3> QED
      BY <2>2, <3>2 DEF b
  <2>4. left \in Resident
    BY <1>1
  <2> HIDE DEF left
  <2>5. KeepCounts(rsd')
    BY <1>2, <2>1, <2>3, <2>4, LeaveObjects DEF KeepCounts
  <2>6. /\ \E x \in {"stopping", "streaming", "done"} : pc' = [pc EXCEPT ![q] = x]
        /\ \E h \in Opt : holds' = [holds EXCEPT ![q] = h]
    BY <2>1, <2>4, LeaveTypes
  <2> QED
    BY <1>3, <2>5, <2>6, OutsideAcquire DEF PcState
<1> QED
  BY <1>4, <1>5, <1>6 DEF Enter

\* An unload by name, in a step that moves no request in or out of acquire
LEMMA UnloadCounts ==
  ASSUME TypeInv, ServedInv, NEW names, Unload(names, rsd)
  PROVE  KeepCounts(rsd')
<1>1. rsd \in [Requests -> Resident] /\ \A r \in Requests : Shows(rsd[r])
  BY DEF TypeInv, TypeOK, ServedInv, Shown
<1> QED
  BY <1>1, UnloadShows DEF Unload, KeepCounts

\* So is a step that leaves the objects alone
LEMMA SameCounts ==
  ASSUME ServedInv, UNCHANGED rsd
  PROVE  KeepCounts(rsd')
BY DEF KeepCounts, ServedInv, Shown

\* ensure_ready, in its four outcomes
LEMMA EnsureReadyServed ==
  ASSUME TableInv, ServedInv, NEW q \in Requests, NEW a \in Asks, EnsureReady(q, a),
         pc[q] \in {"new", "reloading"}
  PROVE  ServedInv'
<1>1. TypeInv /\ task[q] = "none" /\ a.model \in Models
  BY AskTypes DEF TableInv, Untasked
<1>2. CASE Reuse(q, a)
  <2> DEFINE r == residents[a.model]
  <2>1. r # None /\ Serving(rsd[r]) /\ Enter(q, a, r) /\ UNCHANGED task
    BY <1>2 DEF Reuse, HasServing, IsServing, Serving, loadVars
  <2>2. r \in Requests /\ task[r] = "ready"
    BY <1>1, <2>1, LiveEntries, EntriesHaveLoads DEF TableInv, Live, Serving
  <2> HIDE DEF r
  <2> QED
    BY <1>1, <2>1, <2>2, EnterServed
<1>3. CASE Reload(q, a)
  <2>1. /\ Unload(<<a.model>>, rsd) /\ pc' = [pc EXCEPT ![q] = "reloading"]
        /\ UNCHANGED <<holds, task>>
    BY <1>3 DEF Reload, loadVars
  <2>2. KeepCounts(rsd')
    BY <1>1, <2>1, UnloadCounts
  <2>3. ReadyStays
    BY <2>1 DEF ReadyStays
  <2>4. \A p \in Requests : /\ pc'[p] = "serving" <=> pc[p] = "serving"
                            /\ holds'[p] = holds[p]
    BY <1>1, <2>1 DEF TypeInv, TypeOK
  <2> QED
    BY <1>1, <2>2, <2>3, <2>4, CountsKept
<1>4. CASE JoinLoad(q, a) \/ StartLoad(q, a)
  <2>1. /\ UNCHANGED rsd /\ pc' = [pc EXCEPT ![q] = "waiting"]
        /\ \E h \in Opt : holds' = [holds EXCEPT ![q] = h]
        /\ UNCHANGED task \/ task' = [task EXCEPT ![q] = "queued"]
    BY <1>1, <1>4 DEF JoinLoad, StartLoad, tableVars, loadVars, Opt, TypeInv, TypeOK
  <2>2. KeepCounts(rsd')
    BY <2>1, SameCounts
  <2>3. ReadyStays
    BY <1>1, <2>1 DEF ReadyStays, TypeInv, TypeOK
  <2> QED
    BY <1>1, <2>1, <2>2, <2>3, OutsideAcquire DEF PcState
<1> QED
  BY <1>2, <1>3, <1>4 DEF EnsureReady

\* The steps of a request
LEMMA RequestServed ==
  ASSUME TableInv, ServedInv, NEW q \in Requests, RequestStep(q)
  PROVE  ServedInv'
<1>1. /\ TypeInv /\ pc \in [Requests -> PcState] /\ holds \in [Requests -> Opt]
      /\ rsd \in [Requests -> Resident]
  BY DEF TableInv, TypeInv, TypeOK, PcState
<1>2. CASE Begin(q)
  <2>1. PICK a \in Asks : IF a.kind = "unload" THEN UnloadRequest(q, a) ELSE EnsureReady(q, a)
    BY <1>2 DEF Begin
  <2>2. pc[q] = "new"
    BY <1>2 DEF Begin
  <2>3. CASE a.kind = "unload"
    <3>1. /\ Unload(<<a.model>>, rsd) /\ UNCHANGED <<holds, task>>
          /\ \E x \in {"done", "stopping"} : pc' = [pc EXCEPT ![q] = x]
      BY <2>1, <2>3 DEF UnloadRequest, loadVars
    <3>2. KeepCounts(rsd')
      BY <1>1, <3>1, UnloadCounts
    <3>3. ReadyStays
      BY <3>1 DEF ReadyStays
    <3>4. \A p \in Requests : /\ pc'[p] = "serving" <=> pc[p] = "serving"
                              /\ holds'[p] = holds[p]
      BY <1>1, <2>2, <3>1
    <3> QED
      BY <1>1, <3>2, <3>3, <3>4, CountsKept
  <2> QED
    BY <2>1, <2>2, <2>3, EnsureReadyServed
<1>3. CASE Resume(q)
  BY <1>3, AskStays, EnsureReadyServed DEF Resume, TableInv
<1>4. CASE Wake(q)
  <2>1. pc[q] = "waiting" /\ UNCHANGED <<ask, task>>
    BY <1>4 DEF Wake, loadVars
  <2>2. holds[q] \in Requests /\ ask[q] \in Asks
    BY <1>1, <2>1 DEF TypeInv, TypeOK, References
  <2>3. CASE task[holds[q]] = "ready" /\ Enter(q, ask[q], holds[q])
    BY <1>1, <2>1, <2>2, <2>3, EnterServed
  <2>4. CASE /\ pc' = [pc EXCEPT ![q] = "done"] /\ holds' = [holds EXCEPT ![q] = None]
             /\ UNCHANGED rsd
    BY <1>1, <2>1, <2>4, SameCounts, OutsideAcquire DEF PcState, ReadyStays
  <2> QED
    BY <1>4, <2>3, <2>4 DEF Wake, tableVars
<1>5. CASE Release(q)
  <2>1. PICK r \in Requests : r = holds[q]
    BY <1>5 DEF Release, ServedInv, ServesLoaded
  <2>2. PICK s : s = Released(rsd[r])
    OBVIOUS
  <2>3. pc[q] = "serving" /\ Leave(q, ask[q], r, s) /\ UNCHANGED task
    BY <1>5, <2>1, <2>2 DEF Release, loadVars
  <2>4. ask[q] \in Asks /\ task[r] # "none"
    BY <1>1, <2>1, <2>3 DEF TypeInv, TypeOK, References
  <2>5. rsd[r].active > 0 /\ Shows(rsd[r])
    <3>1. q \in Servers(r) /\ IsFiniteSet(Servers(r))
      BY <2>1, <2>3, ServersFinite DEF Servers
    <3>2. Cardinality(Servers(r)) # 0 /\ Cardinality(Servers(r)) \in Nat
      BY <3>1, FS_EmptySet, FS_CardinalityType
    <3> QED
      BY <3>2 DEF ServedInv, Counted, Shown
  <2>6. s \in Resident /\ s.active = rsd[r].active - 1 /\ Shows(s)
    BY <1>1, <2>2, <2>5, ObjectTypes, ObjectShows
  <2>7. \A p \in Requests :
          /\ Shows(rsd'[p])
          /\ rsd'[p].active = IF p = holds[q] THEN rsd[p].active - 1 ELSE rsd[p].active
    BY <1>1, <2>1, <2>3, <2>4, <2>6, LeaveObjects
  <2>8. /\ \E x \in {"stopping", "streaming", "done"} : pc' = [pc EXCEPT ![q] = x]
        /\ \E h \in Opt : holds' = [holds EXCEPT ![q] = h]
    BY <1>1, <2>3, <2>4, <2>6, LeaveTypes
  <2>9. PICK x \in {"stopping", "streaming", "done"}, h \in Opt :
          pc' = [pc EXCEPT ![q] = x] /\ holds' = [holds EXCEPT ![q] = h]
    BY <2>8
  <2>10. x \in PcState \ {"serving"}
    BY DEF PcState
  <2>11. pc[q] = "serving" /\ UNCHANGED task
    BY <2>3
  <2> QED
    BY <1>1, <2>7, <2>9, <2>10, <2>11, OneLess
<1>6. CASE EndStop(q) \/ EndStream(q) \/ Cancel(q)
  <2>1. /\ UNCHANGED <<rsd, task>> /\ pc[q] # "serving"
        /\ \E x \in {"streaming", "done"} : pc' = [pc EXCEPT ![q] = x]
        /\ \E h \in Opt : holds' = [holds EXCEPT ![q] = h]
    BY <1>1, <1>6 DEF EndStop, EndStream, Cancel, tableVars, loadVars, AfterResponse, Opt
  <2>2. KeepCounts(rsd')
    BY <2>1, SameCounts
  <2> QED
    BY <1>1, <2>1, <2>2, OutsideAcquire DEF PcState, ReadyStays
<1> QED
  BY <1>2, <1>3, <1>4, <1>5, <1>6 DEF RequestStep

\* A load that is not over serves nobody
LEMMA LoadingServesNobody ==
  ASSUME ServedInv, NEW t \in Requests, task[t] # "ready"
  PROVE  rsd[t].active = 0
<1>1. Servers(t) = {}
  BY DEF Servers, ServedInv, ServesLoaded
<1> QED
  BY <1>1, FS_EmptySet DEF ServedInv, Counted

\* The placeholder of a load starts from no request
LEMMA EvictServed ==
  ASSUME TableInv, ServedInv, NEW t \in Requests, task[t] \in {"queued", "evicting"},
         NEW names \in Seq(Models), Evict(t, names), UNCHANGED requestVars
  PROVE  ServedInv'
<1>1. TypeInv /\ rsd \in [Requests -> Resident] /\ task \in [Requests -> TaskState]
  BY DEF TableInv, TypeInv, TypeOK, TaskState
<1>2. ReadyStays /\ UNCHANGED <<pc, holds>>
  <2>1. \E x \in TaskState : task' = [task EXCEPT ![t] = x]
    BY DEF Evict, TaskState
  <2> QED
    BY <1>1, <2>1 DEF ReadyStays, requestVars
<1>3. CASE Awaited(names) # None
  <2>1. Unload(names, rsd)
    BY <1>3 DEF Evict
  <2> QED
    BY <1>1, <1>2, <2>1, UnloadCounts, NoRequestMoves
<1>4. CASE Awaited(names) = None
  <2> DEFINE object == Placeholder(EffectiveKeepAlive(ask[t].keepAlive))
             unloaded == RsdAfter(names, rsd)
  <2>1. rsd' = [unloaded EXCEPT ![t] = object]
    BY <1>4 DEF Evict
  <2>2. object.active = 0 /\ Shows(object) /\ rsd[t].active = 0
    BY LoadingServesNobody DEF Placeholder, Shows
  <2>3. \A r \in Requests : unloaded[r].active = rsd[r].active /\ Shows(unloaded[r])
    BY <1>1, UnloadShows DEF ServedInv, Shown
  <2>4. unloaded \in [Requests -> Resident]
    BY <1>1, UnloadTypes DEF TypeInv
  <2> HIDE DEF object, unloaded
  <2>5. KeepCounts(rsd')
    BY <2>1, <2>2, <2>3, <2>4 DEF KeepCounts
  <2> QED
    BY <1>1, <1>2, <2>5, NoRequestMoves
<1> QED
  BY <1>3, <1>4

\* The steps of a load
LEMMA LoadServed ==
  ASSUME TableInv, ServedInv, NEW t \in Requests, LoadStep(t)
  PROVE  ServedInv'
<1>1. TypeInv /\ rsd \in [Requests -> Resident] /\ task \in [Requests -> TaskState]
  BY DEF TableInv, TypeInv, TypeOK, TaskState
<1>2. ASSUME UNCHANGED <<rsd, requestVars>>,
             UNCHANGED task \/ (task[t] # "ready" /\ task' = [task EXCEPT ![t] = "failed"])
      PROVE  ServedInv'
  <2>1. ReadyStays
    BY <1>1, <1>2 DEF ReadyStays
  <2> QED
    BY <1>1, <1>2, <2>1, SameCounts, NoRequestMoves DEF requestVars
<1>3. CASE RejectLoad(t) \/ SpawnFails(t) \/ LoadFails(t)
  <2>1. /\ UNCHANGED <<rsd, requestVars>>
        /\ UNCHANGED task \/ (task[t] # "ready" /\ task' = [task EXCEPT ![t] = "failed"])
    BY <1>3 DEF RejectLoad, SpawnFails, LoadFails, tableVars, loadVars
  <2> QED
    BY <1>2, <2>1
<1>4. CASE Admission(t)
  <2>1. task[t] = "queued" /\ UNCHANGED requestVars
    BY <1>4 DEF Admission
  <2>2. PICK plan \in Plans(ask[t].model, Bytes(t), ResidentInfos) :
          \/ Evict(t, plan.evictions)
          \/ task' = [task EXCEPT ![t] = "failed"] /\ UNCHANGED rsd
    BY <1>4 DEF Admission, tableVars
  <2>3. plan.evictions \in Seq(Models)
    BY <1>1, EvictionsType
  <2> QED
    BY <1>2, <2>1, <2>2, <2>3, EvictServed
<1>5. CASE EvictNext(t)
  <2>1. task[t] = "evicting" /\ UNCHANGED requestVars /\ Evict(t, evicting[t].rest)
    BY <1>5 DEF EvictNext
  <2>2. evicting[t].rest \in Seq(Models)
    BY DEF TableInv, TypeInv, TypeOK, Job
  <2> QED
    BY <2>1, <2>2, EvictServed
<1>6. CASE SpawnReady(t)
  <2>1. /\ rsd' = [rsd EXCEPT ![t].state = "READY", ![t].idle = 0]
        /\ task[t] # "ready" /\ task' = [task EXCEPT ![t] = "ready"] /\ UNCHANGED <<pc, holds>>
    BY <1>6 DEF SpawnReady, requestVars
  <2>2. /\ rsd'[t] = [rsd[t] EXCEPT !.state = "READY", !.idle = 0]
        /\ \A r \in Requests \ {t} : rsd'[r] = rsd[r]
    BY <1>1, <2>1
  <2>3. rsd'[t].active = rsd[t].active /\ rsd'[t].state = "READY"
    BY <1>1, <2>2 DEF Resident
  <2>4. rsd[t].active = 0
    BY <2>1, LoadingServesNobody
  <2>5. Shows(rsd'[t])
    BY <2>3, <2>4 DEF Shows
  <2>6. KeepCounts(rsd')
    BY <2>2, <2>3, <2>5 DEF KeepCounts, ServedInv, Shown
  <2>7. ReadyStays
    BY <1>1, <2>1 DEF ReadyStays
  <2> QED
    BY <1>1, <2>1, <2>6, <2>7, NoRequestMoves
<1> QED
  BY <1>3, <1>4, <1>5, <1>6 DEF LoadStep

\* The sweep, the passing of time and the stop of the service
LEMMA ServiceServed ==
  ASSUME TypeInv, ServedInv, ServiceStep
  PROVE  ServedInv'
<1>1. rsd \in [Requests -> Resident] /\ task \in [Requests -> TaskState]
  BY DEF TypeInv, TypeOK, TaskState
<1>2. CASE SweepStart \/ SweepNext \/ CloseStart \/ CloseNext
  <2>1. (\E names : Unload(names, rsd)) /\ UNCHANGED <<task, pc, holds>>
    BY <1>2 DEF SweepStart, SweepNext, CloseStart, CloseNext, Sweep, Close, loadVars, requestVars
  <2> QED
    BY <2>1, UnloadCounts, NoRequestMoves DEF ReadyStays
<1>3. CASE Tick
  <2>1. ASSUME NEW r \in Requests PROVE rsd'[r].active = rsd[r].active /\ rsd'[r].state = rsd[r].state
    <3>1. rsd'[r] = rsd[r] \/ rsd'[r] = [rsd[r] EXCEPT !.idle = @ + 1]
      BY <1>3 DEF Tick
    <3> QED
      BY <1>1, <3>1 DEF Resident
  <2>2. KeepCounts(rsd')
    BY <2>1 DEF KeepCounts, ServedInv, Shown, Shows
  <2>3. UNCHANGED <<task, pc, holds>>
    BY <1>3 DEF Tick, loadVars, requestVars
  <2> QED
    BY <2>2, <2>3, NoRequestMoves DEF ReadyStays
<1>4. CASE StopService
  BY <1>4, SameCounts, NoRequestMoves DEF StopService, loadVars, requestVars, ReadyStays
<1>5. ASSUME NEW t \in Requests, CancelLoad(t) PROVE ServedInv'
  <2>1. /\ UNCHANGED <<rsd, pc, holds>> /\ task[t] # "ready"
        /\ UNCHANGED task \/ task' = [task EXCEPT ![t] = "failed"]
    BY <1>5 DEF CancelLoad, requestVars
  <2>2. ReadyStays
    BY <1>1, <2>1 DEF ReadyStays
  <2> QED
    BY <2>1, <2>2, SameCounts, NoRequestMoves
<1> QED
  BY <1>2, <1>3, <1>4, <1>5 DEF ServiceStep

\* Every step
LEMMA NextServed ==
  ASSUME TableInv, ServedInv, [Next]_vars
  PROVE  ServedInv'
<1>1. ASSUME UNCHANGED <<rsd, task, pc, holds>> PROVE ServedInv'
  BY <1>1, SameCounts, NoRequestMoves DEF ReadyStays, TableInv
<1>2. ASSUME NEW r \in Requests, Exit(r) PROVE ServedInv'
  BY <1>1, <1>2 DEF Exit, loadVars, requestVars
<1>3. ASSUME NEW m \in Models, Callback(m) PROVE ServedInv'
  BY <1>1, <1>3 DEF Callback, tableVars, requestVars
<1>4. CASE UNCHANGED vars
  BY <1>1, <1>4 DEF vars, tableVars, loadVars, requestVars
<1> QED
  BY <1>2, <1>3, <1>4, RequestServed, LoadServed, ServiceServed DEF Next, TableInv

(***************************************************************************)
(* active_requests is the number of requests inside acquire, and a model   *)
(* of the table is BUSY exactly while there are some, whatever fails, is   *)
(* cancelled, evicted or unloaded meanwhile: no model stays BUSY for ever, *)
(* and none is freed too soon.                                             *)
(***************************************************************************)
THEOREM BusyExactlyWhileServing == Spec => []BusyIffServed
<1>1. Init => ServedInv
  <2> SUFFICES ASSUME Init PROVE ServedInv
    OBVIOUS
  <2>1. \A r \in Requests : rsd[r].active = 0 /\ rsd[r].state = "LOADING"
    BY DEF Init, Placeholder
  <2>2. \A r : Servers(r) = {}
    BY DEF Init, Servers
  <2> QED
    BY <2>1, <2>2, FS_EmptySet DEF Init, ServedInv, ServesLoaded, Counted, Shown, Shows
<1>2. TableInv /\ ServedInv /\ [Next]_vars => ServedInv'
  BY NextServed
<1>3. ASSUME TableInv, ServedInv PROVE BusyIffServed
  <2>1. ASSUME NEW m \in Present
        PROVE  rsd[residents[m]].state = "BUSY" <=> rsd[residents[m]].active > 0
    <3> DEFINE r == residents[m]
    <3>1. r \in Requests /\ Live(m, r)
      BY <1>3, LiveEntries, EntriesHaveLoads DEF Present, TableInv
    <3>2. rsd[r].state # "UNLOADING" /\ Shows(rsd[r])
      BY <1>3, <3>1 DEF Live, IsServing, ServedInv, Shown
    <3> QED
      BY <3>2 DEF Shows
  <2> QED
    BY <1>3, <2>1 DEF BusyIffServed, ServedInv, Counted
<1> QED
  BY <1>1, <1>2, <1>3, TableInvariant, PTL DEF Spec
==============================================================================
