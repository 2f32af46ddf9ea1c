----------------------------- MODULE Supervisor -----------------------------
(***************************************************************************)
(* ollamacpp/runtime/supervisor.py: LlamaServerSupervisor, the coroutines  *)
(* spawn and terminate of several instances, and the llama-server          *)
(* processes as the supervisor sees them: they bind their port, load, may  *)
(* die at any time and write a log that somebody has to read.              *)
(*                                                                         *)
(* The lifecycle manager calls spawn outside its admission lock, so two    *)
(* spawns overlap.  Delays are not measured: a deadline may pass whenever  *)
(* the code looks at it.  pc says at which await a coroutine is.           *)
(***************************************************************************)
EXTENDS Naturals, FiniteSets

CONSTANTS Instances,        \* each one is spawned once
          PortMin, PortMax,
          Foreign,          \* sets of ports that other programs may hold
          PipeSize,         \* lines that fit in the pipes of a process
          MaxCancels,       \* bound: cancellations of one coroutine
          Nobody, NoPort

ASSUME SupervisorAssumption ==
  /\ IsFiniteSet(Instances)
  /\ PortMin \in Nat /\ PortMax \in Nat
  /\ Foreign \subseteq SUBSET (PortMin .. PortMax)
  /\ PipeSize \in Nat \ {0} /\ MaxCancels \in Nat
  /\ Nobody \notin Instances /\ NoPort \notin Nat

\* Mutant: the range is one port too long.
PortsAndOne == PortMin .. PortMax + 1

Ports == PortMin .. PortMax

VARIABLES
  foreign,   \* the ports that other programs hold
  pc,        \* the coroutine: spawn, then terminate
  port,      \* the port that allocate_port returned
  server,    \* the process; "reaped": dead, and its returncode is known
  signalled, \* the last signal that terminate sent
  pipe,      \* lines that wait in the pipes of the process
  drain,     \* the tasks that read them: none, reading, ended
  cancelled, \* how often the coroutine was cancelled
  answerer,  \* history: the process whose /props a loaded instance read
  raced,     \* history: pairs given one port while both claimed it
  cut        \* history: instances whose termination was cancelled

processVars == <<server, pipe>>
history == <<answerer, raced, cut>>
vars == <<foreign, pc, port, processVars, signalled, drain, cancelled, history>>

Loading == {"asking", "pausing", "diagnosing", "reading"}
Stopping == {"closing", "grace", "killing"}

TypeOK ==
  /\ foreign \in Foreign
  /\ pc \in [Instances -> {"new", "forking", "loaded", "ended"} \cup Loading \cup Stopping]
  /\ port \in [Instances -> (PortMin .. PortMax) \cup {NoPort}]
  /\ server \in [Instances ->
       {"none", "starting", "loading", "healthy", "exited", "reaped"}]
  /\ signalled \in [Instances -> {"none", "term", "kill"}]
  /\ pipe \in [Instances -> 0 .. PipeSize]
  /\ drain \in [Instances -> {"none", "reading", "ended"}]
  /\ cancelled \in [Instances -> 0 .. MaxCancels]
  /\ answerer \in [Instances -> Instances \cup {Nobody}]
  /\ raced \subseteq SUBSET Instances
  /\ cut \subseteq Instances

Init ==
  /\ foreign \in Foreign
  /\ pc = [i \in Instances |-> "new"]
  /\ port = [i \in Instances |-> NoPort]
  /\ server = [i \in Instances |-> "none"]
  /\ signalled = [i \in Instances |-> "none"]
  /\ pipe = [i \in Instances |-> 0]
  /\ drain = [i \in Instances |-> "none"]
  /\ cancelled = [i \in Instances |-> 0]
  /\ answerer = [i \in Instances |-> Nobody]
  /\ raced = {} /\ cut = {}

-----------------------------------------------------------------------------
(* The processes *)

Bound(i) == server[i] \in {"loading", "healthy"}
Alive(i) == server[i] \in {"starting", "loading", "healthy"}

\* Whoever listens on the port of i answers what is asked of i.
Answers(j, i) == Bound(j) /\ port[j] = port[i]

\* The end of a process closes its pipes: the drains read what was left.
Exit(i) ==
  /\ server' = [server EXCEPT ![i] = "exited"]
  /\ pipe' = [pipe EXCEPT ![i] = 0]
  /\ drain' = [drain EXCEPT ![i] = "ended"]
  /\ UNCHANGED <<foreign, pc, port, signalled, cancelled, history>>

Bind(i) ==
  /\ server[i] = "starting"
  /\ \A j \in Instances : ~ Answers(j, i)
  /\ server' = [server EXCEPT ![i] = "loading"]
  /\ UNCHANGED <<foreign, pc, port, signalled, pipe, drain, cancelled, history>>

\* The port is taken, a signal is obeyed, or anything else ends it.
Die(i) == Alive(i) /\ Exit(i)

\* A line is written, unless the pipe is full: then the process blocks.
Log(i) ==
  /\ Bound(i) /\ pipe[i] < PipeSize
  /\ pipe' = [pipe EXCEPT ![i] = @ + 1]
  /\ server' = [server EXCEPT ![i] = "healthy"]
  /\ UNCHANGED <<foreign, pc, port, signalled, drain, cancelled, history>>

\* The event loop learns the returncode.
Reap(i) ==
  /\ server[i] = "exited"
  /\ server' = [server EXCEPT ![i] = "reaped"]
  /\ UNCHANGED <<foreign, pc, port, signalled, pipe, drain, cancelled, history>>

-----------------------------------------------------------------------------
(* _drain *)

ReadLine(i) ==
  /\ drain[i] = "reading" /\ pipe[i] > 0
  /\ pipe' = [pipe EXCEPT ![i] = @ - 1]
  /\ UNCHANGED <<foreign, pc, port, server, signalled, drain, cancelled, history>>

\* A line too long for readline: its ValueError ends the task.
DrainEnds(i) ==
  /\ drain[i] = "reading" /\ pipe[i] > 0
  /\ drain' = [drain EXCEPT ![i] = "ended"]
  /\ UNCHANGED <<foreign, pc, port, processVars, signalled, cancelled, history>>

-----------------------------------------------------------------------------
(* spawn *)

Goto(i, label) == pc' = [pc EXCEPT ![i] = label]

\* Mutant: the first port of the range, without trying it.
FirstPort == {p \in Ports : p = PortMin}

\* allocate_port: a port that can be bound now; the probe is closed at once.
FreePorts == Ports \ (foreign \cup {port[j] : j \in {k \in Instances : Bound(k)}})

\* It has not bound its port yet, or it has lost it while spawn asks for it.
Claims(j) == pc[j] \in {"forking"} \cup Loading \/ server[j] = "starting"

Allocate(i) ==
  /\ pc[i] = "new"
  /\ \E p \in FreePorts :
       /\ \A q \in FreePorts : p <= q
       /\ port' = [port EXCEPT ![i] = p]
       /\ raced' = raced \cup
            {{i, j} : j \in {k \in Instances : Claims(k) /\ port[k] = p}}
  /\ Goto(i, "forking")
  /\ UNCHANGED <<foreign, processVars, signalled, drain, cancelled, answerer, cut>>

NoFreePort(i) ==
  /\ pc[i] = "new" /\ FreePorts = {}
  /\ Goto(i, "ended")
  /\ UNCHANGED <<foreign, port, processVars, signalled, drain, cancelled, history>>

\* The process exists, its pipes are being read, /health is asked.
Fork(i) ==
  /\ pc[i] = "forking"
  /\ server' = [server EXCEPT ![i] = "starting"]
  /\ drain' = [drain EXCEPT ![i] = "reading"]
  /\ Goto(i, "asking")
  /\ UNCHANGED <<foreign, port, pipe, signalled, cancelled, history>>

ForkFails(i) ==
  /\ pc[i] = "forking"
  /\ Goto(i, "ended")
  /\ UNCHANGED <<foreign, port, processVars, signalled, drain, cancelled, history>>

\* 200 to /health, from whoever listens there.
HealthAnswers200(i) ==
  /\ pc[i] = "asking"
  /\ \E j \in Instances : Answers(j, i) /\ server[j] = "healthy"
  /\ Goto(i, "reading")
  /\ UNCHANGED <<foreign, port, processVars, signalled, drain, cancelled, history>>

\* 503, connection refused, timeout: it pauses.
HealthIsNot200(i) ==
  /\ pc[i] = "asking"
  /\ Goto(i, "pausing")
  /\ UNCHANGED <<foreign, port, processVars, signalled, drain, cancelled, history>>

AskAgain(i) ==
  /\ pc[i] = "pausing"
  /\ Goto(i, IF server[i] = "reaped" THEN "diagnosing" ELSE "asking")
  /\ UNCHANGED <<foreign, port, processVars, signalled, drain, cancelled, history>>

\* Mutant: the loop forgets its deadline.
NeverExpires(i) == FALSE /\ pc[i] = "pausing"

Expires(i) == pc[i] = "pausing"

\* The deadline is looked at when the loop resumes.
DeadlinePasses(i) ==
  /\ Expires(i)
  /\ Goto(i, "closing")
  /\ UNCHANGED <<foreign, port, processVars, signalled, drain, cancelled, history>>

\* The failure output of a dead process was read, or /props cannot be.
SpawnFails(i) ==
  /\ pc[i] \in {"diagnosing", "reading"}
  /\ Goto(i, "closing")
  /\ UNCHANGED <<foreign, port, processVars, signalled, drain, cancelled, history>>

PropsRead(i) ==
  /\ pc[i] = "reading"
  /\ \E j \in Instances :
       /\ Answers(j, i) /\ server[j] = "healthy"
       /\ answerer' = [answerer EXCEPT ![i] = j]
  /\ Goto(i, "loaded")
  /\ UNCHANGED <<foreign, port, processVars, signalled, drain, cancelled, raced, cut>>
-----------------------------------------------------------------------------
(* terminate *)

Unload(i) ==
  /\ pc[i] = "loaded"
  /\ Goto(i, "closing")
  /\ answerer' = [answerer EXCEPT ![i] = Nobody]
  /\ UNCHANGED <<foreign, port, processVars, signalled, drain, cancelled, raced, cut>>

\* The client is closed: the drains are cancelled, SIGTERM is sent.
Close(i) ==
  /\ pc[i] = "closing"
  /\ drain' = [drain EXCEPT ![i] = "ended"]
  /\ IF server[i] = "reaped"
     THEN /\ Goto(i, "ended")
          /\ UNCHANGED signalled
     ELSE /\ Goto(i, "grace")
          /\ signalled' = [signalled EXCEPT ![i] = "term"]
  /\ UNCHANGED <<foreign, port, processVars, cancelled, history>>

Stopped(i) ==
  /\ pc[i] \in {"grace", "killing"} /\ server[i] = "reaped"
  /\ Goto(i, "ended")
  /\ UNCHANGED <<foreign, port, processVars, signalled, drain, cancelled, history>>

\* Mutant: nothing follows the grace period.
AfterGraceNothing(i) == /\ Goto(i, "ended")
                        /\ UNCHANGED signalled

AfterGrace(i) ==
  /\ Goto(i, "killing")
  /\ signalled' = [signalled EXCEPT ![i] = "kill"]

GraceExpires(i) ==
  /\ pc[i] = "grace" /\ server[i] # "reaped"
  /\ AfterGrace(i)
  /\ UNCHANGED <<foreign, port, processVars, drain, cancelled, history>>

\* The second wait also expires, and this is suppressed.
GiveUp(i) ==
  /\ pc[i] = "killing" /\ server[i] # "reaped"
  /\ Goto(i, "ended")
  /\ UNCHANGED <<foreign, port, processVars, signalled, drain, cancelled, history>>

\* A cancellation lands at the await: asyncio kills a process that it is
\* creating, spawn terminates one that it is loading, and nothing resumes a
\* termination: neither that of an unload nor the one that follows a
\* cancelled load.
Cancel(i) ==
  /\ cancelled[i] < MaxCancels
  /\ pc[i] \in {"forking"} \cup Loading \cup Stopping
  /\ cancelled' = [cancelled EXCEPT ![i] = @ + 1]
  /\ Goto(i, IF pc[i] \in Loading THEN "closing" ELSE "ended")
  /\ cut' = IF pc[i] \in Stopping THEN cut \cup {i} ELSE cut
  /\ UNCHANGED <<foreign, port, processVars, signalled, drain, answerer, raced>>

-----------------------------------------------------------------------------
Resume(i) ==
  \/ Fork(i) \/ ForkFails(i)
  \/ HealthAnswers200(i) \/ HealthIsNot200(i) \/ AskAgain(i)
  \/ PropsRead(i) \/ SpawnFails(i)
  \/ Close(i) \/ Stopped(i) \/ GraceExpires(i) \/ GiveUp(i)

Process(i) == Bind(i) \/ Log(i) \/ Die(i) \/ Reap(i)

Next ==
  \E i \in Instances :
    \/ Allocate(i) \/ NoFreePort(i) \/ Resume(i) \/ DeadlinePasses(i)
    \/ Process(i) \/ ReadLine(i) \/ DrainEnds(i)
    \/ Unload(i) \/ Cancel(i)

\* The event loop resumes every coroutine whose await is over: each await has
\* its own timeout.  A loop that never stops asking meets its deadline.  What
\* a drain can read it reads.  Nothing is assumed of the processes.
Fairness ==
  \A i \in Instances :
    WF_vars(Resume(i)) /\ SF_vars(DeadlinePasses(i)) /\ WF_vars(ReadLine(i))

Spec == Init /\ [][Next]_vars
FairSpec == Spec /\ Fairness

-----------------------------------------------------------------------------
(* Properties *)

\* « Toute erreur — y compris une annulation — doit laisser le système
\* propre » (spawn): what has ended leaves no process that was not at least
\* sent SIGKILL, unless its termination was itself cancelled.
EndedLeavesNothing ==
  \A i \in Instances : pc[i] = "ended" /\ Alive(i) => signalled[i] = "kill" \/ i \in cut

\* An instance that runs on the answers of another one's process was given
\* its port while the other claimed it (it had not bound it yet, or had lost it
\* and was still loading), or the other way round: no late answer, and no
\* reuse of the port of an instance that is loaded or has ended, leads there.
WrongServerOnlyInRace ==
  \A i \in Instances : answerer[i] \notin {i, Nobody} => {i, answerer[i]} \in raced

\* « un échec de bind est détecté au démarrage, pas silencieux »
\* (allocate_port), « une instance [...] dont le modèle n'est pas chargé ne
\* doit jamais être présentée comme READY » (spawn).
ReadyMeansItsOwnServer ==
  \A i \in Instances : pc[i] = "loaded" => answerer[i] = i

\* A load that has begun ends, whatever the process does: it is never left
\* LOADING, which would pin its reservation for ever.
SpawnEnds ==
  \A i \in Instances :
    pc[i] \in {"forking"} \cup Loading ~> pc[i] \in {"loaded", "ended"}
=============================================================================
