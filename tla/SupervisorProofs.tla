-------------------------- MODULE SupervisorProofs ---------------------------
(***************************************************************************)
(* Supervisor is well typed, a coroutine that has ended leaves no process  *)
(* that was not at least killed, and an instance only runs on the answers  *)
(* of another process after a race for a port: for any number of           *)
(* instances, any range of ports and any interleaving.                     *)
(***************************************************************************)
EXTENDS Supervisor, TLAPS

----------------------------------------------------------------------------
(* Type correctness                                                        *)

\* The coroutine of i goes on: its label is one of those of TypeOK
LEMMA GotoType ==
  ASSUME TypeOK, NEW i \in Instances, NEW label,
         label \in {"new", "forking", "loaded", "ended"} \cup Loading \cup Stopping,
         Goto(i, label)
  PROVE  pc' \in [Instances -> {"new", "forking", "loaded", "ended"} \cup Loading \cup Stopping]
BY DEF TypeOK, Goto

\* The steps of llama-server and of the tasks that read its log
LEMMA ProcessType ==
  ASSUME TypeOK, NEW i \in Instances, Process(i) \/ ReadLine(i) \/ DrainEnds(i)
  PROVE  TypeOK'
<1> USE SupervisorAssumption DEF TypeOK, processVars, history
<1>1. CASE Bind(i)
  BY <1>1 DEF Bind
<1>2. CASE Log(i)
  <2>1. pipe[i] \in Nat /\ pipe[i] + 1 \in 0 .. PipeSize
    BY <1>2 DEF Log
  <2> QED
    BY <1>2, <2>1 DEF Log
<1>3. CASE Die(i)
  <2>1. 0 \in 0 .. PipeSize
    OBVIOUS
  <2> QED
    BY <1>3, <2>1 DEF Die, Exit
<1>4. CASE Reap(i)
  BY <1>4 DEF Reap
<1>5. CASE ReadLine(i)
  <2>1. pipe[i] - 1 \in 0 .. PipeSize
    BY <1>5 DEF ReadLine
  <2> QED
    BY <1>5, <2>1 DEF ReadLine
<1>6. CASE DrainEnds(i)
  BY <1>6 DEF DrainEnds
<1> QED
  BY <1>1, <1>2, <1>3, <1>4, <1>5, <1>6 DEF Process

\* The steps of spawn
LEMMA SpawnType ==
  ASSUME TypeOK, NEW i \in Instances,
         \/ Allocate(i) \/ NoFreePort(i) \/ Fork(i) \/ ForkFails(i)
         \/ HealthAnswers200(i) \/ HealthIsNot200(i) \/ AskAgain(i) \/ DeadlinePasses(i)
         \/ PropsRead(i) \/ SpawnFails(i)
  PROVE  TypeOK'
<1> DEFINE labels == {"new", "forking", "loaded", "ended"} \cup Loading \cup Stopping
<1>1. CASE Allocate(i)
  <2>1. PICK p \in FreePorts :
          /\ port' = [port EXCEPT ![i] = p]
          /\ raced' = raced \cup
               {{i, j} : j \in {k \in Instances : Claims(k) /\ port[k] = p}}
    BY <1>1 DEF Allocate
  <2>2. p \in PortMin .. PortMax
    BY DEF FreePorts, Ports
  <2>3. port' \in [Instances -> (PortMin .. PortMax) \cup {NoPort}]
    BY <2>1, <2>2 DEF TypeOK
  <2>4. raced' \subseteq SUBSET Instances
    BY <2>1 DEF TypeOK
  <2>5. pc' \in [Instances -> labels]
    BY <1>1, GotoType DEF Allocate
  <2> QED
    BY <1>1, <2>3, <2>4, <2>5 DEF Allocate, TypeOK, processVars
<1>2. CASE NoFreePort(i) \/ ForkFails(i)
  <2>1. pc' \in [Instances -> labels]
    BY <1>2, GotoType DEF NoFreePort, ForkFails
  <2> QED
    BY <1>2, <2>1 DEF NoFreePort, ForkFails, TypeOK, processVars, history
<1>3. CASE Fork(i)
  <2>1. pc' \in [Instances -> labels]
    BY <1>3, GotoType DEF Fork, Loading
  <2> QED
    BY <1>3, <2>1 DEF Fork, TypeOK, history
<1>4. CASE HealthAnswers200(i) \/ HealthIsNot200(i) \/ AskAgain(i)
  <2>1. pc' \in [Instances -> labels]
    BY <1>4, GotoType DEF HealthAnswers200, HealthIsNot200, AskAgain, Loading
  <2> QED
    BY <1>4, <2>1 DEF HealthAnswers200, HealthIsNot200, AskAgain, TypeOK, processVars, history
<1>5. CASE DeadlinePasses(i) \/ SpawnFails(i)
  <2>1. pc' \in [Instances -> labels]
    BY <1>5, GotoType DEF DeadlinePasses, SpawnFails, Stopping
  <2> QED
    BY <1>5, <2>1 DEF DeadlinePasses, SpawnFails, TypeOK, processVars, history
<1>6. CASE PropsRead(i)
  <2>1. pc' \in [Instances -> labels]
    BY <1>6, GotoType DEF PropsRead
  <2>2. PICK j \in Instances : answerer' = [answerer EXCEPT ![i] = j]
    BY <1>6 DEF PropsRead
  <2>3. answerer' \in [Instances -> Instances \cup {Nobody}]
    BY <2>2 DEF TypeOK
  <2> QED
    BY <1>6, <2>1, <2>3 DEF PropsRead, TypeOK, processVars
<1> QED
  BY <1>1, <1>2, <1>3, <1>4, <1>5, <1>6

\* The steps of terminate, and cancellation
LEMMA TerminateType ==
  ASSUME TypeOK, NEW i \in Instances,
         Unload(i) \/ Close(i) \/ Stopped(i) \/ GraceExpires(i) \/ GiveUp(i) \/ Cancel(i)
  PROVE  TypeOK'
<1> DEFINE labels == {"new", "forking", "loaded", "ended"} \cup Loading \cup Stopping
<1>1. pc' \in [Instances -> labels]
  <2>1. CASE Close(i)
    BY <2>1, GotoType DEF Close, Stopping
  <2>2. CASE GraceExpires(i)
    BY <2>2, GotoType DEF GraceExpires, AfterGrace, Stopping
  <2>3. CASE Unload(i) \/ Stopped(i) \/ GiveUp(i)
    BY <2>3, GotoType DEF Unload, Stopped, GiveUp, Stopping
  <2>4. CASE Cancel(i)
    BY <2>4, GotoType DEF Cancel, Stopping
  <2> QED
    BY <2>1, <2>2, <2>3, <2>4
<1>2. CASE Unload(i)
  BY <1>1, <1>2 DEF Unload, TypeOK, processVars
<1>3. CASE Close(i)
  BY <1>1, <1>3 DEF Close, TypeOK, processVars, history
<1>4. CASE Stopped(i) \/ GiveUp(i)
  BY <1>1, <1>4 DEF Stopped, GiveUp, TypeOK, processVars, history
<1>5. CASE GraceExpires(i)
  BY <1>1, <1>5 DEF GraceExpires, AfterGrace, TypeOK, processVars, history
<1>6. CASE Cancel(i)
  <2>1. cancelled[i] + 1 \in 0 .. MaxCancels
    BY <1>6, SupervisorAssumption DEF Cancel, TypeOK
  <2>2. cancelled' \in [Instances -> 0 .. MaxCancels]
    BY <1>6, <2>1 DEF Cancel, TypeOK
  <2>3. cut' \subseteq Instances
    BY <1>6 DEF Cancel, TypeOK
  <2> QED
    BY <1>1, <1>6, <2>2, <2>3 DEF Cancel, TypeOK, processVars
<1> QED
  BY <1>2, <1>3, <1>4, <1>5, <1>6

(***************************************************************************)
(* TypeOK of Supervisor is an invariant of the model of supervisor.py: the *)
(* labels, the processes, the pipes within PipeSize and the ports given    *)
(* within the configured range.                                            *)
(***************************************************************************)
THEOREM SupervisorTypeCorrect == Spec => []TypeOK
<1>1. Init => TypeOK
  BY SupervisorAssumption DEF Init, TypeOK
<1>2. TypeOK /\ [Next]_vars => TypeOK'
  <2> SUFFICES ASSUME TypeOK, [Next]_vars PROVE TypeOK'
    OBVIOUS
  <2>1. CASE UNCHANGED vars
    BY <2>1 DEF TypeOK, vars, processVars, history
  <2>2. CASE Next
    BY <2>2, ProcessType, SpawnType, TerminateType DEF Next, Resume
  <2> QED
    BY <2>1, <2>2
<1> QED
  BY <1>1, <1>2, PTL DEF Spec

----------------------------------------------------------------------------
(* Nothing is left behind                                                  *)

(***************************************************************************)
(* EndedLeavesNothing is inductive once it is known that a coroutine which *)
(* has not forked owns no process, and that SIGKILL was sent before the    *)
(* last wait.                                                              *)
(***************************************************************************)
NoProcessYet == \A i \in Instances : pc[i] \in {"new", "forking"} => server[i] = "none"
KilledLast == \A i \in Instances : pc[i] = "killing" => signalled[i] = "kill"

EndInv == TypeOK /\ NoProcessYet /\ KilledLast /\ EndedLeavesNothing

\* The processes change by themselves: none of them comes to life
LEMMA ProcessEnds ==
  ASSUME EndInv, NEW i \in Instances, Process(i) \/ ReadLine(i) \/ DrainEnds(i)
  PROVE  NoProcessYet' /\ KilledLast' /\ EndedLeavesNothing'
<1>1. UNCHANGED <<pc, signalled, cut>>
  BY DEF Process, Bind, Log, Die, Exit, Reap, ReadLine, DrainEnds, history
<1>2. \A k \in Instances :
        /\ server[k] = "none" => server'[k] = "none"
        /\ Alive(k)' => Alive(k)
  <2>1. CASE Bind(i)
    BY <2>1 DEF EndInv, TypeOK, Bind, Alive
  <2>2. CASE Log(i)
    BY <2>2 DEF EndInv, TypeOK, Log, Bound, Alive
  <2>3. CASE Die(i) \/ Reap(i)
    BY <2>3 DEF EndInv, TypeOK, Die, Exit, Reap, Alive
  <2>4. CASE ReadLine(i) \/ DrainEnds(i)
    BY <2>4 DEF ReadLine, DrainEnds, processVars, Alive
  <2> QED
    BY <2>1, <2>2, <2>3, <2>4 DEF Process
<1> QED
  BY <1>1, <1>2 DEF EndInv, NoProcessYet, KilledLast, EndedLeavesNothing

\* A spawn ends only before it has a process
LEMMA SpawnEndsClean ==
  ASSUME EndInv, NEW i \in Instances,
         \/ Allocate(i) \/ NoFreePort(i) \/ Fork(i) \/ ForkFails(i)
         \/ HealthAnswers200(i) \/ HealthIsNot200(i) \/ AskAgain(i) \/ DeadlinePasses(i)
         \/ PropsRead(i) \/ SpawnFails(i)
  PROVE  NoProcessYet' /\ KilledLast' /\ EndedLeavesNothing'
<1> USE DEF EndInv, TypeOK, NoProcessYet, KilledLast, EndedLeavesNothing, Alive, Goto
<1>1. CASE Allocate(i)
  BY <1>1 DEF Allocate, processVars
<1>2. CASE NoFreePort(i)
  BY <1>2 DEF NoFreePort, processVars, history
<1>3. CASE Fork(i)
  BY <1>3 DEF Fork, history
<1>4. CASE ForkFails(i)
  BY <1>4 DEF ForkFails, processVars, history
<1>5. CASE HealthAnswers200(i) \/ HealthIsNot200(i) \/ AskAgain(i)
  BY <1>5 DEF HealthAnswers200, HealthIsNot200, AskAgain, processVars, history
<1>6. CASE DeadlinePasses(i) \/ SpawnFails(i)
  BY <1>6 DEF DeadlinePasses, SpawnFails, processVars, history
<1>7. CASE PropsRead(i)
  BY <1>7 DEF PropsRead, processVars
<1> QED
  BY <1>1, <1>2, <1>3, <1>4, <1>5, <1>6, <1>7

\* A termination ends on a dead process, on one that was killed, or cut short
LEMMA TerminateEndsClean ==
  ASSUME EndInv, NEW i \in Instances,
         Unload(i) \/ Close(i) \/ Stopped(i) \/ GraceExpires(i) \/ GiveUp(i) \/ Cancel(i)
  PROVE  NoProcessYet' /\ KilledLast' /\ EndedLeavesNothing'
<1> USE DEF EndInv, TypeOK, NoProcessYet, KilledLast, EndedLeavesNothing, Alive, Goto
<1>1. CASE Unload(i)
  BY <1>1 DEF Unload, processVars
<1>2. CASE Close(i)
  BY <1>2 DEF Close, processVars, history
<1>3. CASE Stopped(i)
  BY <1>3 DEF Stopped, processVars, history
<1>4. CASE GraceExpires(i)
  BY <1>4 DEF GraceExpires, AfterGrace, processVars, history
<1>5. CASE GiveUp(i)
  BY <1>5 DEF GiveUp, processVars, history
<1>6. CASE Cancel(i)
  BY <1>6 DEF Cancel, Loading, Stopping, processVars
<1> QED
  BY <1>1, <1>2, <1>3, <1>4, <1>5, <1>6

(***************************************************************************)
(* Whatever interrupts spawn or terminate (supervisor.py:195-203 and       *)
(* 284-310), a coroutine that has ended leaves no live process that was    *)
(* not sent SIGKILL, unless its termination was itself cancelled.          *)
(***************************************************************************)
THEOREM SupervisorLeavesNothing == Spec => []EndedLeavesNothing
<1>1. Init => NoProcessYet /\ KilledLast /\ EndedLeavesNothing
  BY DEF Init, NoProcessYet, KilledLast, EndedLeavesNothing
<1>2. EndInv /\ [Next]_vars => NoProcessYet' /\ KilledLast' /\ EndedLeavesNothing'
  <2> SUFFICES ASSUME EndInv, [Next]_vars
               PROVE  NoProcessYet' /\ KilledLast' /\ EndedLeavesNothing'
    OBVIOUS
  <2>1. CASE UNCHANGED vars
    BY <2>1 DEF EndInv, NoProcessYet, KilledLast, EndedLeavesNothing, Alive,
                vars, processVars, history
  <2>2. CASE Next
    BY <2>2, ProcessEnds, SpawnEndsClean, TerminateEndsClean DEF Next, Resume
  <2> QED
    BY <2>1, <2>2
<1> QED
  BY <1>1, <1>2, SupervisorTypeCorrect, PTL DEF Spec, EndInv

----------------------------------------------------------------------------
(* Ports                                                                   *)

(***************************************************************************)
(* A spawn under way only meets, on its port, a process that has it, or    *)
(* may still bind it, after a race.  Whichever of the two chose its port   *)
(* last found it free: the other one did not listen there, and claimed it. *)
(***************************************************************************)
Spawning(i) == pc[i] \in {"forking"} \cup Loading
MayListen(j) == pc[j] = "forking" \/ Alive(j)

MetOnlyInRace ==
  \A i, j \in Instances :
    i # j /\ port[i] = port[j] /\ Spawning(i) /\ MayListen(j) => {i, j} \in raced

PortInv == TypeOK /\ MetOnlyInRace /\ WrongServerOnlyInRace

\* No step but Allocate and Fork makes anybody spawn or able to listen
LEMMA QuietStep ==
  ASSUME PortInv, UNCHANGED port, raced \subseteq raced',
         \A k \in Instances : Spawning(k)' => Spawning(k),
         \A k \in Instances : MayListen(k)' => MayListen(k)
  PROVE  MetOnlyInRace'
BY DEF PortInv, MetOnlyInRace

\* The port that allocate_port returns was free: whoever has it claims it
LEMMA AllocationIsRace ==
  ASSUME PortInv, NEW i \in Instances, Allocate(i)
  PROVE  MetOnlyInRace' /\ WrongServerOnlyInRace'
<1>1. PICK p \in FreePorts :
        /\ port' = [port EXCEPT ![i] = p]
        /\ raced' = raced \cup
             {{i, j} : j \in {k \in Instances : Claims(k) /\ port[k] = p}}
  BY DEF Allocate
<1>2. UNCHANGED <<server, answerer>> /\ pc' = [pc EXCEPT ![i] = "forking"]
  BY DEF Allocate, Goto, processVars
<1>3. raced \subseteq raced'
  BY <1>1
<1>4. ASSUME NEW k \in Instances, k # i, port[k] = p, Spawning(k) \/ MayListen(k)
      PROVE  {i, k} \in raced'
  <2>1. ~ Bound(k)
    BY <1>4 DEF FreePorts
  <2>2. Claims(k)
    BY <1>4, <2>1 DEF Spawning, MayListen, Alive, Bound, Claims
  <2> QED
    BY <1>1, <1>4, <2>2
<1>5. \A k \in Instances : k # i =>
        /\ port'[k] = port[k]
        /\ Spawning(k)' <=> Spawning(k)
        /\ MayListen(k)' <=> MayListen(k)
  BY <1>1, <1>2 DEF PortInv, TypeOK, Spawning, MayListen, Alive
<1>6. port'[i] = p
  BY <1>1 DEF PortInv, TypeOK
<1>7. MetOnlyInRace'
  <2> SUFFICES ASSUME NEW k \in Instances, NEW j \in Instances, k # j, port'[k] = port'[j],
                      Spawning(k)', MayListen(j)'
               PROVE  {k, j} \in raced'
    BY DEF MetOnlyInRace
  <2>1. CASE k = i
    BY <2>1, <1>4, <1>5, <1>6
  <2>2. CASE j = i
    <3>1. {i, k} \in raced'
      BY <2>2, <1>4, <1>5, <1>6
    <3>2. {i, k} = {k, j}
      BY <2>2
    <3> QED
      BY <3>1, <3>2
  <2>3. CASE k # i /\ j # i
    BY <2>3, <1>3, <1>5 DEF PortInv, MetOnlyInRace
  <2> QED
    BY <2>1, <2>2, <2>3
<1>8. WrongServerOnlyInRace'
  BY <1>2, <1>3 DEF PortInv, WrongServerOnlyInRace
<1> QED
  BY <1>7, <1>8

\* A process that is created had its port already
LEMMA ForkKeepsRaces ==
  ASSUME PortInv, NEW i \in Instances, Fork(i)
  PROVE  MetOnlyInRace' /\ WrongServerOnlyInRace'
<1>1. \A k \in Instances : (Spawning(k)' => Spawning(k)) /\ (MayListen(k)' => MayListen(k))
  BY DEF PortInv, TypeOK, Fork, Goto, Spawning, Loading, MayListen, Alive
<1>2. UNCHANGED <<port, raced, answerer>>
  BY DEF Fork, history
<1>3. MetOnlyInRace'
  BY <1>1, <1>2, QuietStep
<1> QED
  BY <1>2, <1>3 DEF PortInv, WrongServerOnlyInRace

\* The answer to /props comes from whoever listens on the port
LEMMA PropsFromRace ==
  ASSUME PortInv, NEW i \in Instances, PropsRead(i)
  PROVE  MetOnlyInRace' /\ WrongServerOnlyInRace'
<1>1. PICK j \in Instances : Answers(j, i) /\ answerer' = [answerer EXCEPT ![i] = j]
  BY DEF PropsRead
<1>2. UNCHANGED <<port, raced, server>> /\ pc' = [pc EXCEPT ![i] = "loaded"] /\ pc[i] = "reading"
  BY DEF PropsRead, Goto, processVars
<1>3. \A k \in Instances : (Spawning(k)' => Spawning(k)) /\ (MayListen(k)' => MayListen(k))
  BY <1>2 DEF PortInv, TypeOK, Spawning, Loading, MayListen, Alive
<1>4. MetOnlyInRace'
  BY <1>2, <1>3, QuietStep
<1>5. j # i => {i, j} \in raced
  <2>1. Spawning(i) /\ MayListen(j) /\ port[i] = port[j]
    BY <1>1, <1>2 DEF Spawning, Loading, Answers, Bound, MayListen, Alive
  <2> QED
    BY <2>1 DEF PortInv, MetOnlyInRace
<1>6. WrongServerOnlyInRace'
  BY <1>1, <1>2, <1>5 DEF PortInv, TypeOK, WrongServerOnlyInRace
<1> QED
  BY <1>4, <1>6

\* The other steps change no port and give no answer
LEMMA OthersKeepRaces ==
  ASSUME PortInv, NEW i \in Instances,
         \/ NoFreePort(i) \/ ForkFails(i)
         \/ HealthAnswers200(i) \/ HealthIsNot200(i) \/ AskAgain(i) \/ DeadlinePasses(i)
         \/ SpawnFails(i) \/ Unload(i) \/ Close(i) \/ Stopped(i) \/ GraceExpires(i)
         \/ GiveUp(i) \/ Cancel(i)
         \/ Process(i) \/ ReadLine(i) \/ DrainEnds(i)
  PROVE  MetOnlyInRace' /\ WrongServerOnlyInRace'
<1>1. UNCHANGED <<port, raced>>
  BY DEF NoFreePort, ForkFails, HealthAnswers200, HealthIsNot200, AskAgain, DeadlinePasses,
         SpawnFails, Unload, Close, Stopped, GraceExpires, GiveUp, Cancel, Process, Bind, Log,
         Die, Exit, Reap, ReadLine, DrainEnds, history
<1>2. \A k \in Instances : answerer'[k] \in {answerer[k], Nobody}
  BY DEF PortInv, TypeOK, NoFreePort, ForkFails, HealthAnswers200, HealthIsNot200, AskAgain,
         DeadlinePasses, SpawnFails, Unload, Close, Stopped, GraceExpires, GiveUp, Cancel,
         Process, Bind, Log, Die, Exit, Reap, ReadLine, DrainEnds, history
<1>3. \A k \in Instances : Spawning(k)' => Spawning(k)
  <2>1. CASE Process(i) \/ ReadLine(i) \/ DrainEnds(i)
    BY <2>1 DEF Process, Bind, Log, Die, Exit, Reap, ReadLine, DrainEnds, Spawning
  <2>2. CASE HealthAnswers200(i) \/ HealthIsNot200(i) \/ AskAgain(i)
    BY <2>2 DEF PortInv, TypeOK, HealthAnswers200, HealthIsNot200, AskAgain, Goto, Spawning, Loading
  <2>3. CASE NoFreePort(i) \/ ForkFails(i) \/ DeadlinePasses(i) \/ SpawnFails(i)
    BY <2>3 DEF PortInv, TypeOK, NoFreePort, ForkFails, DeadlinePasses, SpawnFails, Goto,
                Spawning, Loading
  <2>4. CASE Unload(i) \/ Close(i) \/ Stopped(i) \/ GraceExpires(i) \/ GiveUp(i) \/ Cancel(i)
    BY <2>4 DEF PortInv, TypeOK, Unload, Close, Stopped, GraceExpires, AfterGrace, GiveUp,
                Cancel, Goto, Spawning, Loading
  <2> QED
    BY <2>1, <2>2, <2>3, <2>4
<1>4. \A k \in Instances : MayListen(k)' => MayListen(k)
  <2>1. CASE Process(i)
    BY <2>1 DEF PortInv, TypeOK, Process, Bind, Log, Bound, Die, Exit, Reap, MayListen, Alive
  <2>2. CASE ~ Process(i)
    <3>1. UNCHANGED server
      BY <2>2 DEF NoFreePort, ForkFails, HealthAnswers200, HealthIsNot200, AskAgain,
                  DeadlinePasses, SpawnFails, Unload, Close, Stopped, GraceExpires, GiveUp,
                  Cancel, ReadLine, DrainEnds, processVars
    <3>2. \A k \in Instances : pc'[k] = "forking" => pc[k] = "forking"
      BY <2>2 DEF PortInv, TypeOK, NoFreePort, ForkFails, HealthAnswers200, HealthIsNot200,
                  AskAgain, DeadlinePasses, SpawnFails, Unload, Close, Stopped, GraceExpires,
                  AfterGrace, GiveUp, Cancel, ReadLine, DrainEnds, Goto
    <3> QED
      BY <3>1, <3>2 DEF MayListen, Alive
  <2> QED
    BY <2>1, <2>2
<1>5. MetOnlyInRace'
  BY <1>1, <1>3, <1>4, QuietStep
<1>6. WrongServerOnlyInRace'
  BY <1>1, <1>2 DEF PortInv, WrongServerOnlyInRace
<1> QED
  BY <1>5, <1>6

(***************************************************************************)
(* An instance is presented as loaded on the answers of another process    *)
(* only when allocate_port (supervisor.py:84-100) has given one port to    *)
(* two spawns: no reuse of a port once its owner is loaded, no crash and   *)
(* no late answer leads there.                                             *)
(***************************************************************************)
THEOREM WrongServersHaveRaced == Spec => []WrongServerOnlyInRace
<1>1. Init => MetOnlyInRace /\ WrongServerOnlyInRace
  BY DEF Init, MetOnlyInRace, WrongServerOnlyInRace, Spawning, Loading
<1>2. PortInv /\ [Next]_vars => MetOnlyInRace' /\ WrongServerOnlyInRace'
  <2> SUFFICES ASSUME PortInv, [Next]_vars PROVE MetOnlyInRace' /\ WrongServerOnlyInRace'
    OBVIOUS
  <2>1. CASE UNCHANGED vars
    BY <2>1 DEF PortInv, MetOnlyInRace, WrongServerOnlyInRace, Spawning, MayListen, Alive,
                vars, processVars, history
  <2>2. CASE Next
    BY <2>2, AllocationIsRace, ForkKeepsRaces, PropsFromRace, OthersKeepRaces DEF Next, Resume
  <2> QED
    BY <2>1, <2>2
<1> QED
  BY <1>1, <1>2, SupervisorTypeCorrect, PTL DEF Spec, PortInv
=============================================================================
