---------------------------- MODULE SupervisorProofs ----------------------------
(***************************************************************************)
(* What holds of Supervisor for every registry, any number of connections  *)
(* and slots, and any number of failures.  First type correctness, and the *)
(* safety properties about which process is active and which child may run.*)
(* Then that a stream works with the provider its voice belongs to, that   *)
(* only one task waits on a process's reader and which one, that the idle  *)
(* loop ends by a collision alone, and that an enumeration skips an        *)
(* installed provider only for cause.  Last that it implements             *)
(* ProviderSlot.                                                           *)
(***************************************************************************)
EXTENDS Supervisor, TLAPS

(* The owner and the phase of the lifecycle lock agree.                      *)
LockShape ==
  /\ lifeOwner = NoOne <=> phase = "free"
  /\ lifeOwner = NoOne => lifeQueue = <<>>

(* What each phase knows of the active process.                              *)
PhaseActive ==
  /\ phase \in {"warm", "kill", "listed", "return", "downRead", "downReap"} =>
       active # NoProc
  /\ phase = "spawn" => active = NoProc
  /\ phase \in {"free", "enter", "walk", "listed", "return"} =>
       active = NoProc \/ procs[active].state \in {"READY", "FAILED"}
  /\ active # NoProc => procs[active].name \in Providers

(* Only connections on the speechd socket synthesize, and a stream has a     *)
(* process.                                                                  *)
TaskShape ==
  /\ \A t \in Tasks : job[t] \in {"populate", "route", "synth"} => t \in Clients
  /\ \A c \in Clients : Streaming(c) => proc[c] \in Slots

Shape == LockShape /\ PhaseActive /\ TaskShape

IInv == TypeOK /\ Shape /\ NoForgottenChild /\ OnlyActiveStarted

(* NoOne is no task and NoProc no slot; connections are tasks.               *)
LEMMA TasksFacts ==
  /\ NoOne \notin Tasks /\ NoProc \notin Slots
  /\ Clients \subseteq Tasks /\ Controls \subseteq Tasks /\ Idle \in Tasks
  BY SupervisorAssumption DEF Tasks

(* The daemon starts in the invariant: no process, no lock taken.            *)
LEMMA InitIInv == Init => IInv
  <1> SUFFICES ASSUME Init PROVE IInv
    OBVIOUS
  <1> USE DEF Init
  <1>1. TypeOK
    <2>1. procs \in [Slots -> Objects]
      BY DEF Objects, NoObject, ProcStates
    <2>2. crashes \in 0..MaxCrashes /\ startFailures \in 0..MaxStartFailures
      BY SupervisorAssumption
    <2>3. reqQueue \in [Slots -> Seq(Clients)] /\ lifeQueue \in Seq(Tasks)
      OBVIOUS
    <2> QED BY <2>1, <2>2, <2>3 DEF TypeOK, Phases, Jobs, PCs
  <1>2. Shape
    BY TasksFacts DEF Shape, LockShape, PhaseActive, TaskShape, Streaming, NoProc
  <1>3. NoForgottenChild /\ OnlyActiveStarted
    BY DEF NoForgottenChild, OnlyActiveStarted, Started, NoObject
  <1> QED BY <1>1, <1>2, <1>3 DEF IInv

(* The lifecycle lock's helpers keep its variables and the tasks' typed.     *)
LifeType ==
  /\ lifeOwner \in Tasks \cup {NoOne} /\ lifeQueue \in Seq(Tasks)
  /\ phase \in Phases

TaskType ==
  /\ pc \in [Tasks -> PCs] /\ job \in [Tasks -> Jobs]
  /\ want \in [Tasks -> Providers \cup {NoOne}]
  /\ target \in [Tasks -> Providers \cup {NoOne}]
  /\ proc \in [Tasks -> Slots \cup {NoProc}]

(* Releasing hands the lock to a task, or leaves it free.                    *)
LEMMA ReleaseType ==
  ASSUME LifeType, LockShape, Release
  PROVE  LifeType' /\ LockShape' /\ phase' \in {"free", "enter"}
  <1>1. CASE lifeQueue = <<>>
    BY <1>1 DEF LifeType, LockShape, Release, Phases
  <1>2. CASE lifeQueue # <<>>
    <2>1. Head(lifeQueue) \in Tasks /\ Tail(lifeQueue) \in Seq(Tasks)
      BY <1>2 DEF LifeType
    <2> QED BY <1>2, <2>1, TasksFacts DEF LifeType, LockShape, Release, Phases
  <1> QED BY <1>1, <1>2

(* Asking for the lock takes it when it is free and queues otherwise.        *)
LEMMA AcquireType ==
  ASSUME LifeType, LockShape, NEW t \in Tasks, Acquire(t)
  PROVE  LifeType' /\ LockShape' /\ phase' \in {phase, "enter"}
                   /\ (phase' = phase \/ phase = "free")
  BY TasksFacts DEF LifeType, LockShape, Acquire, Phases

(* Releasing and asking again leaves the lock taken.                         *)
LEMMA ReleaseAndAcquireType ==
  ASSUME LifeType, LockShape, NEW t \in Tasks, ReleaseAndAcquire(t)
  PROVE  LifeType' /\ LockShape' /\ phase' = "enter"
  <1>1. CASE lifeQueue = <<>>
    BY <1>1, TasksFacts DEF LifeType, LockShape, ReleaseAndAcquire, Phases
  <1>2. CASE lifeQueue # <<>>
    <2>1. Head(lifeQueue) \in Tasks /\ Append(Tail(lifeQueue), t) \in Seq(Tasks)
      BY <1>2 DEF LifeType
    <2> QED
      BY <1>2, <2>1, TasksFacts DEF LifeType, LockShape, ReleaseAndAcquire, Phases
  <1> QED BY <1>1, <1>2

(* A task that is answered keeps no process and no job.                      *)
LEMMA FinishType ==
  ASSUME TaskType, TaskShape, NEW t \in Tasks, Finish(t)
  PROVE  TaskType' /\ TaskShape'
  <1>1. TaskType'
    BY DEF TaskType, Finish, PCs, Jobs
  <1>2. TaskShape'
    BY TasksFacts DEF TaskType, TaskShape, Finish, Streaming, PCs, Jobs
  <1> QED BY <1>1, <1>2

(* Wherever an exception ends, the lock is free, handed on or walking.       *)
LEMMA RaiseType ==
  ASSUME LifeType, LockShape, TaskType, TaskShape, enumAt \in Nat,
         NEW h \in Tasks, lifeOwner = h, Raise(h)
  PROVE  /\ LifeType' /\ LockShape' /\ TaskType' /\ TaskShape'
         /\ enumAt' \in Nat /\ phase' \in {"free", "enter", "walk"}
  <1>1. CASE Enumerating(h) /\ enumAt' = enumAt + 1 /\ phase' = "walk"
             /\ UNCHANGED <<lifeOwner, lifeQueue, taskVars>>
    BY <1>1, TasksFacts DEF LifeType, LockShape, TaskType, TaskShape, Streaming,
       taskVars, Phases
  <1>2. CASE Release /\ Finish(h) /\ UNCHANGED enumAt
    BY <1>2, ReleaseType, FinishType
  <1>3. CASE /\ Release /\ UNCHANGED <<enumAt, want, target, proc>>
             /\ pc' = [pc EXCEPT ![h] = "dead"] /\ job' = [job EXCEPT ![h] = "none"]
    <2>1. LifeType' /\ LockShape' /\ phase' \in {"free", "enter"}
      BY <1>3, ReleaseType
    <2>2. TaskType' /\ TaskShape'
      BY <1>3, TasksFacts DEF TaskType, TaskShape, Streaming, PCs, Jobs
    <2> QED BY <1>3, <2>1, <2>2
  <1> QED BY <1>1, <1>2, <1>3 DEF Raise

-----------------------------------------------------------------------------
(* The rest of the type invariant.                                           *)
ProcType ==
  /\ active \in Slots \cup {NoProc} /\ procs \in [Slots -> Objects]
  /\ child \in [Slots -> {"running", "leaving", "dead"}]
  /\ aged \in BOOLEAN /\ reader \in [Slots -> Tasks \cup {NoOne}]

LockType ==
  /\ reqOwner \in [Slots -> Clients \cup {NoOne}]
  /\ reqQueue \in [Slots -> Seq(Clients)]

OtherType ==
  /\ after \in {"spawn", "next", "release"}
  /\ enumFound \subseteq Providers /\ index \subseteq Providers
  /\ crashes \in 0..MaxCrashes /\ startFailures \in 0..MaxStartFailures

(* The type invariant, by groups of variables.                               *)
LEMMA TypeParts ==
  TypeOK <=> /\ ProcType /\ LockType /\ LifeType /\ TaskType /\ OtherType
             /\ enumAt \in Nat
  BY DEF TypeOK, ProcType, LockType, LifeType, TaskType, OtherType

(* The safety properties and what they rest on in one place.                 *)
ActiveInv == PhaseActive /\ NoForgottenChild /\ OnlyActiveStarted

(* The invariant, by groups of variables.                                    *)
LEMMA Parts ==
  IInv <=> /\ ProcType /\ LockType /\ LifeType /\ TaskType /\ OtherType
           /\ enumAt \in Nat
           /\ LockShape /\ TaskShape /\ ActiveInv
  BY TypeParts DEF IInv, Shape, ActiveInv

(* The invariant of the next state, by the same groups.                      *)
LEMMA PartsNext ==
  IInv' <=> /\ ProcType' /\ LockType' /\ LifeType' /\ TaskType' /\ OtherType'
            /\ (enumAt \in Nat)'
            /\ LockShape' /\ TaskShape' /\ ActiveInv'
  BY Parts, PTL

(* A shutdown begins: the active child is told to leave, or given up.        *)
LEMMA BeginShutdownIInv ==
  ASSUME IInv, NEW h \in Tasks, lifeOwner = h, active # NoProc,
         NEW next \in {"spawn", "next", "release"}, BeginShutdown(h, next)
  PROVE  IInv'
  <1>0. /\ ProcType /\ LockType /\ LifeType /\ TaskType /\ OtherType
        /\ enumAt \in Nat /\ LockShape /\ TaskShape /\ ActiveInv
    BY Parts
  <1>1. active \in Slots /\ procs \in [Slots -> Objects]
        /\ child \in [Slots -> {"running", "leaving", "dead"}]
        /\ aged \in BOOLEAN /\ reader \in [Slots -> Tasks \cup {NoOne}]
    BY <1>0 DEF ProcType
  <1>2. child' \in [Slots -> {"running", "leaving", "dead"}]
        /\ child'[active] # "running"
        /\ \A p \in Slots : child'[p] = "running" => child[p] = "running"
    BY <1>1 DEF BeginShutdown
  <1>3. procs' \in [Slots -> Objects]
    BY <1>1 DEF BeginShutdown, Objects, ProcStates
  <1>4. LockType' /\ enumFound' = enumFound
    BY <1>0 DEF LockType, BeginShutdown, lockVars
  <1>5. /\ procs'[active].state = "SHUTTING_DOWN"
        /\ procs'[active].name = procs[active].name
        /\ \A p \in Slots : p # active => procs'[p] = procs[p]
    BY <1>1 DEF BeginShutdown, Objects
  <1>6. aged' \in BOOLEAN
    BY DEF BeginShutdown
  <1>7. NoForgottenChild' /\ OnlyActiveStarted'
    <2>1. \A p \in Slots : child'[p] # "running"
      BY <1>0, <1>2 DEF ActiveInv, NoForgottenChild
    <2>2. \A p \in Slots : ~Started(p)'
      BY <1>0, <1>5 DEF ActiveInv, OnlyActiveStarted, Started
    <2> QED BY <2>1, <2>2 DEF NoForgottenChild, OnlyActiveStarted
  <1>8. CASE reader[active] = NoOne
    <2> USE <1>0
    <2>1. /\ reader' = [reader EXCEPT ![active] = h] /\ phase' = "downRead"
          /\ after' = next
          /\ UNCHANGED <<active, lifeOwner, lifeQueue, enumAt, taskVars>>
      BY <1>8 DEF BeginShutdown
    <2>2. ProcType'
      BY <1>1, <1>2, <1>3, <1>6, <2>1 DEF ProcType
    <2>3. LifeType' /\ LockShape' /\ TaskType' /\ TaskShape' /\ (enumAt \in Nat)'
      BY <2>1, TasksFacts DEF LifeType, LockShape, TaskType, TaskShape, Streaming,
         taskVars, Phases
    <2>4. OtherType'
      BY <2>1 DEF OtherType, BeginShutdown, boundVars
    <2>5. PhaseActive'
      BY <1>1, <1>5, <2>1 DEF ActiveInv, PhaseActive
    <2> QED BY <1>4, <1>7, <2>2, <2>3, <2>4, <2>5, PartsNext DEF ActiveInv
  <1>9. CASE reader[active] # NoOne
    <2> USE <1>0
    <2>1. active' = NoProc /\ Raise(h) /\ UNCHANGED <<reader, after>>
      BY <1>9 DEF BeginShutdown
    <2>2. /\ LifeType' /\ LockShape' /\ TaskType' /\ TaskShape'
          /\ enumAt' \in Nat /\ phase' \in {"free", "enter", "walk"}
      BY <2>1, RaiseType
    <2>3. ProcType'
      BY <1>2, <1>3, <1>6, <2>1 DEF ProcType
    <2>4. OtherType'
      BY <2>1 DEF OtherType, BeginShutdown, boundVars
    <2>5. PhaseActive'
      BY <2>1, <2>2 DEF PhaseActive
    <2>6. NoForgottenChild' /\ OnlyActiveStarted'
      BY <1>7
    <2> QED BY <1>4, <2>2, <2>3, <2>4, <2>5, <2>6, PartsNext DEF ActiveInv
  <1> QED BY <1>8, <1>9

(* A step that leaves the lifecycle lock, the enumeration and the bounds     *)
(* alone, and changes process objects in nothing but what they owe, whether  *)
(* they are dirty, or to FAILED, or drops one that is not active.            *)
MildUpdate ==
  /\ active' = active /\ procs' \in [Slots -> Objects]
  /\ \A p \in Slots :
       \/ procs'[p].name = procs[p].name
          /\ procs'[p].state \in {procs[p].state, "FAILED"}
       \/ p # active /\ procs'[p] = NoObject

(* A change of one process that starts nothing keeps the invariant.          *)
LEMMA MildUpdateIInv ==
  ASSUME IInv, MildUpdate, LockType', TaskType', TaskShape',
         reader' \in [Slots -> Tasks \cup {NoOne}], aged' \in BOOLEAN,
         UNCHANGED <<child, lifeVars, enumVars, boundVars>>
  PROVE  IInv'
  <1>0. /\ ProcType /\ LifeType /\ OtherType
        /\ enumAt \in Nat /\ LockShape /\ ActiveInv
    BY Parts
  <1>1. ProcType'
    BY <1>0 DEF ProcType, MildUpdate
  <1>2. LifeType' /\ LockShape' /\ OtherType' /\ (enumAt \in Nat)'
    BY <1>0 DEF LifeType, LockShape, OtherType, lifeVars, enumVars, boundVars
  <1>3. PhaseActive'
    <2>1. active \in Slots \/ active = NoProc
      BY <1>0 DEF ProcType
    <2>2. active # NoProc => /\ procs'[active].name = procs[active].name
                             /\ procs'[active].state \in {procs[active].state, "FAILED"}
      BY <2>1 DEF MildUpdate
    <2> QED BY <1>0, <2>1, <2>2 DEF ActiveInv, PhaseActive, MildUpdate, lifeVars
  <1>4. NoForgottenChild'
    BY <1>0 DEF ActiveInv, NoForgottenChild, MildUpdate
  <1>5. OnlyActiveStarted'
    BY <1>0 DEF ActiveInv, OnlyActiveStarted, Started, MildUpdate, NoObject
  <1> QED
    BY <1>0, <1>1, <1>2, <1>3, <1>4, <1>5, PartsNext DEF ActiveInv

(* The end of an exchange is such a change.                                  *)
LEMMA EndExchangeMild ==
  ASSUME IInv, NEW c \in Clients, Streaming(c), NEW object \in Objects,
         object.name = procs[proc[c]].name, object.state = procs[proc[c]].state,
         active' = active, EndExchange(c, object)
  PROVE  MildUpdate /\ LockType' /\ TaskType' /\ TaskShape'
  <1>0. ProcType /\ LockType /\ TaskType /\ TaskShape
    BY Parts
  <1>1. proc[c] \in Slots /\ c \in Tasks
    BY <1>0, TasksFacts DEF TaskShape
  <1>2. TaskType' /\ TaskShape'
    BY <1>0, <1>1, FinishType DEF EndExchange
  <1>3. LockType'
    <2>1. reqOwner \in [Slots -> Clients \cup {NoOne}]
          /\ reqQueue \in [Slots -> Seq(Clients)]
      BY <1>0 DEF LockType
    <2>2. CASE reqQueue[proc[c]] = <<>>
      BY <1>1, <2>1, <2>2 DEF EndExchange, LockType
    <2>3. CASE reqQueue[proc[c]] # <<>>
      <3>1. Head(reqQueue[proc[c]]) \in Clients
            /\ Tail(reqQueue[proc[c]]) \in Seq(Clients)
        BY <1>1, <2>1, <2>3
      <3> QED BY <1>1, <2>1, <2>3, <3>1 DEF EndExchange, LockType
    <2> QED BY <2>2, <2>3
  <1>4. MildUpdate
    <2>1. procs \in [Slots -> Objects] /\ NoObject \in Objects
      BY <1>0 DEF ProcType, NoObject, Objects, ProcStates
    <2>2. PICK new : /\ procs' = [procs EXCEPT ![proc[c]] = new]
                     /\ new = object \/ (proc[c] # active /\ new = NoObject)
      BY DEF EndExchange, Kept
    <2> QED BY <1>1, <2>1, <2>2 DEF MildUpdate
  <1> QED BY <1>2, <1>3, <1>4

(* A stream moves to another of its states.                                  *)
LEMMA SuspendTypes ==
  ASSUME IInv, NEW c \in Clients, Streaming(c), NEW state \in PCs,
         Suspend(c, state)
  PROVE  LockType' /\ TaskType' /\ TaskShape'
  <1>0. LockType /\ TaskType /\ TaskShape
    BY Parts
  <1> QED
    BY <1>0, TasksFacts DEF LockType, TaskType, TaskShape, Streaming, Suspend,
       lockVars

(* A step that touches no process.                                           *)
LEMMA KeepProcsIInv ==
  ASSUME IInv, UNCHANGED <<active, procVars, lockVars>>, aged' \in BOOLEAN,
         LifeType', LockShape', TaskType', TaskShape', OtherType',
         enumAt' \in Nat,
         phase' # "spawn" \/ active = NoProc,
         phase' \in {"warm", "kill", "listed", "return", "downRead", "downReap"} =>
           active # NoProc,
         phase' \in {"free", "enter", "walk", "listed", "return"} =>
           active = NoProc \/ procs[active].state \in {"READY", "FAILED"}
  PROVE  IInv'
  <1>0. ProcType /\ LockType /\ ActiveInv
    BY Parts
  <1>1. ProcType' /\ LockType'
    BY <1>0 DEF ProcType, LockType, procVars, lockVars
  <1>2. ActiveInv'
    BY <1>0 DEF ActiveInv, PhaseActive, NoForgottenChild, OnlyActiveStarted,
       Started, procVars
  <1> QED BY <1>1, <1>2, PartsNext

(* Releasing or taking the lifecycle lock outside a shutdown or a start.     *)
LEMMA SettledPhases ==
  ASSUME IInv, phase \in {"free", "enter", "walk", "listed", "return"}
  PROVE  active = NoProc \/ procs[active].state \in {"READY", "FAILED"}
  BY Parts DEF ActiveInv, PhaseActive

-----------------------------------------------------------------------------
(* A connection arrives (handle_speechd_connection).                         *)
LEMMA ConnectIInv ==
  ASSUME IInv, NEW c \in Clients, Connect(c)
  PROVE  IInv'
  <1>0. /\ LifeType /\ LockShape /\ TaskType /\ TaskShape /\ OtherType
        /\ enumAt \in Nat /\ c \in Tasks /\ ProcType
        /\ ActiveInv
    BY Parts, TasksFacts
  <1>1. LifeType' /\ LockShape' /\ phase' \in {phase, "enter"}
        /\ (phase' = phase \/ phase = "free")
    BY <1>0, AcquireType DEF Connect
  <1>2. PICK w \in Providers :
          /\ want' = [want EXCEPT ![c] = w]
          /\ job' = [job EXCEPT ![c] = IF index = {} THEN "populate" ELSE "route"]
          /\ target' = [target EXCEPT ![c] = IF index = {} THEN NoOne ELSE w]
    BY DEF Connect
  <1>3. TaskType'
    BY <1>0, <1>2 DEF TaskType, Connect, PCs, Jobs
  <1>4. TaskShape'
    BY <1>0, <1>2, TasksFacts DEF TaskType, TaskShape, Streaming, Connect
  <1>5. OtherType' /\ enumAt' \in Nat /\ aged' \in BOOLEAN
    BY <1>0 DEF OtherType, ProcType, Connect, enumVars, boundVars
  <1> QED
    BY <1>0, <1>1, <1>3, <1>4, <1>5, KeepProcsIInv DEF Connect, ActiveInv, PhaseActive

(* A control request arrives (handle_control_connection).                    *)
LEMMA ControlIInv ==
  ASSUME IInv, NEW t \in Controls, Control(t)
  PROVE  IInv'
  <1>0. /\ LifeType /\ LockShape /\ TaskType /\ TaskShape /\ OtherType
        /\ enumAt \in Nat /\ t \in Tasks /\ ProcType
        /\ ActiveInv
    BY Parts, TasksFacts
  <1>1. LifeType' /\ LockShape' /\ phase' \in {phase, "enter"}
        /\ (phase' = phase \/ phase = "free")
    BY <1>0, AcquireType DEF Control
  <1>2. PICK j \in {"reload", "list"} : job' = [job EXCEPT ![t] = j]
    BY DEF Control
  <1>3. TaskType'
    BY <1>0, <1>2 DEF TaskType, Control, PCs, Jobs
  <1>4. TaskShape'
    BY <1>0, <1>2, TasksFacts DEF TaskType, TaskShape, Streaming, Control
  <1>5. OtherType' /\ enumAt' \in Nat /\ aged' \in BOOLEAN
    BY <1>0 DEF OtherType, ProcType, Control, enumVars, boundVars
  <1> QED
    BY <1>0, <1>1, <1>3, <1>4, <1>5, KeepProcsIInv DEF Control, ActiveInv, PhaseActive

(* The idle loop asks for the lock.                                          *)
LEMMA IdleTickIInv ==
  ASSUME IInv, IdleTick
  PROVE  IInv'
  <1>0. /\ LifeType /\ LockShape /\ TaskType /\ TaskShape /\ OtherType
        /\ enumAt \in Nat /\ Idle \in Tasks /\ ProcType
        /\ ActiveInv
    BY Parts, TasksFacts
  <1>1. LifeType' /\ LockShape' /\ phase' \in {phase, "enter"}
        /\ (phase' = phase \/ phase = "free")
    BY <1>0, AcquireType DEF IdleTick
  <1>3. TaskType'
    BY <1>0 DEF TaskType, IdleTick, PCs, Jobs
  <1>4. TaskShape'
    BY <1>0, TasksFacts DEF TaskType, TaskShape, Streaming, IdleTick
  <1>5. OtherType' /\ enumAt' \in Nat /\ aged' \in BOOLEAN
    BY <1>0 DEF OtherType, ProcType, IdleTick, enumVars, boundVars
  <1> QED
    BY <1>0, <1>1, <1>3, <1>4, <1>5, KeepProcsIInv DEF IdleTick, ActiveInv, PhaseActive

-----------------------------------------------------------------------------
(* The lock's owner at work.                                                 *)
LEMMA ShutdownReadsIInv ==
  ASSUME IInv, NEW h \in Tasks, ShutdownReads(h)
  PROVE  IInv'
  <1>0. /\ ProcType /\ LockType /\ LifeType /\ TaskType /\ OtherType
        /\ enumAt \in Nat /\ LockShape /\ TaskShape /\ ActiveInv
    BY Parts
  <1>1. procs \in [Slots -> Objects] /\ active \in Slots
    BY <1>0 DEF ProcType, ActiveInv, PhaseActive, ShutdownReads, Holds
  <1>2. /\ procs' \in [Slots -> Objects]
        /\ \A p \in Slots : /\ procs'[p].name = procs[p].name
                            /\ procs'[p].state = procs[p].state
    <2>1. CASE UNCHANGED procs
      BY <1>1, <2>1
    <2>2. CASE /\ procs[active].owed > 0
               /\ procs' = [procs EXCEPT ![active].owed = @ - 1]
      BY <1>1, <2>2 DEF Objects
    <2> QED BY <2>1, <2>2 DEF ShutdownReads
  <1>3. ProcType'
    BY <1>0, <1>2, TasksFacts DEF ProcType, ShutdownReads
  <1>4. LifeType' /\ LockShape' /\ LockType' /\ OtherType' /\ (enumAt \in Nat)'
    BY <1>0 DEF LifeType, LockShape, LockType, OtherType, Phases, ShutdownReads,
       Holds, lockVars, enumVars, boundVars
  <1>5. TaskType' /\ TaskShape'
    BY <1>0 DEF TaskType, TaskShape, Streaming, ShutdownReads, taskVars
  <1>6. ActiveInv'
    BY <1>0, <1>1, <1>2 DEF ActiveInv, PhaseActive, NoForgottenChild,
       OnlyActiveStarted, Started, ShutdownReads, Holds
  <1> QED BY <1>3, <1>4, <1>5, <1>6, PartsNext

(* The child of a shutdown is waited for or killed.                          *)
LEMMA ShutdownReapsIInv ==
  ASSUME IInv, NEW h \in Tasks, ShutdownReaps(h)
  PROVE  IInv'
  <1>0. /\ ProcType /\ LockType /\ LifeType /\ TaskType /\ OtherType
        /\ enumAt \in Nat /\ LockShape /\ TaskShape /\ ActiveInv
    BY Parts
  <1>1. procs \in [Slots -> Objects] /\ active \in Slots
    BY <1>0 DEF ProcType, ActiveInv, PhaseActive, ShutdownReaps, Holds
  <1>2. PICK new : /\ procs' = [procs EXCEPT ![active] = new]
                   /\ new \in Objects /\ new.state = "STOPPED"
    <2>1. NoObject \in Objects /\ NoObject.state = "STOPPED"
      BY DEF NoObject, Objects, ProcStates
    <2>2. /\ [procs[active] EXCEPT !.state = "STOPPED"] \in Objects
          /\ [procs[active] EXCEPT !.state = "STOPPED"].state = "STOPPED"
      BY <1>1 DEF Objects, ProcStates
    <2> QED BY <2>1, <2>2 DEF ShutdownReaps, Kept
  <1>3. ProcType'
    BY <1>0, <1>1, <1>2 DEF ProcType, ShutdownReaps
  <1>4. /\ LifeType' /\ LockShape' /\ TaskType' /\ TaskShape' /\ enumAt' \in Nat
        /\ phase' \in {"spawn", "walk", "free", "enter"}
    <2>1. CASE /\ after = "spawn" /\ phase' = "spawn"
               /\ UNCHANGED <<lifeOwner, lifeQueue, enumAt, taskVars>>
      BY <1>0, <2>1 DEF LifeType, LockShape, TaskType, TaskShape, Streaming,
         Phases, taskVars, ShutdownReaps, Holds
    <2>2. CASE /\ after = "next" /\ phase' = "walk" /\ enumAt' = enumAt + 1
               /\ UNCHANGED <<lifeOwner, lifeQueue, taskVars>>
      BY <1>0, <2>2 DEF LifeType, LockShape, TaskType, TaskShape, Streaming,
         Phases, taskVars, ShutdownReaps, Holds
    <2>3. CASE after = "release" /\ Release /\ Finish(h) /\ UNCHANGED enumAt
      BY <1>0, <2>3, ReleaseType, FinishType
    <2> QED BY <2>1, <2>2, <2>3 DEF ShutdownReaps
  <1>5. LockType' /\ OtherType'
    BY <1>0 DEF LockType, OtherType, ShutdownReaps, lockVars, boundVars
  <1>6. ActiveInv'
    BY <1>0, <1>1, <1>2, <1>4, TasksFacts DEF ActiveInv, PhaseActive,
       NoForgottenChild, OnlyActiveStarted, Started, ShutdownReaps, ProcType
  <1> QED BY <1>3, <1>4, <1>5, <1>6, PartsNext

(* A child is started (_spawn_locked) when there is no active process.       *)
LEMMA ExecIInv ==
  ASSUME IInv, NEW h \in Tasks, Exec(h)
  PROVE  IInv'
  <1>0. /\ ProcType /\ LockType /\ LifeType /\ TaskType /\ OtherType
        /\ enumAt \in Nat /\ LockShape /\ TaskShape /\ ActiveInv
    BY Parts
  <1>1. active = NoProc /\ SpawnName(h) \in Providers
    BY <1>0, SupervisorAssumption DEF ActiveInv, PhaseActive, Exec, Holds
  <1>2. PICK p \in Slots :
          /\ procs' = [procs EXCEPT ![p] = [NoObject EXCEPT
                         !.name = SpawnName(h), !.state = "STARTING"]]
          /\ child' = [child EXCEPT ![p] = "running"]
          /\ reader' = [reader EXCEPT ![p] = h]
          /\ active' = p /\ aged' = FALSE
    BY DEF Exec
  <1>3. PICK new \in Objects : /\ procs' = [procs EXCEPT ![p] = new]
                              /\ new.name = SpawnName(h)
    <2> DEFINE o == [NoObject EXCEPT !.name = SpawnName(h), !.state = "STARTING"]
    <2>1. NoObject \in Objects
      BY DEF NoObject, Objects, ProcStates
    <2>2. o \in Objects /\ o.name = SpawnName(h)
      BY <1>1, <2>1 DEF Objects, ProcStates
    <2> QED BY <1>2, <2>2
  <1>4. ProcType'
    BY <1>0, <1>2, <1>3 DEF ProcType
  <1>5. LifeType' /\ LockShape' /\ LockType' /\ OtherType' /\ (enumAt \in Nat)'
    BY <1>0 DEF LifeType, LockShape, LockType, OtherType, Phases, Exec,
       Holds, lockVars, enumVars, boundVars
  <1>6. TaskType' /\ TaskShape'
    BY <1>0 DEF TaskType, TaskShape, Streaming, Exec, taskVars
  <1>7. PhaseActive'
    BY <1>0, <1>1, <1>2, <1>3, TasksFacts DEF ProcType, PhaseActive, Exec
  <1>8. NoForgottenChild'
    BY <1>0, <1>1, <1>2, TasksFacts DEF ActiveInv, ProcType, NoForgottenChild
  <1>9. OnlyActiveStarted'
    BY <1>0, <1>1, <1>2, <1>3, TasksFacts DEF ActiveInv, ProcType,
       OnlyActiveStarted, Started
  <1> QED BY <1>4, <1>5, <1>6, <1>7, <1>8, <1>9, PartsNext DEF ActiveInv

(* A spawn raises before it has a process.                                   *)
LEMMA SpawnRaisesIInv ==
  ASSUME IInv, NEW h \in Tasks, SpawnRaises(h)
  PROVE  IInv'
  <1>0. /\ ProcType /\ LifeType /\ TaskType /\ OtherType
        /\ enumAt \in Nat /\ LockShape /\ TaskShape /\ ActiveInv
    BY Parts
  <1>1. /\ LifeType' /\ LockShape' /\ TaskType' /\ TaskShape'
        /\ enumAt' \in Nat /\ phase' \in {"free", "enter", "walk"}
    BY <1>0, RaiseType DEF SpawnRaises, Holds
  <1>2. active = NoProc
    BY <1>0 DEF ActiveInv, PhaseActive, SpawnRaises, Holds
  <1>3. OtherType' /\ aged' \in BOOLEAN
    BY <1>0, SupervisorAssumption DEF OtherType, ProcType, SpawnRaises
  <1> QED BY <1>1, <1>2, <1>3, KeepProcsIInv DEF SpawnRaises

(* The process becomes READY.                                                *)
LEMMA WarmupSucceedsIInv ==
  ASSUME IInv, NEW h \in Tasks, WarmupSucceeds(h)
  PROVE  IInv'
  <1>0. /\ ProcType /\ LockType /\ LifeType /\ TaskType /\ OtherType
        /\ enumAt \in Nat /\ LockShape /\ TaskShape /\ ActiveInv
    BY Parts
  <1>1. procs \in [Slots -> Objects] /\ active \in Slots
    BY <1>0 DEF ProcType, ActiveInv, PhaseActive, WarmupSucceeds, Holds
  <1>2. /\ procs' \in [Slots -> Objects]
        /\ procs'[active].state = "READY"
        /\ procs'[active].name = procs[active].name
        /\ \A p \in Slots : p # active => procs'[p] = procs[p]
    BY <1>1 DEF WarmupSucceeds, Objects, ProcStates
  <1>3. ProcType'
    BY <1>0, <1>1, <1>2, TasksFacts DEF ProcType, WarmupSucceeds
  <1>4. LifeType' /\ LockShape' /\ LockType' /\ (enumAt \in Nat)'
    BY <1>0 DEF LifeType, LockShape, LockType, Phases, WarmupSucceeds, Holds,
       lockVars, enumVars
  <1>5. OtherType'
    BY <1>0, <1>1, SupervisorAssumption DEF OtherType, WarmupSucceeds, enumVars,
       boundVars, ActiveInv, PhaseActive, ProcType, Objects
  <1>6. TaskType' /\ TaskShape'
    BY <1>0 DEF TaskType, TaskShape, Streaming, WarmupSucceeds, taskVars
  <1>7. ActiveInv'
    BY <1>0, <1>1, <1>2 DEF ActiveInv, PhaseActive, NoForgottenChild,
       OnlyActiveStarted, Started, WarmupSucceeds, Holds
  <1> QED BY <1>3, <1>4, <1>5, <1>6, <1>7, PartsNext

(* The process becomes FAILED and is about to be killed.                     *)
LEMMA WarmupFailsIInv ==
  ASSUME IInv, NEW h \in Tasks, WarmupFails(h)
  PROVE  IInv'
  <1>0. /\ ProcType /\ LockType /\ LifeType /\ TaskType /\ OtherType
        /\ enumAt \in Nat /\ LockShape /\ TaskShape /\ ActiveInv
    BY Parts
  <1>1. procs \in [Slots -> Objects] /\ active \in Slots
    BY <1>0 DEF ProcType, ActiveInv, PhaseActive, WarmupFails, Holds
  <1>2. /\ procs' \in [Slots -> Objects]
        /\ procs'[active].state = "FAILED"
        /\ procs'[active].name = procs[active].name
        /\ \A p \in Slots : p # active => procs'[p] = procs[p]
    BY <1>1 DEF WarmupFails, Objects, ProcStates
  <1>3. ProcType'
    BY <1>0, <1>1, <1>2, TasksFacts DEF ProcType, WarmupFails
  <1>4. LifeType' /\ LockShape' /\ LockType' /\ (enumAt \in Nat)'
    BY <1>0 DEF LifeType, LockShape, LockType, Phases, WarmupFails, Holds,
       lockVars, enumVars
  <1>5. OtherType'
    BY <1>0, <1>1, SupervisorAssumption DEF OtherType, WarmupFails, enumVars,
       boundVars, ActiveInv, PhaseActive, ProcType, Objects
  <1>6. TaskType' /\ TaskShape'
    BY <1>0 DEF TaskType, TaskShape, Streaming, WarmupFails, taskVars
  <1>7. ActiveInv'
    BY <1>0, <1>1, <1>2 DEF ActiveInv, PhaseActive, NoForgottenChild,
       OnlyActiveStarted, Started, WarmupFails, Holds
  <1> QED BY <1>3, <1>4, <1>5, <1>6, <1>7, PartsNext

(* The child of a failed warmup is dead before _active is cleared.           *)
LEMMA KillIInv ==
  ASSUME IInv, NEW h \in Tasks, Kill(h)
  PROVE  IInv'
  <1>0. /\ ProcType /\ LockType /\ LifeType /\ TaskType /\ OtherType
        /\ enumAt \in Nat /\ LockShape /\ TaskShape /\ ActiveInv
    BY Parts
  <1>1. procs \in [Slots -> Objects] /\ active \in Slots
    BY <1>0 DEF ProcType, ActiveInv, PhaseActive, Kill, Holds
  <1>2. NoObject \in Objects /\ NoObject.state = "STOPPED"
    BY DEF NoObject, Objects, ProcStates
  <1>3. ProcType'
    BY <1>0, <1>1, <1>2 DEF ProcType, Kill
  <1>4. /\ LifeType' /\ LockShape' /\ TaskType' /\ TaskShape'
        /\ enumAt' \in Nat /\ phase' \in {"free", "enter", "walk"}
    BY <1>0, RaiseType DEF Kill, Holds
  <1>5. LockType' /\ OtherType'
    BY <1>0 DEF LockType, OtherType, Kill, lockVars, boundVars
  <1>6. ActiveInv'
    BY <1>0, <1>1, <1>2, <1>4, TasksFacts DEF ActiveInv, PhaseActive,
       NoForgottenChild, OnlyActiveStarted, Started, Kill, ProcType
  <1> QED BY <1>3, <1>4, <1>5, <1>6, PartsNext

(* ensure_ready under the lock: return, reap or spawn.                       *)
LEMMA EnsureEntersIInv ==
  ASSUME IInv, NEW h \in Tasks, EnsureEnters(h)
  PROVE  IInv'
  <1>0. /\ ProcType /\ LifeType /\ TaskType /\ OtherType
        /\ enumAt \in Nat /\ LockShape /\ TaskShape /\ ActiveInv
    BY Parts
  <1>1. Holds(h, "enter")
    BY DEF EnsureEnters
  <1>2. CASE active # NoProc /\ BeginShutdown(h, "spawn")
    BY <1>1, <1>2, BeginShutdownIInv DEF Holds
  <1>3. CASE /\ \/ ActiveReady(target[h]) /\ phase' = "return"
                \/ active = NoProc /\ phase' = "spawn"
             /\ UNCHANGED <<active, procVars, lockVars, aged, lifeOwner,
                            lifeQueue, after, enumVars, taskVars, boundVars>>
    <2>1. LifeType' /\ LockShape' /\ OtherType' /\ enumAt' \in Nat /\ aged' \in BOOLEAN
      BY <1>0, <1>1, <1>3 DEF LifeType, LockShape, OtherType, ProcType, Phases,
         Holds, enumVars, boundVars
    <2>2. TaskType' /\ TaskShape'
      BY <1>0, <1>3 DEF TaskType, TaskShape, Streaming, taskVars
    <2> QED BY <1>1, <1>3, <2>1, <2>2, SettledPhases, KeepProcsIInv DEF ActiveReady, Holds
  <1> QED BY <1>2, <1>3 DEF EnsureEnters

(* ensure_ready's second call, by synthesize.                                *)
LEMMA RouteReturnsIInv ==
  ASSUME IInv, NEW h \in Tasks, RouteReturns(h)
  PROVE  IInv'
  <1>0. /\ ProcType /\ LifeType /\ TaskType /\ OtherType
        /\ enumAt \in Nat /\ LockShape /\ TaskShape /\ ActiveInv
    BY Parts
  <1>1. active \in Slots /\ procs[active].name \in Providers
    BY <1>0 DEF ProcType, ActiveInv, PhaseActive, RouteReturns, Holds
  <1>2. LifeType' /\ LockShape' /\ phase' = "enter"
    BY <1>0, ReleaseAndAcquireType DEF RouteReturns
  <1>3. TaskType'
    BY <1>0, <1>1 DEF TaskType, RouteReturns, Jobs
  <1>4. TaskShape'
    BY <1>0 DEF TaskType, TaskShape, Streaming, RouteReturns
  <1>5. OtherType' /\ enumAt' \in Nat /\ aged' \in BOOLEAN
    BY <1>0 DEF OtherType, ProcType, RouteReturns, enumVars, boundVars
  <1> QED
    BY <1>2, <1>3, <1>4, <1>5, SettledPhases, KeepProcsIInv DEF RouteReturns, Holds

(* The handler refuses a voice its provider does not have.                   *)
LEMMA VoiceGoneIInv ==
  ASSUME IInv, NEW h \in Tasks, VoiceGone(h)
  PROVE  IInv'
  <1>0. /\ ProcType /\ LifeType /\ TaskType /\ OtherType
        /\ enumAt \in Nat /\ LockShape /\ TaskShape /\ ActiveInv
    BY Parts
  <1>1. LifeType' /\ LockShape' /\ phase' \in {"free", "enter"}
    BY <1>0, ReleaseType DEF VoiceGone
  <1>2. TaskType' /\ TaskShape'
    BY <1>0, FinishType DEF VoiceGone
  <1>3. OtherType' /\ enumAt' \in Nat /\ aged' \in BOOLEAN
    BY <1>0 DEF OtherType, ProcType, VoiceGone, enumVars, boundVars
  <1> QED
    BY <1>1, <1>2, <1>3, SettledPhases, KeepProcsIInv DEF VoiceGone, Holds

(* synthesize asks for the request lock of its process.                      *)
LEMMA SynthReturnsIInv ==
  ASSUME IInv, NEW h \in Tasks, SynthReturns(h)
  PROVE  IInv'
  <1>0. /\ ProcType /\ LockType /\ LifeType /\ TaskType /\ OtherType
        /\ enumAt \in Nat /\ LockShape /\ TaskShape /\ ActiveInv
    BY Parts
  <1>1. active \in Slots /\ h \in Clients
    BY <1>0 DEF ProcType, ActiveInv, PhaseActive, TaskShape, SynthReturns, Holds
  <1>2. LifeType' /\ LockShape' /\ phase' \in {"free", "enter"}
    BY <1>0, ReleaseType DEF SynthReturns
  <1>3. TaskType'
    BY <1>0, <1>1 DEF TaskType, SynthReturns, PCs, Jobs
  <1>4. TaskShape'
    BY <1>0, <1>1, TasksFacts DEF TaskType, TaskShape, Streaming, SynthReturns
  <1>5. OtherType' /\ (enumAt \in Nat)' /\ ProcType'
    BY <1>0 DEF OtherType, ProcType, SynthReturns, enumVars, boundVars, procVars
  <1>6. LockType'
    <2>1. reqOwner \in [Slots -> Clients \cup {NoOne}]
          /\ reqQueue \in [Slots -> Seq(Clients)]
      BY <1>0 DEF LockType
    <2>2. Append(reqQueue[active], h) \in Seq(Clients)
      BY <1>1, <2>1
    <2> QED BY <1>1, <2>1, <2>2 DEF SynthReturns, LockType
  <1>7. ActiveInv'
    BY <1>0, <1>2, SettledPhases DEF ActiveInv, PhaseActive, NoForgottenChild,
       OnlyActiveStarted, Started, SynthReturns, Holds, procVars
  <1> QED BY <1>2, <1>3, <1>4, <1>5, <1>6, <1>7, PartsNext

(* An enumeration begins its walk.                                           *)
LEMMA EnumerateEntersIInv ==
  ASSUME IInv, NEW h \in Tasks, EnumerateEnters(h)
  PROVE  IInv'
  <1>0. /\ ProcType /\ LifeType /\ TaskType /\ OtherType
        /\ enumAt \in Nat /\ LockShape /\ TaskShape
    BY Parts
  <1>1. LifeType' /\ LockShape' /\ OtherType' /\ enumAt' \in Nat /\ aged' \in BOOLEAN
    BY <1>0 DEF LifeType, LockShape, OtherType, ProcType, Phases,
       EnumerateEnters, Holds, boundVars
  <1>2. TaskType' /\ TaskShape'
    BY <1>0 DEF TaskType, TaskShape, Streaming, taskVars, EnumerateEnters
  <1> QED
    BY <1>1, <1>2, SettledPhases, KeepProcsIInv DEF EnumerateEnters, Holds

(* The walk's next provider: skip, reuse, reap or spawn.                     *)
LEMMA EnumerateVisitsIInv ==
  ASSUME IInv, NEW h \in Tasks, EnumerateVisits(h)
  PROVE  IInv'
  <1> DEFINE name == Registry[enumAt]
  <1>0. /\ ProcType /\ LifeType /\ TaskType /\ OtherType
        /\ enumAt \in Nat /\ LockShape /\ TaskShape
    BY Parts
  <1>1. Holds(h, "walk")
    BY DEF EnumerateVisits
  <1>2. CASE active # NoProc /\ BeginShutdown(h, "spawn")
    BY <1>1, <1>2, BeginShutdownIInv DEF Holds
  <1>3. CASE /\ \/ enumAt' = enumAt + 1 /\ UNCHANGED enumFound
                \/ /\ enumAt' = enumAt + 1 /\ name \in Installed
                   /\ enumFound' = enumFound \cup {name}
             /\ UNCHANGED <<active, procVars, lockVars, aged, lifeVars, index,
                            taskVars, boundVars>>
    <2>1. LifeType' /\ LockShape' /\ OtherType' /\ enumAt' \in Nat /\ aged' \in BOOLEAN
      BY <1>0, <1>1, <1>3, SupervisorAssumption DEF LifeType, LockShape,
         OtherType, ProcType, Phases, Holds, lifeVars, boundVars
    <2>2. TaskType' /\ TaskShape'
      BY <1>0, <1>3 DEF TaskType, TaskShape, Streaming, taskVars
    <2> QED
      BY <1>1, <1>3, <2>1, <2>2, SettledPhases, KeepProcsIInv DEF Holds, lifeVars
  <1>4. CASE /\ active = NoProc /\ phase' = "spawn"
             /\ UNCHANGED <<active, procVars, lockVars, aged, lifeOwner,
                            lifeQueue, after, enumVars, taskVars, boundVars>>
    <2>1. LifeType' /\ LockShape' /\ OtherType' /\ enumAt' \in Nat /\ aged' \in BOOLEAN
      BY <1>0, <1>1, <1>4 DEF LifeType, LockShape, OtherType, ProcType, Phases,
         Holds, enumVars, boundVars
    <2>2. TaskType' /\ TaskShape'
      BY <1>0, <1>4 DEF TaskType, TaskShape, Streaming, taskVars
    <2> QED BY <1>4, <2>1, <2>2, KeepProcsIInv
  <1> QED BY <1>2, <1>3, <1>4 DEF EnumerateVisits

(* An enumeration is over and its caller goes on.                            *)
LEMMA EnumerateReturnsIInv ==
  ASSUME IInv, NEW h \in Tasks, EnumerateReturns(h)
  PROVE  IInv'
  <1>0. /\ ProcType /\ LifeType /\ TaskType /\ OtherType
        /\ enumAt \in Nat /\ LockShape /\ TaskShape
    BY Parts
  <1>1. OtherType' /\ enumAt' \in Nat /\ aged' \in BOOLEAN
    BY <1>0 DEF OtherType, ProcType, EnumerateReturns, boundVars
  <1>2. /\ LifeType' /\ LockShape' /\ TaskType' /\ TaskShape'
        /\ phase' \in {"free", "enter"}
    <2>1. CASE /\ job[h] = "populate" /\ want[h] \in enumFound
               /\ job' = [job EXCEPT ![h] = "route"]
               /\ target' = [target EXCEPT ![h] = want[h]]
               /\ ReleaseAndAcquire(h) /\ UNCHANGED <<pc, want, proc>>
      <3>1. TaskType' /\ TaskShape'
        BY <1>0, <2>1 DEF TaskType, TaskShape, Streaming, Jobs
      <3> QED BY <1>0, <2>1, <3>1, ReleaseAndAcquireType
    <2>2. CASE /\ job[h] = "reload" /\ enumFound = {}
               /\ job' = [job EXCEPT ![h] = "list"]
               /\ ReleaseAndAcquire(h) /\ UNCHANGED <<pc, want, target, proc>>
      <3>1. TaskType' /\ TaskShape'
        BY <1>0, <2>2 DEF TaskType, TaskShape, Streaming, Jobs
      <3> QED BY <1>0, <2>2, <3>1, ReleaseAndAcquireType
    <2>3. CASE Release /\ Finish(h)
      BY <1>0, <2>3, ReleaseType, FinishType
    <2> QED BY <2>1, <2>2, <2>3 DEF EnumerateReturns
  <1> QED
    BY <1>1, <1>2, SettledPhases, KeepProcsIInv DEF EnumerateReturns, Holds

(* The idle loop has the lock and evicts, or not.                            *)
LEMMA IdleEntersIInv ==
  ASSUME IInv, NEW h \in Tasks, IdleEnters(h)
  PROVE  IInv'
  <1>0. /\ ProcType /\ LifeType /\ TaskType /\ OtherType
        /\ enumAt \in Nat /\ LockShape /\ TaskShape
    BY Parts
  <1>1. Holds(h, "enter")
    BY DEF IdleEnters
  <1>2. CASE active # NoProc /\ BeginShutdown(h, "release")
    BY <1>1, <1>2, BeginShutdownIInv DEF Holds
  <1>3. CASE /\ Release /\ Finish(h)
             /\ UNCHANGED <<active, procVars, lockVars, aged, after, enumVars,
                            boundVars>>
    <2>1. LifeType' /\ LockShape' /\ phase' \in {"free", "enter"}
      BY <1>0, <1>3, ReleaseType
    <2>2. TaskType' /\ TaskShape'
      BY <1>0, <1>3, FinishType
    <2>3. OtherType' /\ enumAt' \in Nat /\ aged' \in BOOLEAN
      BY <1>0, <1>3 DEF OtherType, ProcType, enumVars, boundVars
    <2> QED
      BY <1>1, <1>3, <2>1, <2>2, <2>3, SettledPhases, KeepProcsIInv DEF Holds
  <1> QED BY <1>2, <1>3 DEF IdleEnters

(* Every step of the lifecycle lock's owner.                                 *)
LEMMA HolderStepIInv ==
  ASSUME IInv, NEW h \in Tasks, HolderStep(h)
  PROVE  IInv'
  <1>1. CASE EnumerateListed(h)
    <2>1. active # NoProc
      BY <1>1, Parts DEF ActiveInv, PhaseActive, EnumerateListed, Holds
    <2> QED BY <1>1, <2>1, BeginShutdownIInv DEF EnumerateListed, Holds
  <1>2. CASE \/ ShutdownReads(h) \/ ShutdownReaps(h) \/ Exec(h) \/ SpawnRaises(h)
             \/ WarmupSucceeds(h) \/ WarmupFails(h) \/ Kill(h)
    BY <1>2, ShutdownReadsIInv, ShutdownReapsIInv, ExecIInv, SpawnRaisesIInv,
       WarmupSucceedsIInv, WarmupFailsIInv, KillIInv
  <1>3. CASE \/ EnsureEnters(h) \/ RouteReturns(h) \/ SynthReturns(h)
             \/ VoiceGone(h)
    BY <1>3, EnsureEntersIInv, RouteReturnsIInv, SynthReturnsIInv, VoiceGoneIInv
  <1>4. CASE \/ EnumerateEnters(h) \/ EnumerateVisits(h) \/ EnumerateReturns(h)
             \/ IdleEnters(h)
    BY <1>4, EnumerateEntersIInv, EnumerateVisitsIInv, EnumerateReturnsIInv,
       IdleEntersIInv
  <1> QED BY <1>1, <1>2, <1>3, <1>4 DEF HolderStep

-----------------------------------------------------------------------------
(* The streams, the children and the clock.                                  *)
LEMMA StreamFacts ==
  ASSUME IInv, NEW c \in Clients,
         pc[c] \in {"request", "draining", "reading", "yielded"}
  PROVE  /\ Streaming(c) /\ proc[c] \in Slots /\ c \in Tasks
         /\ procs \in [Slots -> Objects] /\ procs[proc[c]] \in Objects
         /\ reader \in [Slots -> Tasks \cup {NoOne}] /\ aged \in BOOLEAN
  <1>1. ProcType /\ TaskShape
    BY Parts
  <1>2. Streaming(c) /\ proc[c] \in Slots
    BY <1>1 DEF TaskShape, Streaming
  <1> QED BY <1>1, <1>2, TasksFacts DEF ProcType

(* Writing a request changes neither name nor state.                         *)
LEMMA RequestedFacts ==
  ASSUME NEW p \in Slots, NEW object \in Objects
  PROVE  /\ Requested(p, object) \in Objects
         /\ Requested(p, object).name = object.name
         /\ Requested(p, object).state = object.state
  <1>1. CASE child[p] = "running"
    <2> DEFINE new == [object EXCEPT !.dirty = TRUE, !.owed = @ + 1]
    <2>1. Requested(p, object) = new
      BY <1>1 DEF Requested
    <2>0. object.owed + 1 \in Nat
      BY DEF Objects
    <2>2. new \in Objects /\ new.name = object.name /\ new.state = object.state
      BY <2>0 DEF Objects
    <2> HIDE DEF new
    <2> QED BY <2>1, <2>2
  <1>2. CASE child[p] # "running"
    <2> DEFINE new == [object EXCEPT !.dirty = TRUE, !.owed = @]
    <2>1. Requested(p, object) = new
      BY <1>2 DEF Requested
    <2>2. new \in Objects /\ new.name = object.name /\ new.state = object.state
      BY DEF Objects
    <2> HIDE DEF new
    <2> QED BY <2>1, <2>2
  <1> QED BY <1>1, <1>2

(* Overwriting one process object, its name kept and its state kept or       *)
(* FAILED, is a mild update.                                                 *)
LEMMA OverwriteMild ==
  ASSUME procs \in [Slots -> Objects], NEW p \in Slots, NEW object \in Objects,
         object.name = procs[p].name,
         object.state \in {procs[p].state, "FAILED"},
         procs' = [procs EXCEPT ![p] = object], active' = active
  PROVE  MildUpdate
  BY DEF MildUpdate

(* The request lock's owner drains, sends, or fails to read.                 *)
LEMMA BeginExchangeIInv ==
  ASSUME IInv, NEW c \in Clients, BeginExchange(c)
  PROVE  IInv'
  <1> DEFINE p == proc[c]
             o == procs[p]
  <1>0. /\ Streaming(c) /\ p \in Slots /\ c \in Tasks /\ o \in Objects
        /\ procs \in [Slots -> Objects]
        /\ reader \in [Slots -> Tasks \cup {NoOne}] /\ aged \in BOOLEAN
    BY StreamFacts DEF BeginExchange
  <1>1. /\ UNCHANGED <<active, child, aged, lifeVars, enumVars, boundVars>>
    BY DEF BeginExchange
  <1>2. CASE /\ procs' = [procs EXCEPT ![p] = Requested(p, o)]
             /\ reader' = [reader EXCEPT ![p] = c] /\ Suspend(c, "reading")
    <2>1. MildUpdate
      BY <1>0, <1>1, <1>2, RequestedFacts, OverwriteMild
    <2>2. LockType' /\ TaskType' /\ TaskShape'
      BY <1>0, <1>2, SuspendTypes DEF PCs
    <2>3. reader' \in [Slots -> Tasks \cup {NoOne}] /\ aged' \in BOOLEAN
      BY <1>0, <1>1, <1>2
    <2> QED BY <1>1, <2>1, <2>2, <2>3, MildUpdateIInv
  <1>3. CASE /\ reader' = [reader EXCEPT ![p] = c] /\ Suspend(c, "draining")
             /\ UNCHANGED procs
    <2>1. MildUpdate
      BY <1>0, <1>1, <1>3 DEF MildUpdate
    <2>2. LockType' /\ TaskType' /\ TaskShape'
      BY <1>0, <1>3, SuspendTypes DEF PCs
    <2>3. reader' \in [Slots -> Tasks \cup {NoOne}] /\ aged' \in BOOLEAN
      BY <1>0, <1>1, <1>3
    <2> QED BY <1>1, <2>1, <2>2, <2>3, MildUpdateIInv
  <1>4. CASE /\ EndExchange(c, IF o.dirty THEN [o EXCEPT !.dirty = FALSE]
                                          ELSE Requested(p, o))
             /\ UNCHANGED reader
    <2> DEFINE object == IF o.dirty THEN [o EXCEPT !.dirty = FALSE]
                                    ELSE Requested(p, o)
    <2>1. object \in Objects /\ object.name = o.name /\ object.state = o.state
      <3>1. /\ [o EXCEPT !.dirty = FALSE] \in Objects
            /\ [o EXCEPT !.dirty = FALSE].name = o.name
            /\ [o EXCEPT !.dirty = FALSE].state = o.state
        BY <1>0 DEF Objects
      <3> QED BY <1>0, <3>1, RequestedFacts
    <2>2. active' = active /\ EndExchange(c, object)
      BY <1>1, <1>4
    <2>3. MildUpdate /\ LockType' /\ TaskType' /\ TaskShape'
      <3> HIDE DEF object
      <3> QED BY <1>0, <2>1, <2>2, EndExchangeMild
    <2>4. reader' \in [Slots -> Tasks \cup {NoOne}] /\ aged' \in BOOLEAN
      BY <1>0, <1>1, <1>4
    <2> QED BY <1>1, <2>3, <2>4, MildUpdateIInv
  <1> QED BY <1>2, <1>3, <1>4 DEF BeginExchange

(* A drain ends, with or without an audio_end.                               *)
LEMMA DrainIInv ==
  ASSUME IInv, NEW c \in Clients, Drain(c)
  PROVE  IInv'
  <1> DEFINE p == proc[c]
             o == procs[p]
  <1>0. /\ Streaming(c) /\ p \in Slots /\ o \in Objects
        /\ procs \in [Slots -> Objects]
        /\ reader \in [Slots -> Tasks \cup {NoOne}] /\ aged \in BOOLEAN
    BY StreamFacts DEF Drain
  <1>1. UNCHANGED <<active, child, reader, aged, lifeVars, enumVars, boundVars>>
    BY DEF Drain
  <1>2. PICK object : /\ object \in Objects /\ object.name = o.name
                      /\ object.state \in {o.state, "FAILED"}
                      /\ procs' = [procs EXCEPT ![p] = Requested(p, object)]
    <2>1. CASE /\ o.owed > 0
               /\ procs' = [procs EXCEPT ![p] =
                              Requested(p, [o EXCEPT !.owed = @ - 1])]
      <3>1. /\ [o EXCEPT !.owed = @ - 1] \in Objects
            /\ [o EXCEPT !.owed = @ - 1].name = o.name
            /\ [o EXCEPT !.owed = @ - 1].state = o.state
        BY <1>0, <2>1 DEF Objects
      <3> QED BY <2>1, <3>1
    <2>2. CASE procs' = [procs EXCEPT ![p] =
                          Requested(p, [o EXCEPT !.state = "FAILED"])]
      <3>1. /\ [o EXCEPT !.state = "FAILED"] \in Objects
            /\ [o EXCEPT !.state = "FAILED"].name = o.name
            /\ [o EXCEPT !.state = "FAILED"].state = "FAILED"
        BY <1>0 DEF Objects, ProcStates
      <3> QED BY <2>2, <3>1
    <2> QED BY <2>1, <2>2 DEF Drain
  <1>3. MildUpdate
    BY <1>0, <1>1, <1>2, RequestedFacts, OverwriteMild
  <1>4. LockType' /\ TaskType' /\ TaskShape'
    BY <1>0, SuspendTypes DEF Drain, PCs
  <1> QED BY <1>0, <1>1, <1>3, <1>4, MildUpdateIInv

(* A chunk is yielded.                                                       *)
LEMMA ChunkIInv ==
  ASSUME IInv, NEW c \in Clients, Chunk(c)
  PROVE  IInv'
  <1>0. /\ Streaming(c) /\ proc[c] \in Slots /\ procs \in [Slots -> Objects]
        /\ reader \in [Slots -> Tasks \cup {NoOne}]
    BY StreamFacts DEF Chunk
  <1>1. LockType' /\ TaskType' /\ TaskShape'
    BY <1>0, SuspendTypes DEF Chunk, PCs
  <1>2. MildUpdate /\ reader' \in [Slots -> Tasks \cup {NoOne}] /\ aged' \in BOOLEAN
    BY <1>0 DEF Chunk, MildUpdate
  <1> QED BY <1>1, <1>2, MildUpdateIInv DEF Chunk

(* The last frame of a stream is read.                                       *)
LEMMA StreamEndsIInv ==
  ASSUME IInv, NEW c \in Clients, StreamEnds(c)
  PROVE  IInv'
  <1> DEFINE o == procs[proc[c]]
  <1>0. /\ Streaming(c) /\ proc[c] \in Slots /\ o \in Objects
        /\ reader \in [Slots -> Tasks \cup {NoOne}] /\ aged \in BOOLEAN
    BY StreamFacts DEF StreamEnds
  <1>1. PICK object \in Objects : /\ object.name = o.name /\ object.state = o.state
                                 /\ EndExchange(c, object)
    <2>1. PICK e \in BOOLEAN :
            EndExchange(c, [o EXCEPT !.owed = @ - 1, !.dirty = e])
      BY DEF StreamEnds
    <2>2. /\ [o EXCEPT !.owed = @ - 1, !.dirty = e] \in Objects
          /\ [o EXCEPT !.owed = @ - 1, !.dirty = e].name = o.name
          /\ [o EXCEPT !.owed = @ - 1, !.dirty = e].state = o.state
      <3>1. o.owed - 1 \in Nat
        BY <1>0 DEF StreamEnds, Objects
      <3>2. CASE e = TRUE
        BY <1>0, <3>1, <3>2 DEF Objects
      <3>3. CASE e = FALSE
        BY <1>0, <3>1, <3>3 DEF Objects
      <3> QED BY <3>2, <3>3
    <2> QED BY <2>1, <2>2
  <1>2. MildUpdate /\ LockType' /\ TaskType' /\ TaskShape'
    BY <1>0, <1>1, EndExchangeMild DEF StreamEnds
  <1>3. reader' \in [Slots -> Tasks \cup {NoOne}] /\ aged' \in BOOLEAN
    BY <1>0 DEF StreamEnds
  <1> QED BY <1>2, <1>3, MildUpdateIInv DEF StreamEnds

(* A read meets the end of a dead child's stream.                            *)
LEMMA EofIInv ==
  ASSUME IInv, NEW c \in Clients, Eof(c)
  PROVE  IInv'
  <1>0. /\ Streaming(c) /\ proc[c] \in Slots /\ procs[proc[c]] \in Objects
        /\ reader \in [Slots -> Tasks \cup {NoOne}] /\ aged \in BOOLEAN
    BY StreamFacts DEF Eof
  <1>1. MildUpdate /\ LockType' /\ TaskType' /\ TaskShape'
    BY <1>0, EndExchangeMild DEF Eof
  <1>2. reader' \in [Slots -> Tasks \cup {NoOne}] /\ aged' \in BOOLEAN
    BY <1>0 DEF Eof
  <1> QED BY <1>1, <1>2, MildUpdateIInv DEF Eof

(* The consumer goes on, or goes away.                                       *)
LEMMA ResumeIInv ==
  ASSUME IInv, NEW c \in Clients, Resume(c)
  PROVE  IInv'
  <1>0. /\ Streaming(c) /\ proc[c] \in Slots /\ procs[proc[c]] \in Objects
        /\ procs \in [Slots -> Objects] /\ c \in Tasks
        /\ reader \in [Slots -> Tasks \cup {NoOne}] /\ aged \in BOOLEAN
    BY StreamFacts DEF Resume
  <1>1. CASE /\ reader' = [reader EXCEPT ![proc[c]] = c] /\ Suspend(c, "reading")
             /\ UNCHANGED procs
    <2>1. LockType' /\ TaskType' /\ TaskShape'
      BY <1>0, <1>1, SuspendTypes DEF PCs
    <2>2. MildUpdate /\ reader' \in [Slots -> Tasks \cup {NoOne}] /\ aged' \in BOOLEAN
      BY <1>0, <1>1 DEF Resume, MildUpdate
    <2> QED BY <2>1, <2>2, MildUpdateIInv DEF Resume
  <1>2. CASE EndExchange(c, procs[proc[c]]) /\ UNCHANGED reader
    <2>1. MildUpdate /\ LockType' /\ TaskType' /\ TaskShape'
      BY <1>0, <1>2, EndExchangeMild DEF Resume
    <2>2. reader' \in [Slots -> Tasks \cup {NoOne}] /\ aged' \in BOOLEAN
      BY <1>0, <1>2 DEF Resume
    <2> QED BY <2>1, <2>2, MildUpdateIInv DEF Resume
  <1> QED BY <1>1, <1>2 DEF Resume

(* A child dies, by itself or because it was told to.                        *)
LEMMA ChildDiesIInv ==
  ASSUME IInv, NEW p \in Slots, child' = [child EXCEPT ![p] = "dead"],
         UNCHANGED <<active, procs, reader, lockVars, aged, lifeVars, enumVars,
                     taskVars, startFailures>>,
         crashes' \in 0..MaxCrashes
  PROVE  IInv'
  <1>0. /\ ProcType /\ LockType /\ LifeType /\ TaskType /\ OtherType
        /\ enumAt \in Nat /\ LockShape /\ TaskShape /\ ActiveInv
    BY Parts
  <1>1. ProcType' /\ LockType' /\ OtherType'
    BY <1>0 DEF ProcType, LockType, OtherType, lockVars, lifeVars, enumVars
  <1>2. LifeType' /\ LockShape' /\ TaskType' /\ TaskShape' /\ (enumAt \in Nat)'
    BY <1>0 DEF LifeType, LockShape, TaskType, TaskShape, Streaming, lifeVars,
       enumVars, taskVars
  <1>3. ActiveInv'
    BY <1>0 DEF ProcType, ActiveInv, PhaseActive, NoForgottenChild,
       OnlyActiveStarted, Started, lifeVars
  <1> QED BY <1>1, <1>2, <1>3, PartsNext

(* The idle time passes.                                                     *)
LEMMA AgeIInv ==
  ASSUME IInv, Age
  PROVE  IInv'
  <1>0. LifeType /\ LockShape /\ TaskType /\ TaskShape /\ OtherType
        /\ enumAt \in Nat /\ ActiveInv
    BY Parts
  <1>1. LifeType' /\ LockShape' /\ OtherType' /\ enumAt' \in Nat /\ aged' \in BOOLEAN
    BY <1>0 DEF LifeType, LockShape, OtherType, Age, lifeVars, enumVars, boundVars
  <1>2. TaskType' /\ TaskShape'
    BY <1>0 DEF TaskType, TaskShape, Streaming, taskVars, Age
  <1> QED
    BY <1>0, <1>1, <1>2, KeepProcsIInv DEF Age, lifeVars, ActiveInv, PhaseActive

(* Nothing happens.                                                          *)
LEMMA StutterIInv ==
  ASSUME IInv, UNCHANGED vars
  PROVE  IInv'
  <1>0. LifeType /\ LockShape /\ TaskType /\ TaskShape /\ OtherType /\ ProcType
        /\ enumAt \in Nat /\ ActiveInv
    BY Parts
  <1>1. LifeType' /\ LockShape' /\ OtherType' /\ enumAt' \in Nat /\ aged' \in BOOLEAN
    BY <1>0 DEF LifeType, LockShape, OtherType, ProcType, vars, lifeVars,
       enumVars, boundVars
  <1>2. TaskType' /\ TaskShape'
    BY <1>0 DEF TaskType, TaskShape, Streaming, taskVars, vars
  <1> QED
    BY <1>0, <1>1, <1>2, KeepProcsIInv DEF vars, lifeVars, ActiveInv, PhaseActive

(* The invariant is inductive: one case for each action.                     *)
LEMMA NextIInv == IInv /\ [Next]_vars => IInv'
  <1> SUFFICES ASSUME IInv, [Next]_vars PROVE IInv'
    OBVIOUS
  <1>1. CASE \/ \E c \in Clients : Connect(c)
             \/ \E t \in Controls : Control(t)
             \/ IdleTick
    BY <1>1, ConnectIInv, ControlIInv, IdleTickIInv
  <1>2. CASE \E h \in Tasks : HolderStep(h)
    BY <1>2, HolderStepIInv
  <1>3. CASE \E c \in Clients : StreamStep(c)
    BY <1>3, BeginExchangeIInv, DrainIInv, ChunkIInv, StreamEndsIInv, EofIInv,
       ResumeIInv DEF StreamStep
  <1>4. ASSUME NEW p \in Slots, Exit(p) \/ Crash(p) PROVE IInv'
    <2>1. crashes \in 0..MaxCrashes
      BY Parts DEF OtherType
    <2>2. crashes' \in 0..MaxCrashes
      BY <1>4, <2>1, SupervisorAssumption DEF Exit, Crash, boundVars
    <2> QED BY <1>4, <2>2, ChildDiesIInv DEF Exit, Crash, boundVars
  <1>5. CASE Age
    BY <1>5, AgeIInv
  <1>6. CASE UNCHANGED vars
    BY <1>6, StutterIInv
  <1> QED BY <1>1, <1>2, <1>3, <1>4, <1>5, <1>6 DEF Next

(* The invariant that carries the safety of the life cycle: types, what each *)
(* phase of the lifecycle lock's owner knows of the active process, that     *)
(* only the active child runs untold, and that only it is started.           *)
THEOREM InductiveInvariant == Spec => []IInv
  BY InitIInv, NextIInv, PTL DEF Spec

(* Every variable keeps its type, whatever the number of tasks and slots.    *)
THEOREM TypeCorrect == Spec => []TypeOK
  <1>1. IInv => TypeOK
    BY DEF IInv
  <1> QED BY <1>1, InductiveInvariant, PTL

(* No child is abandoned untold, although a shutdown may fail half-way.      *)
THEOREM ChildrenAccountedFor == Spec => []NoForgottenChild
  <1>1. IInv => NoForgottenChild
    BY DEF IInv
  <1> QED BY <1>1, InductiveInvariant, PTL

(* Whoever takes a free lifecycle lock meets a READY, a FAILED or no process.*)
THEOREM ActiveSettled == Spec => []SettledActive
  <1>1. IInv => SettledActive
    BY DEF IInv, Shape, LockShape, PhaseActive, SettledActive
  <1> QED BY <1>1, InductiveInvariant, PTL

(* A process object is never overwritten: a spawn follows a reap.            *)
THEOREM NothingReplaced == Spec => SpawnReplacesNothing
  <1>1. IInv /\ [Next]_vars =>
          [active' # active /\ active' # NoProc => active = NoProc]_vars
    <2> SUFFICES ASSUME IInv, Next, active' # active, active' # NoProc
                 PROVE  active = NoProc
      BY DEF vars
    <2>1. CASE \E h \in Tasks : Exec(h)
      BY <2>1 DEF IInv, Shape, PhaseActive, Exec, Holds
    <2>2. CASE \E h \in Tasks : HolderStep(h) /\ ~Exec(h)
      BY <2>2 DEF HolderStep, ShutdownReads, ShutdownReaps, SpawnRaises,
         WarmupSucceeds, WarmupFails, Kill, EnsureEnters, RouteReturns,
         SynthReturns, VoiceGone, EnumerateEnters, EnumerateVisits,
         EnumerateListed, EnumerateReturns, IdleEnters, BeginShutdown
    <2>3. CASE \E c \in Clients : Connect(c) \/ StreamStep(c)
      BY <2>3 DEF Connect, StreamStep, BeginExchange, Drain, Chunk, StreamEnds,
         Eof, Resume
    <2>4. CASE \/ \E t \in Controls : Control(t)
               \/ \E p \in Slots : Exit(p) \/ Crash(p)
               \/ IdleTick \/ Age
      BY <2>4 DEF Control, IdleTick, Exit, Crash, Age
    <2> QED BY <2>1, <2>2, <2>3, <2>4 DEF Next
  <1> QED BY <1>1, InductiveInvariant, PTL DEF Spec, SpawnReplacesNothing

-----------------------------------------------------------------------------
(* Part two: who works with which process, and who waits on its reader.      *)

(* The lifecycle lock's owner and its waiters are different tasks, and each  *)
(* of them is suspended there.                                               *)
LockQueue ==
  /\ lifeOwner # NoOne => pc[lifeOwner] = "life"
  /\ \A i \in 1..Len(lifeQueue) :
       pc[lifeQueue[i]] = "life" /\ lifeQueue[i] # lifeOwner
  /\ \A i, j \in 1..Len(lifeQueue) : lifeQueue[i] = lifeQueue[j] => i = j

(* What a task wants the lock for fixes who it is and what it targets.       *)
JobTargets ==
  \A t \in Tasks :
    /\ job[t] \in {"route", "synth"} => target[t] = want[t]
    /\ job[t] = "evict" => t = Idle
    /\ Streaming(t) => t \in Clients

(* The jobs that start providers.                                            *)
Starting(t) == job[t] \in {"route", "synth"} \/ Enumerating(t)

(* What the owner of the lifecycle lock is there for, by its phase.          *)
PhaseJob ==
  /\ phase \in {"walk", "listed"} => Enumerating(lifeOwner)
  /\ phase = "return" => job[lifeOwner] \in {"route", "synth"}
  /\ phase \in {"spawn", "warm", "kill"} => Starting(lifeOwner)
  /\ phase \in {"downRead", "downReap"} =>
       /\ after = "spawn" => Starting(lifeOwner)
       /\ after = "next" => Enumerating(lifeOwner)
       /\ after = "release" => job[lifeOwner] = "evict"

(* Whose process it starts, and that nobody uses that process yet.           *)
PhaseName ==
  /\ phase = "return" => procs[active].name = target[lifeOwner]
  /\ phase \in {"warm", "kill"} =>
       /\ procs[active].name = SpawnName(lifeOwner)
       /\ \A t \in Tasks : proc[t] # active

(* Why the enumeration may leave the provider it visits.                     *)
PhaseCause ==
  /\ enumAt # 0
  /\ phase = "listed" \/ (phase \in {"downRead", "downReap"} /\ after = "next") =>
       Registry[enumAt] \in enumFound
  /\ phase = "warm" => child[active] = "running" \/ crashes > 0
  /\ phase = "kill" => crashes > 0 \/ startFailures > 0

(* Task t is suspended in a read of process p's stream.                      *)
Reading(t, p) ==
  \/ pc[t] \in {"draining", "reading"} /\ proc[t] = p
  \/ lifeOwner = t /\ active = p /\ phase \in {"warm", "downRead"}

(* The stream reader's one waiter is the task that is suspended in a read.   *)
OneReader ==
  \A p \in Slots : \A t \in Tasks : reader[p] = t <=> Reading(t, p)

RInv == /\ LockQueue /\ JobTargets /\ PhaseJob /\ PhaseName /\ PhaseCause
        /\ OneReader /\ RoutedToOwner
(* The daemon starts in it.                                                  *)
LEMMA InitRInv == Init => RInv
  <1> SUFFICES ASSUME Init PROVE RInv
    OBVIOUS
  <1> USE DEF Init
  <1>1. LockQueue
    BY DEF LockQueue
  <1>2. JobTargets /\ RoutedToOwner
    BY TasksFacts DEF JobTargets, RoutedToOwner, Streaming
  <1>3. PhaseJob /\ PhaseName /\ PhaseCause
    BY DEF PhaseJob, PhaseName, PhaseCause
  <1>4. OneReader
    BY TasksFacts DEF OneReader, Reading
  <1> QED BY <1>1, <1>2, <1>3, <1>4 DEF RInv

-----------------------------------------------------------------------------
(* The lifecycle lock's queue.                                               *)

(* A waiting sequence of different tasks, one taken off or put behind.       *)
LEMMA TailQueue ==
  ASSUME NEW S, NEW q \in Seq(S), q # <<>>
  PROVE  /\ Head(q) = q[1] /\ Head(q) \in S /\ 1 \in 1..Len(q)
         /\ Tail(q) \in Seq(S) /\ Len(Tail(q)) = Len(q) - 1
         /\ \A i \in 1..Len(Tail(q)) : Tail(q)[i] = q[i + 1] /\ i + 1 \in 1..Len(q)
  OBVIOUS

LEMMA AppendQueue ==
  ASSUME NEW S, NEW q \in Seq(S), NEW x \in S
  PROVE  /\ Append(q, x) \in Seq(S) /\ Len(Append(q, x)) = Len(q) + 1
         /\ \A i \in 1..Len(Append(q, x)) :
              IF i \in 1..Len(q) THEN Append(q, x)[i] = q[i]
                                 ELSE i = Len(q) + 1 /\ Append(q, x)[i] = x
  OBVIOUS

(* Owner o and queue q: different tasks that are all in L.                   *)
Lined(o, q, L) ==
  /\ o \in L /\ \A i \in 1..Len(q) : q[i] \in L /\ q[i] # o
  /\ \A i, j \in 1..Len(q) : q[i] = q[j] => i = j

(* The first waiter becomes the owner.                                       *)
LEMMA LinedTail ==
  ASSUME NEW S, NEW q \in Seq(S), q # <<>>, NEW L, NEW o, Lined(o, q, L)
  PROVE  Lined(Head(q), Tail(q), L \ {o})
  <1>1. /\ Head(q) = q[1] /\ 1 \in 1..Len(q)
        /\ \A i \in 1..Len(Tail(q)) : Tail(q)[i] = q[i + 1] /\ i + 1 \in 1..Len(q)
    BY TailQueue
  <1>2. \A i \in 1..Len(Tail(q)) : Tail(q)[i] # q[1]
    BY <1>1 DEF Lined
  <1>3. \A i, j \in 1..Len(Tail(q)) : Tail(q)[i] = Tail(q)[j] => i = j
    BY <1>1 DEF Lined
  <1> QED BY <1>1, <1>2, <1>3 DEF Lined

(* A task that was not in line joins it.                                     *)
LEMMA LinedAppend ==
  ASSUME NEW S, NEW q \in Seq(S), NEW L, NEW o, Lined(o, q, L),
         NEW x \in S, x \notin L
  PROVE  Lined(o, Append(q, x), L \cup {x})
  <1>1. \A i \in 1..Len(Append(q, x)) :
          IF i \in 1..Len(q) THEN Append(q, x)[i] = q[i]
                             ELSE i = Len(q) + 1 /\ Append(q, x)[i] = x
    BY AppendQueue
  <1> QED BY <1>1 DEF Lined

(* The tasks that are suspended at the lifecycle lock or own it.             *)
InLine == {t \in Tasks : pc[t] = "life"}

LEMMA LockLined ==
  ASSUME LifeType
  PROVE  /\ lifeOwner # NoOne => (LockQueue <=> Lined(lifeOwner, lifeQueue, InLine))
         /\ lifeOwner = NoOne /\ lifeQueue = <<>> => LockQueue
  <1>1. \A i \in 1..Len(lifeQueue) : lifeQueue[i] \in Tasks
    BY DEF LifeType
  <1> QED BY <1>1 DEF LifeType, LockQueue, Lined, InLine

LEMMA LockLinedNext ==
  ASSUME LifeType'
  PROVE  /\ lifeOwner' # NoOne =>
              (LockQueue' <=> Lined(lifeOwner', lifeQueue', InLine'))
         /\ lifeOwner' = NoOne /\ lifeQueue' = <<>> => LockQueue'
  <1>1. \A i \in 1..Len(lifeQueue') : lifeQueue'[i] \in Tasks
    BY DEF LifeType
  <1> QED BY <1>1 DEF LifeType, LockQueue, Lined, InLine

(* More tasks may be at the lock than are in line.                           *)
LEMMA LinedMore ==
  ASSUME NEW o, NEW q, NEW L, NEW M, Lined(o, q, L), L \subseteq M
  PROVE  Lined(o, q, M)
  BY DEF Lined

(* What happens to task h happens to no other.                               *)
TaskFrame(h) ==
  \A t \in Tasks \ {h} :
    /\ pc'[t] = pc[t] /\ job'[t] = job[t] /\ want'[t] = want[t]
    /\ target'[t] = target[t] /\ proc'[t] = proc[t]

(* The owner lets go.                                                        *)
LEMMA ReleaseQueue ==
  ASSUME LifeType, LockShape, LockQueue, NEW h \in Tasks, lifeOwner = h, Release,
         TaskFrame(h)
  PROVE  LockQueue'
  <1>1. LifeType'
    BY ReleaseType
  <1>2. h # NoOne /\ Lined(h, lifeQueue, InLine) /\ InLine \ {h} \subseteq InLine'
    BY LockLined, TasksFacts DEF InLine, TaskFrame
  <1>3. CASE lifeQueue = <<>>
    BY <1>1, <1>3, LockLinedNext DEF Release
  <1>4. CASE lifeQueue # <<>>
    <2>1. Lined(Head(lifeQueue), Tail(lifeQueue), InLine')
      BY <1>2, <1>4, LinedTail, LinedMore DEF LifeType
    <2>2. lifeOwner' = Head(lifeQueue) /\ lifeQueue' = Tail(lifeQueue)
          /\ Head(lifeQueue) # NoOne
      BY <1>4, TailQueue, TasksFacts DEF Release, LifeType
    <2> QED BY <1>1, <2>1, <2>2, LockLinedNext
  <1> QED BY <1>3, <1>4

(* The owner lets go and asks again.                                         *)
LEMMA ReleaseAndAcquireQueue ==
  ASSUME LifeType, LockShape, LockQueue, NEW h \in Tasks, lifeOwner = h,
         ReleaseAndAcquire(h), UNCHANGED pc
  PROVE  LockQueue'
  <1>1. LifeType' /\ h # NoOne
    BY ReleaseAndAcquireType, TasksFacts
  <1>2. Lined(h, lifeQueue, InLine) /\ h \in InLine /\ InLine' = InLine
    BY <1>1, LockLined DEF InLine, LockQueue
  <1>3. CASE lifeQueue = <<>>
    BY <1>1, <1>2, <1>3, LockLinedNext DEF ReleaseAndAcquire
  <1>4. CASE lifeQueue # <<>>
    <2>1. Lined(Head(lifeQueue), Tail(lifeQueue), InLine \ {h})
          /\ Tail(lifeQueue) \in Seq(Tasks)
      BY <1>2, <1>4, LinedTail, TailQueue DEF LifeType
    <2>2. Lined(Head(lifeQueue), Append(Tail(lifeQueue), h), (InLine \ {h}) \cup {h})
      BY <2>1, LinedAppend
    <2>3. Lined(Head(lifeQueue), Append(Tail(lifeQueue), h), InLine')
      BY <1>2, <2>2, LinedMore
    <2>4. lifeOwner' = Head(lifeQueue) /\ lifeQueue' = Append(Tail(lifeQueue), h)
          /\ Head(lifeQueue) # NoOne
      BY <1>4, TailQueue, TasksFacts DEF ReleaseAndAcquire, LifeType
    <2> QED BY <1>1, <2>3, <2>4, LockLinedNext
  <1> QED BY <1>3, <1>4

(* A task that was not there asks for the lock.                              *)
LEMMA AcquireQueue ==
  ASSUME LifeType, LockShape, LockQueue, pc \in [Tasks -> PCs],
         NEW t \in Tasks, pc[t] = "idle", Acquire(t),
         pc' = [pc EXCEPT ![t] = "life"]
  PROVE  LockQueue'
  <1>1. LifeType' /\ t # NoOne
    BY AcquireType, TasksFacts
  <1>2. InLine' = InLine \cup {t} /\ t \notin InLine
    BY DEF InLine
  <1>3. CASE lifeOwner = NoOne
    <2>1. lifeQueue' = <<>> /\ lifeOwner' = t
      BY <1>3 DEF Acquire, LockShape
    <2>2. Lined(t, <<>>, InLine')
      BY <1>2 DEF Lined
    <2> QED BY <1>1, <2>1, <2>2, LockLinedNext
  <1>4. CASE lifeOwner # NoOne
    <2>1. Lined(lifeOwner, lifeQueue, InLine)
      BY <1>4, LockLined
    <2>2. Lined(lifeOwner, Append(lifeQueue, t), InLine')
      BY <1>2, <2>1, LinedAppend DEF LifeType
    <2> QED BY <1>1, <1>4, <2>2, LockLinedNext DEF Acquire
  <1> QED BY <1>3, <1>4

(* Nobody at the lock moves.                                                 *)
LEMMA KeepQueue ==
  ASSUME LifeType, LockQueue, UNCHANGED <<lifeOwner, lifeQueue>>,
         \A t \in Tasks : pc[t] = "life" => pc'[t] = "life"
  PROVE  LockQueue'
  <1>1. \A i \in 1..Len(lifeQueue) : lifeQueue[i] \in Tasks
    BY DEF LifeType
  <1> QED BY <1>1 DEF LifeType, LockQueue

-----------------------------------------------------------------------------
(* The parts of the invariant under a step of the lock's owner.              *)

(* What IInv says of types, in the form the steps need.                      *)
LEMMA TypesOf ==
  ASSUME IInv
  PROVE  /\ LifeType /\ LockShape /\ TaskType /\ TaskShape
         /\ procs \in [Slots -> Objects] /\ active \in Slots \cup {NoProc}
         /\ child \in [Slots -> {"running", "leaving", "dead"}]
         /\ reader \in [Slots -> Tasks \cup {NoOne}]
         /\ enumAt \in Nat /\ crashes \in Nat /\ startFailures \in Nat
         /\ PhaseActive
  BY SupervisorAssumption, Parts DEF ProcType, OtherType, ActiveInv

(* The owner is suspended at the lock.                                       *)
LEMMA OwnerInLine ==
  ASSUME RInv, NEW h \in Tasks, lifeOwner = h
  PROVE  pc[h] = "life" /\ ~Streaming(h)
  BY TasksFacts DEF RInv, LockQueue, Streaming

(* A task answered or suspended is no other task.                            *)
LEMMA FinishFrame ==
  ASSUME TaskType, NEW h \in Tasks, Finish(h)
  PROVE  /\ TaskFrame(h) /\ pc'[h] = "idle" /\ job'[h] = "none"
         /\ proc'[h] = NoProc
  BY DEF TaskType, TaskFrame, Finish

(* What the owner's own variables must be for the tasks' part to hold.       *)
LEMMA FrameTargets ==
  ASSUME JobTargets, NEW h \in Tasks, TaskFrame(h),
         job'[h] \in {"route", "synth"} => target'[h] = want'[h],
         job'[h] = "evict" => h = Idle,
         pc'[h] \in {"request", "draining", "reading", "yielded"} => h \in Clients
  PROVE  JobTargets'
  BY DEF JobTargets, TaskFrame, Streaming

(* An exception ends: the lock is handed on, or the enumeration goes on.     *)
LEMMA RaiseRInv ==
  ASSUME IInv, RInv, NEW h \in Tasks, lifeOwner = h, Raise(h)
  PROVE  /\ LockQueue' /\ JobTargets' /\ PhaseJob' /\ TaskFrame(h)
         /\ pc'[h] \in {"life", "idle", "dead"} /\ enumAt' # 0
         /\ phase' \in {"free", "enter", "walk"}
         /\ pc'[h] = "dead" => job[h] = "evict"
  <1>0. /\ LifeType /\ LockShape /\ TaskType /\ LockQueue /\ JobTargets
        /\ pc[h] = "life" /\ enumAt \in Nat /\ enumAt # 0
    BY TypesOf, OwnerInLine DEF RInv, PhaseCause
  <1>1. CASE Enumerating(h) /\ enumAt' = enumAt + 1 /\ phase' = "walk"
             /\ UNCHANGED <<lifeOwner, lifeQueue, taskVars>>
    <2>1. TaskFrame(h) /\ pc' = pc
      BY <1>1 DEF TaskFrame, taskVars
    <2>2. LockQueue'
      BY <1>0, <1>1, <2>1, KeepQueue
    <2>3. JobTargets'
      BY <1>0, <1>1 DEF JobTargets, Streaming, taskVars
    <2>4. PhaseJob' /\ enumAt' # 0
      BY <1>0, <1>1 DEF PhaseJob, Enumerating, taskVars
    <2> QED BY <1>0, <1>1, <2>1, <2>2, <2>3, <2>4
  <1>2. CASE Release /\ Finish(h) /\ UNCHANGED enumAt
    <2>1. TaskFrame(h) /\ pc'[h] = "idle" /\ job'[h] = "none"
      BY <1>0, <1>2, FinishFrame
    <2>2. LockQueue' /\ phase' \in {"free", "enter"}
      BY <1>0, <1>2, <2>1, ReleaseQueue, ReleaseType
    <2>3. JobTargets'
      BY <1>0, <2>1, FrameTargets
    <2>4. PhaseJob' /\ enumAt' # 0
      BY <1>0, <1>2, <2>2 DEF PhaseJob
    <2> QED BY <2>1, <2>2, <2>3, <2>4
  <1>3. CASE /\ job[h] = "evict"
             /\ Release /\ UNCHANGED <<enumAt, want, target, proc>>
             /\ pc' = [pc EXCEPT ![h] = "dead"] /\ job' = [job EXCEPT ![h] = "none"]
    <2>1. TaskFrame(h) /\ pc'[h] = "dead" /\ job'[h] = "none"
      BY <1>0, <1>3 DEF TaskFrame, TaskType
    <2>2. LockQueue' /\ phase' \in {"free", "enter"}
      BY <1>0, <1>3, <2>1, ReleaseQueue, ReleaseType
    <2>3. JobTargets'
      BY <1>0, <2>1, FrameTargets
    <2>4. PhaseJob' /\ enumAt' # 0
      BY <1>0, <1>3, <2>2 DEF PhaseJob
    <2> QED BY <1>3, <2>1, <2>2, <2>3, <2>4
  <1> QED BY <1>1, <1>2, <1>3 DEF Raise

(* Between two uses of a process the phases know nothing of it.              *)
LEMMA BetweenUses ==
  ASSUME phase' \in {"free", "enter", "walk"}, enumAt' # 0
  PROVE  PhaseName' /\ PhaseCause'
  BY DEF PhaseName, PhaseCause

(* The streams go on beside the owner's step.                                *)
LEMMA FrameRouted ==
  ASSUME RInv, TaskShape, NEW h \in Tasks, TaskFrame(h),
         pc'[h] \in {"life", "idle", "dead"},
         \A c \in Clients : c # h /\ Streaming(c) =>
           procs'[proc[c]].name = procs[proc[c]].name
  PROVE  RoutedToOwner'
  BY TasksFacts DEF RInv, RoutedToOwner, TaskFrame, Streaming

(* The owner's step beside the readers: it does not read, ...                *)
LEMMA NoReadRInv ==
  ASSUME RInv, NEW h \in Tasks, lifeOwner = h, TaskFrame(h), UNCHANGED reader,
         pc'[h] \notin {"draining", "reading"},
         phase \notin {"warm", "downRead"}, phase' \notin {"warm", "downRead"}
  PROVE  OneReader'
  <1>1. \A t \in Tasks, p \in Slots : Reading(t, p)' <=> Reading(t, p)
    <2>1. pc[h] = "life"
      BY OwnerInLine
    <2> QED BY <2>1 DEF Reading, TaskFrame
  <1> QED BY <1>1 DEF RInv, OneReader

(* ... it begins to read a stream nobody reads, ...                          *)
LEMMA ReadBeginsRInv ==
  ASSUME RInv, NEW h \in Tasks, lifeOwner = h, UNCHANGED <<lifeOwner, taskVars>>,
         reader \in [Slots -> Tasks \cup {NoOne}],
         NEW q \in Slots, reader[q] = NoOne, reader' = [reader EXCEPT ![q] = h],
         phase \notin {"warm", "downRead"}, phase' \in {"warm", "downRead"},
         active' = q
  PROVE  OneReader'
  <1>1. \A t \in Tasks : ~Reading(t, q)
    BY TasksFacts DEF RInv, OneReader
  <1>2. \A t \in Tasks, p \in Slots :
          Reading(t, p)' <=> Reading(t, p) \/ (t = h /\ p = q)
    BY DEF Reading, taskVars
  <1> QED BY <1>1, <1>2 DEF RInv, OneReader

(* ... or its read is over.                                                  *)
LEMMA ReadEndsRInv ==
  ASSUME RInv, NEW h \in Tasks, lifeOwner = h, UNCHANGED <<lifeOwner, taskVars>>,
         reader \in [Slots -> Tasks \cup {NoOne}], active \in Slots,
         reader' = [reader EXCEPT ![active] = NoOne],
         phase \in {"warm", "downRead"}, phase' \notin {"warm", "downRead"}
  PROVE  OneReader'
  <1>1. pc[h] = "life" /\ reader[active] = h
    BY OwnerInLine DEF RInv, OneReader, Reading
  <1>2. \A t \in Tasks : Reading(t, active) => t = h
    BY <1>1 DEF RInv, OneReader
  <1>3. \A t \in Tasks, p \in Slots :
          Reading(t, p)' <=> Reading(t, p) /\ p # active
    BY <1>1, <1>2 DEF Reading, taskVars
  <1> QED BY <1>3, TasksFacts DEF RInv, OneReader

-----------------------------------------------------------------------------
(* The invariant is kept by every step of the lock's owner.                  *)

(* The parts, put together.                                                  *)
LEMMA RParts ==
  ASSUME LockQueue', JobTargets', PhaseJob', PhaseName', PhaseCause',
         OneReader', RoutedToOwner'
  PROVE  RInv'
  BY DEF RInv

(* A step of the owner in which only the phase of its work changes.          *)
LEMMA PhaseStepRInv ==
  ASSUME IInv, RInv, NEW h \in Tasks, lifeOwner = h,
         UNCHANGED <<lifeOwner, lifeQueue, taskVars>>,
         PhaseJob', PhaseName', PhaseCause', OneReader',
         \A c \in Clients : c # h /\ Streaming(c) =>
           procs'[proc[c]].name = procs[proc[c]].name
  PROVE  RInv'
  <1>0. LifeType /\ TaskShape /\ pc[h] = "life" /\ pc' = pc /\ TaskFrame(h)
        /\ LockQueue /\ JobTargets
    BY TypesOf, OwnerInLine DEF TaskFrame, taskVars, RInv
  <1>1. LockQueue'
    BY <1>0, KeepQueue
  <1>2. JobTargets'
    BY <1>0 DEF JobTargets, Streaming, taskVars
  <1>3. RoutedToOwner'
    BY <1>0, FrameRouted
  <1> QED BY <1>1, <1>2, <1>3, RParts

(* A step of the owner that gives the lock back.                             *)
LEMMA GiveBackRInv ==
  ASSUME IInv, RInv, NEW h \in Tasks, lifeOwner = h, Release, Finish(h),
         UNCHANGED reader, phase \notin {"warm", "downRead"}, enumAt' # 0,
         \A c \in Clients : c # h /\ Streaming(c) =>
           procs'[proc[c]].name = procs[proc[c]].name
  PROVE  RInv'
  <1>0. /\ LifeType /\ LockShape /\ TaskType /\ TaskShape /\ LockQueue /\ JobTargets
        /\ TaskFrame(h) /\ pc'[h] = "idle" /\ job'[h] = "none"
    BY TypesOf, FinishFrame DEF RInv
  <1>1. LockQueue' /\ phase' \in {"free", "enter"}
    BY <1>0, ReleaseQueue, ReleaseType
  <1>2. JobTargets'
    BY <1>0, FrameTargets
  <1>3. PhaseJob' /\ PhaseName' /\ PhaseCause'
    BY <1>1, BetweenUses DEF PhaseJob
  <1>4. OneReader'
    BY <1>0, <1>1, NoReadRInv
  <1>5. RoutedToOwner'
    BY <1>0, FrameRouted
  <1> QED BY <1>1, <1>2, <1>3, <1>4, <1>5, RParts

(* A step of the owner that ends in an exception.                            *)
LEMMA RaisesRInv ==
  ASSUME IInv, RInv, NEW h \in Tasks, lifeOwner = h, Raise(h), UNCHANGED reader,
         phase \notin {"warm", "downRead"},
         \A c \in Clients : c # h /\ Streaming(c) =>
           procs'[proc[c]].name = procs[proc[c]].name
  PROVE  RInv'
  <1>0. /\ TaskShape /\ LockQueue' /\ JobTargets' /\ PhaseJob' /\ TaskFrame(h)
        /\ pc'[h] \in {"life", "idle", "dead"} /\ enumAt' # 0
        /\ phase' \in {"free", "enter", "walk"}
    BY TypesOf, RaiseRInv
  <1>1. PhaseName' /\ PhaseCause'
    BY <1>0, BetweenUses
  <1>2. OneReader'
    BY <1>0, NoReadRInv
  <1>3. RoutedToOwner'
    BY <1>0, FrameRouted
  <1> QED BY <1>0, <1>1, <1>2, <1>3, RParts

(* A shutdown begins.                                                        *)
LEMMA BeginShutdownRInv ==
  ASSUME IInv, RInv, NEW h \in Tasks, lifeOwner = h, active # NoProc,
         phase \in {"enter", "walk", "listed"},
         NEW next \in {"spawn", "next", "release"}, BeginShutdown(h, next),
         next = "spawn" => Starting(h), next = "next" => Enumerating(h),
         next = "release" => job[h] = "evict",
         next = "next" => Registry[enumAt] \in enumFound
  PROVE  RInv'
  <1>0. /\ TaskShape /\ procs \in [Slots -> Objects] /\ active \in Slots
        /\ reader \in [Slots -> Tasks \cup {NoOne}]
        /\ enumAt # 0 /\ h # NoOne
    BY TypesOf, TasksFacts DEF RInv, PhaseCause
  <1>1. \A p \in Slots : procs'[p].name = procs[p].name
    BY <1>0 DEF BeginShutdown, Objects
  <1>2. \A c \in Clients : c # h /\ Streaming(c) =>
          procs'[proc[c]].name = procs[proc[c]].name
    BY <1>0, <1>1 DEF TaskShape
  <1>3. CASE reader[active] = NoOne
    <2>1. /\ reader' = [reader EXCEPT ![active] = h] /\ phase' = "downRead"
          /\ after' = next /\ UNCHANGED <<enumFound>>
          /\ UNCHANGED <<active, lifeOwner, lifeQueue, enumAt, taskVars>>
      BY <1>3 DEF BeginShutdown
    <2>2. PhaseJob'
      BY <2>1 DEF PhaseJob, Starting, Enumerating, taskVars
    <2>3. PhaseName' /\ PhaseCause'
      BY <1>0, <2>1 DEF PhaseName, PhaseCause
    <2>4. OneReader'
      BY <1>0, <1>3, <2>1, ReadBeginsRInv
    <2> QED BY <1>2, <2>1, <2>2, <2>3, <2>4, PhaseStepRInv
  <1>4. CASE reader[active] # NoOne
    <2>1. Raise(h) /\ UNCHANGED reader
      BY <1>4 DEF BeginShutdown
    <2> QED BY <1>2, <2>1, RaisesRInv
  <1> QED BY <1>3, <1>4

(* The reply to a shutdown is read, or not.                                  *)
LEMMA ShutdownReadsRInv ==
  ASSUME IInv, RInv, NEW h \in Tasks, ShutdownReads(h)
  PROVE  RInv'
  <1>0. /\ TaskShape /\ procs \in [Slots -> Objects] /\ active \in Slots
        /\ reader \in [Slots -> Tasks \cup {NoOne}] /\ lifeOwner = h
        /\ phase = "downRead" /\ active # NoProc
        /\ PhaseJob /\ PhaseName /\ PhaseCause
    BY TypesOf DEF ShutdownReads, Holds, PhaseActive, RInv
  <1>1. /\ UNCHANGED <<active, lifeOwner, lifeQueue, after, enumAt, enumFound,
                       taskVars, crashes, startFailures>>
        /\ reader' = [reader EXCEPT ![active] = NoOne] /\ phase' = "downReap"
    BY DEF ShutdownReads, enumVars, boundVars
  <1>2. \A p \in Slots : procs'[p].name = procs[p].name
    BY <1>0 DEF ShutdownReads, Objects
  <1>3. PhaseJob'
    BY <1>0, <1>1 DEF PhaseJob, Starting, Enumerating, taskVars
  <1>4. PhaseName' /\ PhaseCause'
    BY <1>0, <1>1 DEF PhaseName, PhaseCause
  <1>5. OneReader'
    BY <1>0, <1>1, ReadEndsRInv
  <1>6. \A c \in Clients : c # h /\ Streaming(c) =>
          procs'[proc[c]].name = procs[proc[c]].name
    BY <1>0, <1>2 DEF TaskShape
  <1> QED BY <1>0, <1>1, <1>3, <1>4, <1>5, <1>6, PhaseStepRInv

(* The process that was told to leave is reaped: a stream that still refers  *)
(* to it keeps its object.                                                   *)
LEMMA ShutdownReapsRInv ==
  ASSUME IInv, RInv, NEW h \in Tasks, ShutdownReaps(h)
  PROVE  RInv'
  <1>0. /\ TaskShape /\ procs \in [Slots -> Objects] /\ active \in Slots
        /\ reader \in [Slots -> Tasks \cup {NoOne}] /\ lifeOwner = h
        /\ phase = "downReap" /\ active # NoProc
        /\ PhaseJob /\ PhaseName /\ PhaseCause /\ enumAt \in Nat
    BY TypesOf DEF ShutdownReaps, Holds, PhaseActive, RInv
  <1>1. UNCHANGED <<reader, enumFound, crashes, startFailures>> /\ active' = NoProc
    BY DEF ShutdownReaps, boundVars
  <1>2. \A c \in Clients : c # h /\ Streaming(c) =>
          procs'[proc[c]].name = procs[proc[c]].name
    <2> SUFFICES ASSUME NEW c \in Clients, c # h, Streaming(c)
                 PROVE  procs'[proc[c]].name = procs[proc[c]].name
      OBVIOUS
    <2>1. proc[c] \in Slots /\ c \in Tasks \ {h}
      BY <1>0, TasksFacts DEF TaskShape
    <2>2. CASE proc[c] = active
      <3>1. procs'[active] = [procs[active] EXCEPT !.state = "STOPPED"]
        BY <1>0, <2>1, <2>2 DEF ShutdownReaps, Kept
      <3> QED BY <1>0, <2>2, <3>1 DEF Objects
    <2>3. CASE proc[c] # active
      BY <1>0, <2>1, <2>3 DEF ShutdownReaps
    <2> QED BY <2>2, <2>3
  <1>3. CASE /\ after = "spawn" /\ phase' = "spawn"
             /\ UNCHANGED <<lifeOwner, lifeQueue, enumAt, taskVars>>
    <2>1. PhaseJob' /\ PhaseName' /\ PhaseCause'
      BY <1>0, <1>1, <1>3 DEF PhaseJob, PhaseName, PhaseCause, Starting,
         Enumerating, taskVars
    <2>2. TaskFrame(h) /\ pc' = pc
      BY <1>3 DEF TaskFrame, taskVars
    <2>3. OneReader'
      BY <1>0, <1>1, <1>3, <2>2, NoReadRInv, OwnerInLine
    <2> QED BY <1>0, <1>2, <1>3, <2>1, <2>3, PhaseStepRInv
  <1>4. CASE /\ after = "next" /\ phase' = "walk" /\ enumAt' = enumAt + 1
             /\ UNCHANGED <<lifeOwner, lifeQueue, taskVars>>
    <2>1. PhaseJob' /\ PhaseName' /\ PhaseCause'
      <3>1. enumAt' # 0
        BY <1>0, <1>4
      <3>2. PhaseJob'
        BY <1>0, <1>4 DEF PhaseJob, Enumerating, taskVars
      <3> QED BY <1>4, <3>1, <3>2, BetweenUses
    <2>2. TaskFrame(h) /\ pc' = pc
      BY <1>4 DEF TaskFrame, taskVars
    <2>3. OneReader'
      BY <1>0, <1>1, <1>4, <2>2, NoReadRInv, OwnerInLine
    <2> QED BY <1>0, <1>2, <1>4, <2>1, <2>3, PhaseStepRInv
  <1>5. CASE Release /\ Finish(h) /\ UNCHANGED enumAt
    BY <1>0, <1>1, <1>2, <1>5, GiveBackRInv DEF PhaseCause
  <1> QED BY <1>3, <1>4, <1>5 DEF ShutdownReaps

(* A process is started in a slot to which no task refers.                   *)
LEMMA ExecRInv ==
  ASSUME IInv, RInv, NEW h \in Tasks, Exec(h)
  PROVE  RInv'
  <1>0. /\ TaskShape /\ procs \in [Slots -> Objects]
        /\ child \in [Slots -> {"running", "leaving", "dead"}]
        /\ reader \in [Slots -> Tasks \cup {NoOne}] /\ lifeOwner = h
        /\ phase = "spawn" /\ active = NoProc /\ OneReader
        /\ PhaseJob /\ PhaseName /\ PhaseCause
    BY TypesOf DEF Exec, Holds, PhaseActive, RInv
  <1>1. PICK p \in Slots :
          /\ FreeSlot(p)
          /\ procs' = [procs EXCEPT ![p] = [NoObject EXCEPT
                         !.name = SpawnName(h), !.state = "STARTING"]]
          /\ child' = [child EXCEPT ![p] = "running"]
          /\ reader' = [reader EXCEPT ![p] = h] /\ active' = p
    BY DEF Exec
  <1>2. /\ phase' = "warm"
        /\ UNCHANGED <<lifeOwner, lifeQueue, after, enumAt, enumFound, taskVars,
                       crashes, startFailures>>
    BY DEF Exec, enumVars, boundVars
  <1>3. \A t \in Tasks : proc[t] # p
    BY <1>1 DEF FreeSlot
  <1>4. procs'[p].name = SpawnName(h)
    BY <1>0, <1>1 DEF NoObject
  <1>5. PhaseJob'
    BY <1>0, <1>2 DEF PhaseJob, Starting, Enumerating, taskVars
  <1>6. PhaseName'
    BY <1>0, <1>1, <1>2, <1>3, <1>4 DEF PhaseName, SpawnName, Enumerating, taskVars
  <1>7. PhaseCause'
    BY <1>0, <1>1, <1>2 DEF PhaseCause
  <1>8. OneReader'
    <2>1. reader[p] = NoOne
      BY <1>0, <1>3 DEF OneReader, Reading
    <2> QED BY <1>0, <1>1, <1>2, <2>1, ReadBeginsRInv
  <1>9. \A c \in Clients : c # h /\ Streaming(c) =>
          procs'[proc[c]].name = procs[proc[c]].name
    BY <1>0, <1>1, <1>3, TasksFacts DEF TaskShape
  <1> QED BY <1>0, <1>2, <1>5, <1>6, <1>7, <1>8, <1>9, PhaseStepRInv

(* No process is started.                                                    *)
LEMMA SpawnRaisesRInv ==
  ASSUME IInv, RInv, NEW h \in Tasks, SpawnRaises(h)
  PROVE  RInv'
  BY RaisesRInv DEF SpawnRaises, Holds, procVars

(* The new process answers its warmup.                                       *)
LEMMA WarmupSucceedsRInv ==
  ASSUME IInv, RInv, NEW h \in Tasks, WarmupSucceeds(h)
  PROVE  RInv'
  <1>0. /\ TaskShape /\ procs \in [Slots -> Objects] /\ active \in Slots
        /\ reader \in [Slots -> Tasks \cup {NoOne}] /\ lifeOwner = h
        /\ phase = "warm" /\ active # NoProc
        /\ PhaseJob /\ PhaseName /\ PhaseCause
    BY TypesOf DEF WarmupSucceeds, Holds, PhaseActive, RInv
  <1>1. /\ UNCHANGED <<active, lifeOwner, lifeQueue, enumAt, taskVars>>
        /\ reader' = [reader EXCEPT ![active] = NoOne]
        /\ phase' = (IF Enumerating(h) THEN "listed" ELSE "return")
        /\ Enumerating(h) => enumFound' = enumFound \cup {procs[active].name}
    BY DEF WarmupSucceeds
  <1>2. \A p \in Slots : procs'[p].name = procs[p].name
    BY <1>0 DEF WarmupSucceeds, Objects
  <1>3. PhaseJob'
    BY <1>0, <1>1 DEF PhaseJob, Starting, Enumerating, taskVars
  <1>4. PhaseName'
    BY <1>0, <1>1, <1>2 DEF PhaseName, SpawnName, taskVars
  <1>5. PhaseCause'
    BY <1>0, <1>1 DEF PhaseCause, PhaseName, SpawnName
  <1>6. OneReader'
    BY <1>0, <1>1, ReadEndsRInv
  <1>7. \A c \in Clients : c # h /\ Streaming(c) =>
          procs'[proc[c]].name = procs[proc[c]].name
    BY <1>0, <1>2 DEF TaskShape
  <1> QED BY <1>0, <1>1, <1>3, <1>4, <1>5, <1>6, <1>7, PhaseStepRInv

(* It does not.                                                              *)
LEMMA WarmupFailsRInv ==
  ASSUME IInv, RInv, NEW h \in Tasks, WarmupFails(h)
  PROVE  RInv'
  <1>0. /\ TaskShape /\ procs \in [Slots -> Objects] /\ active \in Slots
        /\ reader \in [Slots -> Tasks \cup {NoOne}] /\ lifeOwner = h
        /\ phase = "warm" /\ active # NoProc
        /\ PhaseJob /\ PhaseName /\ PhaseCause
        /\ crashes \in Nat /\ startFailures \in Nat
    BY TypesOf DEF WarmupFails, Holds, PhaseActive, RInv
  <1>1. /\ UNCHANGED <<active, lifeOwner, lifeQueue, after, enumAt, enumFound,
                       taskVars, crashes>>
        /\ reader' = [reader EXCEPT ![active] = NoOne] /\ phase' = "kill"
    BY DEF WarmupFails, enumVars
  <1>2. \A p \in Slots : procs'[p].name = procs[p].name
    BY <1>0 DEF WarmupFails, Objects
  <1>3. PhaseJob'
    BY <1>0, <1>1 DEF PhaseJob, Starting, Enumerating, taskVars
  <1>4. PhaseName'
    BY <1>0, <1>1, <1>2 DEF PhaseName, SpawnName, Enumerating, taskVars
  <1>5. PhaseCause'
    <2>1. CASE child[active] = "dead" /\ UNCHANGED startFailures
      BY <1>0, <1>1, <2>1 DEF PhaseCause
    <2>2. CASE startFailures' = startFailures + 1
      <3>1. startFailures' > 0
        BY <1>0, <2>2
      <3> QED BY <1>0, <1>1, <3>1 DEF PhaseCause
    <2> QED BY <2>1, <2>2 DEF WarmupFails
  <1>6. OneReader'
    BY <1>0, <1>1, ReadEndsRInv
  <1>7. \A c \in Clients : c # h /\ Streaming(c) =>
          procs'[proc[c]].name = procs[proc[c]].name
    BY <1>0, <1>2 DEF TaskShape
  <1> QED BY <1>0, <1>1, <1>3, <1>4, <1>5, <1>6, <1>7, PhaseStepRInv

(* A process that failed its warmup is killed: no stream refers to it.       *)
LEMMA KillRInv ==
  ASSUME IInv, RInv, NEW h \in Tasks, Kill(h)
  PROVE  RInv'
  <1>0. /\ TaskShape /\ procs \in [Slots -> Objects] /\ PhaseName
        /\ lifeOwner = h /\ phase = "kill"
    BY TypesOf DEF Kill, Holds, RInv
  <1>1. \A c \in Clients : c # h /\ Streaming(c) =>
          procs'[proc[c]].name = procs[proc[c]].name
    BY <1>0, TasksFacts DEF Kill, PhaseName, TaskShape
  <1> QED BY <1>0, <1>1, RaisesRInv DEF Kill

(* The streams' processes when no process changes.                           *)
LEMMA SameProcs ==
  ASSUME UNCHANGED procVars
  PROVE  /\ UNCHANGED <<procs, child, reader>>
         /\ \A c \in Clients : procs'[proc[c]].name = procs[proc[c]].name
  BY DEF procVars

(* The owner goes on to another phase of its work, and touches no process.   *)
LEMMA WorkOnRInv ==
  ASSUME IInv, RInv, NEW h \in Tasks, lifeOwner = h, UNCHANGED procVars,
         UNCHANGED <<active, lifeOwner, lifeQueue, taskVars>>,
         phase \in {"enter", "walk"}, phase' \in {"walk", "spawn", "return"},
         enumAt' # 0, phase' = "walk" => Enumerating(h),
         phase' = "spawn" => Starting(h),
         phase' = "return" => /\ job[h] \in {"route", "synth"}
                              /\ procs[active].name = target[h]
  PROVE  RInv'
  <1>1. PhaseJob'
    BY DEF PhaseJob, Starting, Enumerating, taskVars
  <1>2. PhaseName' /\ PhaseCause'
    BY DEF PhaseName, PhaseCause, procVars, taskVars
  <1>3. pc[h] = "life" /\ TaskFrame(h) /\ pc' = pc
    BY OwnerInLine DEF TaskFrame, taskVars
  <1>4. OneReader'
    BY <1>3, SameProcs, NoReadRInv
  <1> QED BY <1>1, <1>2, <1>4, SameProcs, PhaseStepRInv

(* ensure_ready with the lock.                                               *)
LEMMA EnsureEntersRInv ==
  ASSUME IInv, RInv, NEW h \in Tasks, EnsureEnters(h)
  PROVE  RInv'
  <1>0. lifeOwner = h /\ phase = "enter" /\ job[h] \in {"route", "synth"}
        /\ enumAt # 0
    BY DEF EnsureEnters, Holds, RInv, PhaseCause
  <1>1. CASE active # NoProc /\ BeginShutdown(h, "spawn")
    BY <1>0, <1>1, BeginShutdownRInv DEF Starting
  <1>2. CASE /\ phase' = "return" /\ ActiveReady(target[h])
             /\ UNCHANGED <<active, procVars, lockVars, aged, lifeOwner, lifeQueue,
                            after, enumVars, taskVars, boundVars>>
    BY <1>0, <1>2, WorkOnRInv DEF ActiveReady, enumVars
  <1>3. CASE /\ phase' = "spawn"
             /\ UNCHANGED <<active, procVars, lockVars, aged, lifeOwner, lifeQueue,
                            after, enumVars, taskVars, boundVars>>
    BY <1>0, <1>3, WorkOnRInv DEF Starting, enumVars
  <1> QED BY <1>1, <1>2, <1>3 DEF EnsureEnters

(* The first ensure_ready returns and the second is asked for at once.       *)
LEMMA RouteReturnsRInv ==
  ASSUME IInv, RInv, NEW h \in Tasks, RouteReturns(h)
  PROVE  RInv'
  <1>0. /\ LifeType /\ LockShape /\ TaskType /\ TaskShape /\ LockQueue /\ JobTargets
        /\ lifeOwner = h /\ phase = "return" /\ pc[h] = "life" /\ PhaseName
        /\ enumAt # 0 /\ ~Streaming(h)
    BY TypesOf, OwnerInLine DEF RouteReturns, Holds, RInv, PhaseCause
  <1>1. /\ target' = [target EXCEPT ![h] = procs[active].name]
        /\ job' = [job EXCEPT ![h] = "synth"] /\ UNCHANGED <<pc, want, proc>>
        /\ ReleaseAndAcquire(h) /\ UNCHANGED <<procVars, enumAt>>
        /\ job[h] = "route"
    BY DEF RouteReturns, enumVars
  <1>2. TaskFrame(h) /\ target'[h] = want'[h] /\ job'[h] = "synth"
    <2>1. procs[active].name = target[h] /\ target[h] = want[h]
      BY <1>0, <1>1 DEF PhaseName, JobTargets
    <2> QED BY <1>0, <1>1, <2>1 DEF TaskType, TaskFrame
  <1>3. LockQueue' /\ phase' = "enter"
    BY <1>0, <1>1, ReleaseAndAcquireQueue, ReleaseAndAcquireType
  <1>4. JobTargets'
    BY <1>0, <1>1, <1>2, FrameTargets
  <1>5. PhaseJob' /\ PhaseName' /\ PhaseCause'
    BY <1>0, <1>1, <1>3, BetweenUses DEF PhaseJob
  <1>6. OneReader'
    BY <1>0, <1>1, <1>2, <1>3, SameProcs, NoReadRInv
  <1>7. RoutedToOwner'
    BY <1>0, <1>1, <1>2, SameProcs, FrameRouted
  <1> QED BY <1>3, <1>4, <1>5, <1>6, <1>7, RParts

(* The voice is gone: the connection is answered.                            *)
LEMMA VoiceGoneRInv ==
  ASSUME IInv, RInv, NEW h \in Tasks, VoiceGone(h)
  PROVE  RInv'
  BY SameProcs, GiveBackRInv DEF VoiceGone, Holds, RInv, PhaseCause, enumVars

(* synthesize has its process: the one its voice belongs to.                 *)
LEMMA SynthReturnsRInv ==
  ASSUME IInv, RInv, NEW h \in Tasks, SynthReturns(h)
  PROVE  RInv'
  <1>0. /\ LifeType /\ LockShape /\ TaskType /\ TaskShape /\ LockQueue /\ JobTargets
        /\ lifeOwner = h /\ phase = "return" /\ pc[h] = "life" /\ PhaseName
        /\ enumAt # 0 /\ job[h] = "synth" /\ h \in Clients
    BY TypesOf, OwnerInLine DEF SynthReturns, Holds, RInv, PhaseCause, TaskShape
  <1>1. /\ proc' = [proc EXCEPT ![h] = active]
        /\ pc' = [pc EXCEPT ![h] = "request"] /\ job' = [job EXCEPT ![h] = "none"]
        /\ UNCHANGED <<want, target>> /\ Release /\ UNCHANGED <<procVars, enumAt>>
    BY DEF SynthReturns, enumVars
  <1>2. /\ TaskFrame(h) /\ job'[h] = "none" /\ pc'[h] = "request"
        /\ proc'[h] = active
    BY <1>0, <1>1 DEF TaskType, TaskFrame
  <1>3. LockQueue' /\ phase' \in {"free", "enter"}
    BY <1>0, <1>1, <1>2, ReleaseQueue, ReleaseType
  <1>4. JobTargets'
    BY <1>0, <1>2, FrameTargets
  <1>5. PhaseJob' /\ PhaseName' /\ PhaseCause'
    BY <1>0, <1>1, <1>3, BetweenUses DEF PhaseJob
  <1>6. OneReader'
    BY <1>0, <1>1, <1>2, <1>3, SameProcs, NoReadRInv
  <1>7. RoutedToOwner'
    <2>1. procs[active].name = want[h]
      BY <1>0 DEF PhaseName, JobTargets
    <2>2. \A c \in Clients : c # h /\ Streaming(c)' => Streaming(c)
      BY <1>2, TasksFacts DEF TaskFrame, Streaming
    <2> QED
      BY <1>1, <1>2, <2>1, <2>2, SameProcs, TasksFacts
      DEF RInv, RoutedToOwner, TaskFrame
  <1> QED BY <1>3, <1>4, <1>5, <1>6, <1>7, RParts

(* An enumeration begins.                                                    *)
LEMMA EnumerateEntersRInv ==
  ASSUME IInv, RInv, NEW h \in Tasks, EnumerateEnters(h)
  PROVE  RInv'
  BY WorkOnRInv DEF EnumerateEnters, Holds

(* It visits a provider.                                                     *)
LEMMA EnumerateVisitsRInv ==
  ASSUME IInv, RInv, NEW h \in Tasks, EnumerateVisits(h)
  PROVE  RInv'
  <1>0. lifeOwner = h /\ phase = "walk" /\ Enumerating(h) /\ Starting(h)
        /\ enumAt # 0 /\ enumAt \in Nat
    BY TypesOf DEF EnumerateVisits, Holds, RInv, PhaseCause, PhaseJob, Starting
  <1>1. CASE /\ enumAt' = enumAt + 1
             /\ UNCHANGED <<active, procVars, lifeVars, taskVars>>
    <2>1. enumAt' # 0
      BY <1>0, <1>1
    <2> QED BY <1>0, <1>1, <2>1, WorkOnRInv DEF lifeVars
  <1>2. CASE active # NoProc /\ BeginShutdown(h, "spawn")
    BY <1>0, <1>2, BeginShutdownRInv
  <1>3. CASE /\ phase' = "spawn"
             /\ UNCHANGED <<active, procVars, lockVars, aged, lifeOwner, lifeQueue,
                            after, enumVars, taskVars, boundVars>>
    BY <1>0, <1>3, WorkOnRInv DEF enumVars
  <1> QED BY <1>1, <1>2, <1>3 DEF EnumerateVisits

(* The provider it started has answered and is shut down.                    *)
LEMMA EnumerateListedRInv ==
  ASSUME IInv, RInv, NEW h \in Tasks, EnumerateListed(h)
  PROVE  RInv'
  <1>1. /\ lifeOwner = h /\ phase = "listed" /\ Enumerating(h) /\ active # NoProc
        /\ Registry[enumAt] \in enumFound /\ BeginShutdown(h, "next")
    BY TypesOf DEF EnumerateListed, Holds, RInv, PhaseCause, PhaseJob, PhaseActive
  <1> QED BY <1>1, BeginShutdownRInv

(* It is over.                                                               *)
LEMMA EnumerateReturnsRInv ==
  ASSUME IInv, RInv, NEW h \in Tasks, EnumerateReturns(h)
  PROVE  RInv'
  <1>0. /\ LifeType /\ LockShape /\ TaskType /\ TaskShape /\ LockQueue /\ JobTargets
        /\ lifeOwner = h /\ phase = "walk" /\ pc[h] = "life"
    BY TypesOf, OwnerInLine DEF EnumerateReturns, Holds, RInv
  <1>1. enumAt' = 1 /\ UNCHANGED procVars
    BY DEF EnumerateReturns
  <1>2. CASE Release /\ Finish(h)
    BY <1>0, <1>1, <1>2, SameProcs, GiveBackRInv
  <1>3. ASSUME ReleaseAndAcquire(h), UNCHANGED <<pc, want, proc>>,
               TaskFrame(h), job'[h] = "list" \/ target'[h] = want[h],
               job'[h] # "evict"
        PROVE  RInv'
    <2>1. LockQueue' /\ phase' = "enter"
      BY <1>0, <1>3, ReleaseAndAcquireQueue, ReleaseAndAcquireType
    <2>2. JobTargets'
      BY <1>0, <1>3, FrameTargets
    <2>3. PhaseJob' /\ PhaseName' /\ PhaseCause'
      BY <1>1, <2>1, BetweenUses DEF PhaseJob
    <2>4. OneReader'
      BY <1>0, <1>1, <1>3, <2>1, SameProcs, NoReadRInv
    <2>5. RoutedToOwner'
      BY <1>0, <1>1, <1>3, SameProcs, FrameRouted
    <2> QED BY <2>1, <2>2, <2>3, <2>4, <2>5, RParts
  <1>4. CASE /\ job' = [job EXCEPT ![h] = "route"]
             /\ target' = [target EXCEPT ![h] = want[h]]
             /\ ReleaseAndAcquire(h) /\ UNCHANGED <<pc, want, proc>>
    <2>1. TaskFrame(h) /\ job'[h] = "route" /\ target'[h] = want[h]
      BY <1>0, <1>4 DEF TaskType, TaskFrame
    <2> QED BY <1>3, <1>4, <2>1
  <1>5. CASE /\ job' = [job EXCEPT ![h] = "list"]
             /\ ReleaseAndAcquire(h) /\ UNCHANGED <<pc, want, target, proc>>
    <2>1. TaskFrame(h) /\ job'[h] = "list"
      BY <1>0, <1>5 DEF TaskType, TaskFrame
    <2> QED BY <1>3, <1>5, <2>1
  <1> QED BY <1>2, <1>4, <1>5 DEF EnumerateReturns

(* The idle loop with the lock.                                              *)
LEMMA IdleEntersRInv ==
  ASSUME IInv, RInv, NEW h \in Tasks, IdleEnters(h)
  PROVE  RInv'
  <1>0. lifeOwner = h /\ phase = "enter" /\ job[h] = "evict" /\ enumAt # 0
    BY DEF IdleEnters, Holds, RInv, PhaseCause
  <1>1. CASE active # NoProc /\ BeginShutdown(h, "release")
    BY <1>0, <1>1, BeginShutdownRInv
  <1>2. CASE /\ Release /\ Finish(h)
             /\ UNCHANGED <<active, procVars, lockVars, aged, after, enumVars,
                            boundVars>>
    BY <1>0, <1>2, SameProcs, GiveBackRInv DEF enumVars
  <1> QED BY <1>1, <1>2 DEF IdleEnters

-----------------------------------------------------------------------------
(* The invariant is kept by every other step.                                *)

(* A task asks for the lifecycle lock.                                       *)
LEMMA AskRInv ==
  ASSUME IInv, RInv, NEW t \in Tasks, pc[t] = "idle",
         pc' = [pc EXCEPT ![t] = "life"], Acquire(t), TaskFrame(t),
         job'[t] \in {"route", "synth"} => target'[t] = want'[t],
         job'[t] = "evict" => t = Idle,
         UNCHANGED <<active, procVars, after, enumVars, proc, boundVars>>
  PROVE  RInv'
  <1>0. /\ LifeType /\ LockShape /\ TaskType /\ TaskShape /\ LockQueue /\ JobTargets
        /\ PhaseJob /\ PhaseName /\ PhaseCause /\ OneReader /\ RoutedToOwner
    BY TypesOf DEF RInv
  <1>1. UNCHANGED <<procs, child, reader, enumAt, enumFound, crashes, startFailures>>
    BY DEF procVars, enumVars, boundVars
  <1>2. pc'[t] = "life" /\ \A u \in Tasks : pc[u] # "idle" => u # t
    BY <1>0 DEF TaskType
  <1>3. LockQueue'
    BY <1>0, AcquireQueue DEF TaskType
  <1>4. JobTargets'
    BY <1>0, <1>2, FrameTargets
  <1>5. CASE lifeOwner = NoOne
    <2>1. phase' = "enter" /\ phase = "free"
      BY <1>0, <1>5 DEF Acquire, LockShape
    <2>2. PhaseJob' /\ PhaseName' /\ PhaseCause'
      BY <1>0, <1>1, <2>1, BetweenUses DEF PhaseJob, PhaseCause
    <2>3. OneReader'
      BY <1>0, <1>1, <1>2, <2>1 DEF OneReader, Reading, TaskFrame
    <2> QED BY <1>0, <1>1, <1>2, <1>3, <1>4, <2>2, <2>3, TasksFacts, RParts
            DEF RoutedToOwner, Streaming, TaskFrame
  <1>6. CASE lifeOwner # NoOne
    <2>1. UNCHANGED <<lifeOwner, phase, after, active>> /\ lifeOwner \in Tasks \ {t}
      BY <1>0, <1>2, <1>6 DEF Acquire, LifeType, LockQueue
    <2>2. PhaseJob'
      BY <1>0, <2>1 DEF PhaseJob, Starting, Enumerating, TaskFrame
    <2>3. PhaseName' /\ PhaseCause'
      BY <1>0, <1>1, <2>1 DEF PhaseName, PhaseCause, SpawnName, Enumerating,
         TaskFrame
    <2>4. OneReader'
      BY <1>0, <1>1, <1>2, <2>1 DEF OneReader, Reading, TaskFrame
    <2> QED BY <1>0, <1>1, <1>2, <1>3, <1>4, <2>2, <2>3, <2>4, TasksFacts, RParts
            DEF RoutedToOwner, Streaming, TaskFrame
  <1> QED BY <1>5, <1>6

(* A connection, a control request, the idle loop's tick.                    *)
LEMMA ConnectRInv ==
  ASSUME IInv, RInv, NEW c \in Clients, Connect(c)
  PROVE  RInv'
  <1>1. c \in Tasks /\ TaskType
    BY TypesOf, TasksFacts
  <1>2. PICK w \in Providers :
          /\ want' = [want EXCEPT ![c] = w]
          /\ job' = [job EXCEPT ![c] = IF index = {} THEN "populate" ELSE "route"]
          /\ target' = [target EXCEPT ![c] = IF index = {} THEN NoOne ELSE w]
    BY DEF Connect
  <1>3. /\ pc[c] = "idle" /\ pc' = [pc EXCEPT ![c] = "life"] /\ Acquire(c)
        /\ UNCHANGED <<active, procVars, after, enumVars, proc, boundVars>>
    BY DEF Connect
  <1>4. /\ TaskFrame(c) /\ job'[c] # "evict"
        /\ job'[c] \in {"route", "synth"} => target'[c] = want'[c]
    BY <1>1, <1>2, <1>3 DEF TaskType, TaskFrame
  <1> QED BY <1>1, <1>3, <1>4, AskRInv

LEMMA ControlRInv ==
  ASSUME IInv, RInv, NEW t \in Controls, Control(t)
  PROVE  RInv'
  <1>1. t \in Tasks /\ TaskType
    BY TypesOf, TasksFacts
  <1>2. PICK j \in {"reload", "list"} : job' = [job EXCEPT ![t] = j]
    BY DEF Control
  <1>3. /\ pc[t] = "idle" /\ pc' = [pc EXCEPT ![t] = "life"] /\ Acquire(t)
        /\ UNCHANGED <<want, target>>
        /\ UNCHANGED <<active, procVars, after, enumVars, proc, boundVars>>
    BY DEF Control
  <1>4. /\ TaskFrame(t) /\ job'[t] # "evict" /\ job'[t] \notin {"route", "synth"}
    BY <1>1, <1>2, <1>3 DEF TaskType, TaskFrame
  <1> QED BY <1>1, <1>3, <1>4, AskRInv

LEMMA IdleTickRInv ==
  ASSUME IInv, RInv, IdleTick
  PROVE  RInv'
  <1>1. Idle \in Tasks /\ TaskType
    BY TypesOf, TasksFacts
  <1>2. TaskFrame(Idle) /\ job'[Idle] = "evict"
    BY <1>1 DEF TaskType, TaskFrame, IdleTick
  <1> QED BY <1>1, <1>2, AskRInv DEF IdleTick

(* What a step of stream c does to the tasks: c goes on with its process, or *)
(* is answered.                                                              *)
StreamFrame(c) ==
  /\ TaskFrame(c)
  /\ \/ /\ pc'[c] \in {"draining", "reading", "yielded"}
        /\ job'[c] = job[c] /\ want'[c] = want[c] /\ target'[c] = target[c]
        /\ proc'[c] = proc[c]
     \/ pc'[c] = "idle" /\ job'[c] = "none" /\ proc'[c] = NoProc

(* Nobody else's process loses its name.                                     *)
NamesKept(c) ==
  /\ \A d \in Clients : Streaming(d) /\ (d # c \/ pc'[c] # "idle") =>
       procs'[proc[d]].name = procs[proc[d]].name
  /\ active # NoProc => procs'[active].name = procs[active].name

(* A step of a stream keeps the invariant if the readers' part is kept.      *)
LEMMA StreamRInv ==
  ASSUME IInv, RInv, NEW c \in Clients, Streaming(c), StreamFrame(c),
         NamesKept(c), OneReader',
         UNCHANGED <<active, child, lifeVars, enumVars, boundVars>>
  PROVE  RInv'
  <1>0. /\ LifeType /\ PhaseActive /\ LockQueue /\ JobTargets /\ PhaseJob
        /\ PhaseName /\ PhaseCause /\ RoutedToOwner /\ LockShape
        /\ c \in Tasks /\ pc[c] # "life" /\ NoProc \notin Slots
        /\ active \in Slots \cup {NoProc}
    BY TypesOf, TasksFacts DEF RInv, Streaming
  <1>1. UNCHANGED <<active, child, lifeOwner, lifeQueue, phase, after, enumAt,
                    enumFound, crashes, startFailures>>
    BY DEF lifeVars, enumVars, boundVars
  <1>2. /\ phase # "free" => lifeOwner \in Tasks \ {c}
        /\ \A t \in Tasks : proc'[t] \in {proc[t], NoProc}
        /\ \A t \in Tasks : pc[t] = "life" => pc'[t] = "life"
    BY <1>0, TasksFacts DEF LockQueue, LifeType, LockShape, StreamFrame, TaskFrame
  <1>3. LockQueue'
    BY <1>0, <1>1, <1>2, KeepQueue
  <1>4. JobTargets'
    BY <1>0 DEF JobTargets, StreamFrame, TaskFrame, Streaming
  <1>5. PhaseJob'
    BY <1>0, <1>1, <1>2 DEF PhaseJob, Starting, Enumerating, StreamFrame, TaskFrame
  <1>6. PhaseName'
    BY <1>0, <1>1, <1>2
    DEF PhaseName, PhaseActive, SpawnName, Enumerating, StreamFrame, TaskFrame,
        NamesKept
  <1>7. PhaseCause'
    BY <1>0, <1>1 DEF PhaseCause
  <1>8. RoutedToOwner'
    <2> SUFFICES ASSUME NEW d \in Clients, Streaming(d)'
                 PROVE  procs'[proc'[d]].name = want'[d]
      BY DEF RoutedToOwner
    <2>1. /\ Streaming(d) /\ proc'[d] = proc[d] /\ want'[d] = want[d]
          /\ d # c \/ pc'[c] # "idle"
      BY TasksFacts DEF StreamFrame, TaskFrame, Streaming
    <2> QED BY <1>0, <2>1 DEF RoutedToOwner, NamesKept
  <1> QED BY <1>3, <1>4, <1>5, <1>6, <1>7, <1>8, RParts

(* The readers' part: a stream's read begins, goes on, ends, or none is.     *)
ReadsAs(c) ==
  LET p    == proc[c]
      was  == pc[c] \in {"draining", "reading"}
      will == pc'[c] \in {"draining", "reading"}
  IN
    \/ ~was /\ will /\ reader[p] = NoOne /\ reader' = [reader EXCEPT ![p] = c]
    \/ was /\ ~will /\ reader' = [reader EXCEPT ![p] = NoOne]
    \/ (was <=> will) /\ UNCHANGED reader

LEMMA StreamReader ==
  ASSUME IInv, RInv, NEW c \in Clients, Streaming(c), StreamFrame(c), ReadsAs(c),
         UNCHANGED <<active, lifeVars>>
  PROVE  OneReader'
  <1> DEFINE p == proc[c]
  <1>0. /\ p \in Slots /\ c \in Tasks /\ OneReader /\ pc[c] # "life"
        /\ reader \in [Slots -> Tasks \cup {NoOne}] /\ lifeOwner # c
    BY TypesOf, TasksFacts DEF RInv, LockQueue, TaskShape, Streaming
  <1>1. /\ \A t \in Tasks \ {c}, q \in Slots : Reading(t, q)' <=> Reading(t, q)
        /\ \A q \in Slots : Reading(c, q) <=>
             pc[c] \in {"draining", "reading"} /\ q = p
        /\ \A q \in Slots : Reading(c, q)' <=>
             pc'[c] \in {"draining", "reading"} /\ q = p
    BY <1>0 DEF StreamFrame, TaskFrame, Reading, lifeVars
  <1>2. \A q \in Slots : q # p => reader'[q] = reader[q]
    BY <1>0 DEF ReadsAs
  <1>3. CASE /\ pc[c] \notin {"draining", "reading"}
             /\ pc'[c] \in {"draining", "reading"} /\ reader[p] = NoOne
             /\ reader' = [reader EXCEPT ![p] = c]
    <2>1. \A t \in Tasks : ~Reading(t, p)
      BY <1>0, <1>3, TasksFacts DEF OneReader
    <2>2. reader'[p] = c
      BY <1>0, <1>3
    <2> QED BY <1>0, <1>1, <1>2, <1>3, <2>1, <2>2 DEF OneReader
  <1>4. CASE /\ pc[c] \in {"draining", "reading"}
             /\ pc'[c] \notin {"draining", "reading"}
             /\ reader' = [reader EXCEPT ![p] = NoOne]
    <2>1. \A t \in Tasks \ {c} : ~Reading(t, p)
      BY <1>0, <1>1, <1>4 DEF OneReader
    <2>2. reader'[p] = NoOne
      BY <1>0, <1>4
    <2> QED BY <1>0, <1>1, <1>2, <1>4, <2>1, <2>2, TasksFacts DEF OneReader
  <1>5. CASE /\ pc[c] \in {"draining", "reading"} <=> pc'[c] \in {"draining", "reading"}
             /\ UNCHANGED reader
    BY <1>0, <1>1, <1>5 DEF OneReader
  <1> QED BY <1>3, <1>4, <1>5 DEF ReadsAs

(* A suspension and an answer are such steps; so are the updates of one      *)
(* process object that keep its name.                                        *)
LEMMA SuspendFrame ==
  ASSUME TaskType, NEW c \in Clients, Suspend(c, "draining")
                     \/ Suspend(c, "reading") \/ Suspend(c, "yielded")
  PROVE  StreamFrame(c) /\ pc'[c] # "idle"
  BY TasksFacts DEF TaskType, StreamFrame, TaskFrame, Suspend

LEMMA AnswerFrame ==
  ASSUME IInv, NEW c \in Clients, Streaming(c), NEW object,
         object.name = procs[proc[c]].name, EndExchange(c, object)
  PROVE  StreamFrame(c) /\ NamesKept(c) /\ pc'[c] = "idle"
  <1>0. /\ TaskType /\ TaskShape /\ c \in Tasks /\ proc[c] \in Slots
        /\ procs \in [Slots -> Objects] /\ active \in Slots \cup {NoProc}
    BY TypesOf, TasksFacts DEF TaskShape
  <1>1. StreamFrame(c) /\ pc'[c] = "idle"
    BY <1>0, FinishFrame DEF EndExchange, StreamFrame
  <1>2. \A d \in Clients : Streaming(d) /\ d # c =>
          procs'[proc[d]].name = procs[proc[d]].name
    BY <1>0, TasksFacts DEF EndExchange, Kept, TaskShape
  <1>3. active # NoProc => procs'[active].name = procs[active].name
    BY <1>0 DEF EndExchange
  <1> QED BY <1>1, <1>2, <1>3 DEF NamesKept

LEMMA UpdateNames ==
  ASSUME IInv, NEW c \in Clients, Streaming(c), NEW object,
         object.name = procs[proc[c]].name,
         procs' = [procs EXCEPT ![proc[c]] = object] \/ UNCHANGED procs
  PROVE  NamesKept(c)
  <1>0. /\ TaskShape /\ proc[c] \in Slots /\ procs \in [Slots -> Objects]
        /\ active \in Slots \cup {NoProc}
    BY TypesOf DEF TaskShape
  <1> QED BY <1>0 DEF NamesKept, TaskShape

(* The steps of a stream.                                                    *)
LEMMA StreamStepRInv ==
  ASSUME IInv, RInv, NEW c \in Clients, StreamStep(c)
  PROVE  RInv'
  <1> DEFINE p == proc[c]
             o == procs[p]
  <1>0. /\ Streaming(c) /\ p \in Slots /\ o \in Objects /\ TaskType
    BY TypesOf, TasksFacts DEF StreamStep, BeginExchange, Drain, Chunk, StreamEnds,
       Eof, Resume, Streaming, TaskShape
  <1>1. UNCHANGED <<active, child, lifeVars, enumVars, boundVars>>
    BY DEF StreamStep, BeginExchange, Drain, Chunk, StreamEnds, Eof, Resume
  <1>2. ASSUME StreamFrame(c), NamesKept(c), ReadsAs(c) PROVE RInv'
    BY <1>0, <1>1, <1>2, StreamReader, StreamRInv
  <1>3. CASE BeginExchange(c)
    <2>1. CASE /\ reader[p] = NoOne /\ procs' = [procs EXCEPT ![p] = Requested(p, o)]
               /\ reader' = [reader EXCEPT ![p] = c] /\ Suspend(c, "reading")
      <3>1. Requested(p, o).name = o.name
        BY <1>0, RequestedFacts
      <3>2. StreamFrame(c) /\ NamesKept(c)
        BY <1>0, <2>1, <3>1, SuspendFrame, UpdateNames
      <3>3. ReadsAs(c)
        BY <1>0, <1>3, <2>1, TasksFacts
        DEF ReadsAs, BeginExchange, Suspend, TaskType
      <3> QED BY <1>2, <3>2, <3>3
    <2>2. CASE /\ reader[p] = NoOne /\ UNCHANGED procs
               /\ reader' = [reader EXCEPT ![p] = c] /\ Suspend(c, "draining")
      <3>1. StreamFrame(c) /\ NamesKept(c)
        BY <1>0, <2>2, SuspendFrame, UpdateNames
      <3>2. ReadsAs(c)
        BY <1>0, <1>3, <2>2, TasksFacts
        DEF ReadsAs, BeginExchange, Suspend, TaskType
      <3> QED BY <1>2, <3>1, <3>2
    <2>3. CASE /\ EndExchange(c, IF o.dirty THEN [o EXCEPT !.dirty = FALSE]
                                            ELSE Requested(p, o))
               /\ UNCHANGED reader
      <3>1. (IF o.dirty THEN [o EXCEPT !.dirty = FALSE] ELSE Requested(p, o)).name
              = o.name
        BY <1>0, RequestedFacts DEF Objects
      <3>2. StreamFrame(c) /\ NamesKept(c) /\ pc'[c] = "idle"
        BY <1>0, <2>3, <3>1, AnswerFrame
      <3>3. ReadsAs(c)
        BY <1>3, <2>3, <3>2 DEF ReadsAs, BeginExchange
      <3> QED BY <1>2, <3>2, <3>3
    <2> QED BY <1>3, <2>1, <2>2, <2>3 DEF BeginExchange
  <1>4. CASE Drain(c)
    <2>1. PICK object : /\ object.name = o.name
                        /\ procs' = [procs EXCEPT ![p] = object]
      <3>1. CASE /\ o.owed > 0
                 /\ procs' = [procs EXCEPT ![p] =
                                Requested(p, [o EXCEPT !.owed = @ - 1])]
        <4>1. [o EXCEPT !.owed = @ - 1] \in Objects
              /\ [o EXCEPT !.owed = @ - 1].name = o.name
          BY <1>0, <3>1 DEF Objects
        <4> QED BY <1>0, <3>1, <4>1, RequestedFacts
      <3>2. CASE procs' = [procs EXCEPT ![p] =
                            Requested(p, [o EXCEPT !.state = "FAILED"])]
        <4>1. [o EXCEPT !.state = "FAILED"] \in Objects
              /\ [o EXCEPT !.state = "FAILED"].name = o.name
          BY <1>0 DEF Objects, ProcStates
        <4> QED BY <1>0, <3>2, <4>1, RequestedFacts
      <3> QED BY <1>4, <3>1, <3>2 DEF Drain
    <2>2. StreamFrame(c) /\ NamesKept(c)
      BY <1>0, <1>4, <2>1, SuspendFrame, UpdateNames DEF Drain
    <2>3. ReadsAs(c)
      BY <1>0, <1>4, TasksFacts DEF ReadsAs, Drain, Suspend, TaskType
    <2> QED BY <1>2, <2>2, <2>3
  <1>5. CASE Chunk(c)
    <2>1. StreamFrame(c) /\ NamesKept(c)
      BY <1>0, <1>5, SuspendFrame, UpdateNames DEF Chunk
    <2>2. ReadsAs(c)
      BY <1>0, <1>5, TasksFacts DEF ReadsAs, Chunk, Suspend, TaskType
    <2> QED BY <1>2, <2>1, <2>2
  <1>6. CASE StreamEnds(c)
    <2>1. PICK e \in BOOLEAN :
            EndExchange(c, [o EXCEPT !.owed = @ - 1, !.dirty = e])
      BY <1>6 DEF StreamEnds
    <2>2. [o EXCEPT !.owed = @ - 1, !.dirty = e].name = o.name
      BY <1>0 DEF Objects
    <2>3. StreamFrame(c) /\ NamesKept(c) /\ pc'[c] = "idle"
      BY <1>0, <2>1, <2>2, AnswerFrame
    <2>4. ReadsAs(c)
      BY <1>6, <2>3 DEF ReadsAs, StreamEnds
    <2> QED BY <1>2, <2>3, <2>4
  <1>7. CASE Eof(c)
    <2>1. StreamFrame(c) /\ NamesKept(c) /\ pc'[c] = "idle"
      BY <1>0, <1>7, AnswerFrame DEF Eof
    <2>2. ReadsAs(c)
      BY <1>7, <2>1 DEF ReadsAs, Eof
    <2> QED BY <1>2, <2>1, <2>2
  <1>8. CASE Resume(c)
    <2>1. CASE /\ reader[p] = NoOne /\ reader' = [reader EXCEPT ![p] = c]
               /\ Suspend(c, "reading") /\ UNCHANGED procs
      <3>1. StreamFrame(c) /\ NamesKept(c)
        BY <1>0, <2>1, SuspendFrame, UpdateNames
      <3>2. ReadsAs(c)
        BY <1>0, <1>8, <2>1, TasksFacts DEF ReadsAs, Resume, Suspend, TaskType
      <3> QED BY <1>2, <3>1, <3>2
    <2>2. CASE EndExchange(c, o) /\ UNCHANGED reader
      <3>1. StreamFrame(c) /\ NamesKept(c) /\ pc'[c] = "idle"
        BY <1>0, <2>2, AnswerFrame
      <3>2. ReadsAs(c)
        BY <1>8, <2>2, <3>1 DEF ReadsAs, Resume
      <3> QED BY <1>2, <3>1, <3>2
    <2> QED BY <1>8, <2>1, <2>2 DEF Resume
  <1> QED BY <1>3, <1>4, <1>5, <1>6, <1>7, <1>8 DEF StreamStep

(* A child dies or leaves, time passes, or nothing happens.                  *)
LEMMA AroundRInv ==
  ASSUME IInv, RInv,
         UNCHANGED <<active, procs, reader, lifeVars, enumVars, taskVars,
                     startFailures>>,
         crashes' = crashes \/ crashes' > 0,
         active \in Slots /\ child[active] = "running" =>
           child'[active] = "running" \/ crashes' > 0
  PROVE  RInv'
  <1>0. /\ LifeType /\ TaskShape /\ LockQueue /\ JobTargets /\ PhaseJob /\ PhaseName
        /\ PhaseCause /\ OneReader /\ RoutedToOwner /\ crashes \in Nat
        /\ phase = "warm" => active \in Slots
    BY TypesOf DEF RInv, PhaseActive
  <1>1. UNCHANGED <<lifeOwner, lifeQueue, phase, after, enumAt, enumFound, pc, job,
                    want, target, proc>>
    BY DEF lifeVars, enumVars, taskVars
  <1>2. LockQueue' /\ JobTargets' /\ RoutedToOwner'
    BY <1>0, <1>1 DEF LockQueue, JobTargets, RoutedToOwner, Streaming
  <1>3. PhaseJob' /\ PhaseName'
    BY <1>0, <1>1 DEF PhaseJob, PhaseName, Starting, Enumerating, SpawnName
  <1>4. PhaseCause'
    BY <1>0, <1>1 DEF PhaseCause
  <1>5. OneReader'
    BY <1>0, <1>1 DEF OneReader, Reading
  <1> QED BY <1>2, <1>3, <1>4, <1>5, RParts

(* The step of a process or of the clock.                                    *)
LEMMA SlotStepRInv ==
  ASSUME IInv, RInv, NEW p \in Slots, Exit(p) \/ Crash(p)
  PROVE  RInv'
  <1>0. child \in [Slots -> {"running", "leaving", "dead"}] /\ crashes \in Nat
    BY TypesOf
  <1>1. CASE Exit(p)
    BY <1>0, <1>1, AroundRInv DEF Exit, boundVars
  <1>2. CASE Crash(p)
    <2>1. crashes' > 0
      BY <1>0, <1>2 DEF Crash
    <2> QED BY <1>2, <2>1, AroundRInv DEF Crash
  <1> QED BY <1>1, <1>2

(* The routing invariant is inductive.                                       *)
LEMMA NextRInv == IInv /\ RInv /\ [Next]_vars => RInv'
  <1> SUFFICES ASSUME IInv, RInv, [Next]_vars PROVE RInv'
    OBVIOUS
  <1>1. CASE \/ \E c \in Clients : Connect(c)
             \/ \E t \in Controls : Control(t)
             \/ IdleTick
    BY <1>1, ConnectRInv, ControlRInv, IdleTickRInv
  <1>2. CASE \E h \in Tasks : HolderStep(h)
    BY <1>2, ShutdownReadsRInv, ShutdownReapsRInv, ExecRInv, SpawnRaisesRInv,
       WarmupSucceedsRInv, WarmupFailsRInv, KillRInv, EnsureEntersRInv,
       RouteReturnsRInv, SynthReturnsRInv, VoiceGoneRInv, EnumerateEntersRInv,
       EnumerateVisitsRInv, EnumerateListedRInv, EnumerateReturnsRInv,
       IdleEntersRInv
    DEF HolderStep
  <1>3. CASE \E c \in Clients : StreamStep(c)
    BY <1>3, StreamStepRInv
  <1>4. CASE \E p \in Slots : Exit(p) \/ Crash(p)
    BY <1>4, SlotStepRInv
  <1>5. CASE Age
    BY <1>5, AroundRInv DEF Age, procVars, boundVars
  <1>6. CASE UNCHANGED vars
    BY <1>6, AroundRInv DEF vars, procVars, boundVars
  <1> QED BY <1>1, <1>2, <1>3, <1>4, <1>5, <1>6 DEF Next

(* On top of the supervisor's invariant: who is at the lifecycle lock, what  *)
(* each of them wants and targets, which provider the owner starts, and who  *)
(* reads from which process.                                                 *)
THEOREM RoutingInvariant == Spec => [](IInv /\ RInv)
  <1>1. Init => IInv /\ RInv
    BY InitIInv, InitRInv
  <1>2. (IInv /\ RInv) /\ [Next]_vars => (IInv /\ RInv)'
    BY NextIInv, NextRInv
  <1> QED BY <1>1, <1>2, PTL DEF Spec

(* A stream works with the provider its voice belongs to, although its       *)
(* process is the one that happened to be active (supervisor.py:337, 360),   *)
(* whatever other connections, the idle loop and failures did in between.    *)
THEOREM StreamsAreRouted == Spec => []RoutedToOwner
  <1>1. IInv /\ RInv => RoutedToOwner
    BY DEF RInv
  <1> QED BY <1>1, RoutingInvariant, PTL

(* A process's stream has one reader at most: the stream that drains or      *)
(* awaits its frame, the warmup, or the shutdown, and no read is forgotten.  *)
THEOREM OneReaderEach == Spec => []OneReader
  <1>1. IInv /\ RInv => OneReader
    BY DEF RInv
  <1> QED BY <1>1, RoutingInvariant, PTL

(* A read that a shutdown collides with is a client's.                       *)
LEMMA CollisionIsClient ==
  ASSUME IInv, RInv, active # NoProc, phase \in {"enter", "walk", "listed"},
         reader[active] # NoOne
  PROVE  \E c \in Clients : reader[active] = c
  <1>1. active \in Slots /\ reader[active] \in Tasks
    BY TypesOf
  <1>2. Reading(reader[active], active)
    BY <1>1 DEF RInv, OneReader
  <1> QED BY <1>1, <1>2 DEF Reading, RInv, JobTargets, Streaming

(* What a shutdown that begins does to the idle loop and the enumeration.    *)
LEMMA BeginShutdownCause ==
  ASSUME IInv, RInv, NEW h \in Tasks, lifeOwner = h, active # NoProc,
         phase \in {"enter", "walk", "listed"},
         NEW next, BeginShutdown(h, next)
  PROVE  \/ UNCHANGED <<pc, enumAt>>
         \/ \E c \in Clients : reader[active] = c
  BY CollisionIsClient DEF BeginShutdown, taskVars

(* The steps in which a shutdown may begin.                                  *)
LEMMA ShutdownCauses ==
  ASSUME IInv, RInv, NEW h \in Tasks,
         EnsureEnters(h) \/ EnumerateVisits(h) \/ EnumerateListed(h) \/ IdleEnters(h)
  PROVE  \/ \E c \in Clients : reader[active] = c
         \/ UNCHANGED <<pc, enumAt>>
         \/ UNCHANGED enumAt /\ Finish(h)
         \/ /\ UNCHANGED pc
            /\ Registry[enumAt] \in Installed => Registry[enumAt] \in enumFound'
  <1>1. CASE EnsureEnters(h)
    BY <1>1, BeginShutdownCause DEF EnsureEnters, Holds, taskVars, enumVars
  <1>2. CASE EnumerateVisits(h)
    BY <1>2, BeginShutdownCause DEF EnumerateVisits, Holds, taskVars, enumVars
  <1>3. CASE EnumerateListed(h)
    BY <1>3, BeginShutdownCause, TypesOf DEF EnumerateListed, Holds, PhaseActive
  <1>4. CASE IdleEnters(h)
    BY <1>4, BeginShutdownCause DEF IdleEnters, Holds, taskVars, enumVars
  <1> QED BY <1>1, <1>2, <1>3, <1>4

(* Where an exception may end the idle loop otherwise: nowhere.              *)
LEMMA RaisesSpareIdle ==
  ASSUME IInv, RInv, NEW h \in Tasks, SpawnRaises(h) \/ Kill(h)
  PROVE  pc'[h] # "dead" /\ TaskFrame(h)
  <1>1. lifeOwner = h /\ phase \in {"spawn", "kill"} /\ Raise(h) /\ PhaseJob
    BY DEF SpawnRaises, Kill, Holds, RInv
  <1>2. job[h] # "evict"
    BY <1>1 DEF PhaseJob, Starting, Enumerating
  <1> QED BY <1>1, <1>2, RaiseRInv

(* The idle loop ends in no other way than by the read of a shutdown's reply *)
(* colliding with a stream that is suspended in its own (supervisor.py:595,  *)
(* 645).                                                                     *)
THEOREM IdleLoopEnds == Spec => IdleLoopEndsByCollision
  <1>1. IInv /\ RInv /\ [Next]_vars =>
          [ (pc[Idle] # "dead" /\ pc'[Idle] = "dead") =>
              \E c \in Clients : reader[active] = c ]_vars
    <2> SUFFICES ASSUME IInv, RInv, Next, pc[Idle] # "dead", pc'[Idle] = "dead"
                 PROVE  \E c \in Clients : reader[active] = c
      BY DEF vars
    <2>0. TaskType /\ Idle \in Tasks /\ Clients \subseteq Tasks
          /\ Controls \subseteq Tasks
      BY TypesOf, TasksFacts
    <2>1. ASSUME NEW h \in Tasks, Finish(h) PROVE FALSE
      BY <2>0, <2>1 DEF Finish, TaskType
    <2>2. CASE \E h \in Tasks : \/ EnsureEnters(h) \/ EnumerateVisits(h)
                                \/ EnumerateListed(h) \/ IdleEnters(h)
      BY <2>1, <2>2, ShutdownCauses
    <2>3. CASE \E h \in Tasks : SpawnRaises(h) \/ Kill(h)
      BY <2>0, <2>3, RaisesSpareIdle DEF TaskFrame
    <2>4. CASE \E h \in Tasks :
                 \/ ShutdownReads(h) \/ ShutdownReaps(h) \/ Exec(h)
                 \/ WarmupSucceeds(h) \/ WarmupFails(h) \/ RouteReturns(h)
                 \/ VoiceGone(h) \/ EnumerateEnters(h) \/ EnumerateReturns(h)
      BY <2>1, <2>4 DEF ShutdownReads, ShutdownReaps, Exec, WarmupSucceeds,
         WarmupFails, RouteReturns, VoiceGone, EnumerateEnters,
         EnumerateReturns, taskVars
    <2>5. CASE \E h \in Tasks : SynthReturns(h)
      BY <2>0, <2>5 DEF SynthReturns, TaskType
    <2>6. CASE \E c \in Clients : Connect(c)
      BY <2>0, <2>6 DEF Connect, TaskType
    <2>7. CASE \E t \in Controls : Control(t)
      BY <2>0, <2>7 DEF Control, TaskType
    <2>8. CASE \E c \in Clients : StreamStep(c)
      <3>1. PICK c \in Clients : StreamStep(c)
        BY <2>8
      <3>2. \/ Finish(c)
            \/ pc' = [pc EXCEPT ![c] = "reading"]
            \/ pc' = [pc EXCEPT ![c] = "draining"]
            \/ pc' = [pc EXCEPT ![c] = "yielded"]
        BY <3>1 DEF StreamStep, BeginExchange, Drain, Chunk, StreamEnds, Eof,
           Resume, Suspend, EndExchange
      <3> QED BY <2>0, <2>1, <3>2 DEF TaskType
    <2>9. CASE IdleTick \/ Age \/ \E p \in Slots : Exit(p) \/ Crash(p)
      BY <2>0, <2>9 DEF IdleTick, Age, Exit, Crash, taskVars, TaskType
    <2> QED BY <2>2, <2>3, <2>4, <2>5, <2>6, <2>7, <2>8, <2>9 DEF Next, HolderStep
  <1> QED BY <1>1, RoutingInvariant, PTL DEF Spec, IdleLoopEndsByCollision

(* An enumeration leaves out an installed provider's voices only after a     *)
(* start that failed, a crash, or the same collision (supervisor.py:220-250).*)
THEOREM SkipsHaveCause == Spec => EnumerationSkipsForCause
  <1>1. IInv /\ RInv /\ [Next]_vars =>
          [ (enumAt' = enumAt + 1 /\ Registry[enumAt] \in Installed
               /\ Registry[enumAt] \notin enumFound') =>
              \/ startFailures' + crashes > 0
              \/ \E c \in Clients : reader[active] = c ]_vars
    <2> SUFFICES ASSUME IInv, RInv, Next, enumAt' = enumAt + 1,
                        Registry[enumAt] \in Installed,
                        Registry[enumAt] \notin enumFound'
                 PROVE  \/ startFailures' + crashes > 0
                        \/ \E c \in Clients : reader[active] = c
      BY DEF vars
    <2>0. /\ enumAt \in Nat /\ crashes \in Nat /\ startFailures \in Nat
          /\ enumAt # 0 /\ PhaseCause
      BY TypesOf DEF RInv, PhaseCause
    <2>1. enumAt' # enumAt /\ enumAt' # 1
      BY <2>0
    <2>2. CASE \E h \in Tasks : \/ EnsureEnters(h) \/ EnumerateVisits(h)
                                \/ EnumerateListed(h) \/ IdleEnters(h)
      BY <2>1, <2>2, ShutdownCauses
    <2>3. CASE \E h \in Tasks : SpawnRaises(h)
      <3>1. PICK h \in Tasks : SpawnRaises(h)
        BY <2>3
      <3>2. Enumerating(h)
        BY <2>1, <3>1 DEF SpawnRaises, Raise
      <3>3. startFailures' = startFailures + 1
        BY <3>1, <3>2 DEF SpawnRaises, SpawnName
      <3> QED BY <2>0, <3>3
    <2>4. CASE \E h \in Tasks : Kill(h)
      <3>1. startFailures' = startFailures /\ (crashes > 0 \/ startFailures > 0)
        BY <2>0, <2>4 DEF Kill, Holds, PhaseCause, boundVars
      <3> QED BY <2>0, <3>1
    <2>5. CASE \E h \in Tasks : ShutdownReaps(h)
      BY <2>0, <2>1, <2>5 DEF ShutdownReaps, Holds, PhaseCause
    <2>6. CASE \E h \in Tasks :
                 \/ ShutdownReads(h) \/ Exec(h) \/ WarmupSucceeds(h)
                 \/ WarmupFails(h) \/ RouteReturns(h) \/ SynthReturns(h)
                 \/ VoiceGone(h) \/ EnumerateEnters(h) \/ EnumerateReturns(h)
      BY <2>1, <2>6 DEF ShutdownReads, Exec, WarmupSucceeds, WarmupFails,
         RouteReturns, SynthReturns, VoiceGone, EnumerateEnters,
         EnumerateReturns, enumVars
    <2>7. CASE \/ \E c \in Clients : Connect(c) \/ StreamStep(c)
               \/ \E t \in Controls : Control(t)
               \/ IdleTick \/ Age \/ \E p \in Slots : Exit(p) \/ Crash(p)
      BY <2>1, <2>7 DEF Connect, Control, IdleTick, Age, Exit, Crash, StreamStep,
         BeginExchange, Drain, Chunk, StreamEnds, Eof, Resume, enumVars
    <2> QED BY <2>2, <2>3, <2>4, <2>5, <2>6, <2>7 DEF Next, HolderStep
  <1> QED BY <1>1, RoutingInvariant, PTL DEF Spec, EnumerationSkipsForCause

-----------------------------------------------------------------------------
(* Part three: the supervisor implements ProviderSlot.                       *)

(* A connection wants a voice as long as it is not answered.                 *)
Asked == \A c \in Clients : want[c] = NoOne <=> pc[c] = "idle"

SInv == IInv /\ RInv /\ Asked

(* Every step is one of a single task, and leaves the others' variables.     *)
LEMMA AskedFrame ==
  ASSUME Asked, NEW t \in Tasks, TaskFrame(t),
         t \in Clients => (want'[t] = NoOne <=> pc'[t] = "idle")
  PROVE  Asked'
  BY TasksFacts DEF Asked, TaskFrame

(* Nobody is promised a provider but in phase "return".                      *)
LEMMA NoHandOver ==
  /\ phase # "return" => \A c \in Clients : ~HandOver(c)
  /\ phase' # "return" => \A c \in Clients : ~HandOver(c)'
  BY DEF HandOver, Holds

(* Who waits for the lifecycle lock is not served.                           *)
LEMMA OwnerService ==
  ASSUME RInv, NEW h \in Clients, lifeOwner = h, ~HandOver(h)
  PROVE  Service(h) = "no" /\ pc[h] = "life"
  BY OwnerInLine, TasksFacts DEF Service

(* Who has been given a process is served by the one in the place, or by one *)
(* that the place was taken from.                                            *)
LEMMA StreamService ==
  ASSUME IInv, RInv, NEW c \in Clients, Streaming(c)
  PROVE  /\ ~HandOver(c) /\ proc[c] \in Slots /\ lifeOwner # c
         /\ Service(c) = IF proc[c] = active THEN "slot" ELSE "gone"
  <1>1. lifeOwner # c
    BY OwnerInLine, TasksFacts
  <1>2. ~HandOver(c) /\ proc[c] \in Slots
    BY <1>1, TypesOf DEF HandOver, Holds, TaskShape
  <1> QED BY <1>1, <1>2 DEF Service

(* The others are served as before, as long as the place is not given on.    *)
LEMMA OthersServed ==
  ASSUME NEW t \in Tasks, TaskFrame(t), UNCHANGED active,
         NEW d \in Clients, d # t, HandOver(d)' <=> HandOver(d)
  PROVE  Service(d)' = Service(d) /\ want'[d] = want[d]
  <1>1. Streaming(d)' <=> Streaming(d)
    BY TasksFacts DEF TaskFrame, Streaming
  <1>2. proc'[d] = proc[d] /\ want'[d] = want[d]
    BY TasksFacts DEF TaskFrame
  <1> QED BY <1>1, <1>2 DEF Service

(* A step that is none of the place's.                                       *)
LEMMA SlotStutters ==
  ASSUME UNCHANGED <<Stage, Occupant>>,
         \A d \in Clients : Service(d)' = Service(d) /\ want'[d] = want[d]
  PROVE  [Slot!Next]_(Slot!vars)
  <1>1. Served' = Served
    BY DEF Served
  <1>2. Wanted' = Wanted
    <2>1. \A d \in Clients : want'[d] = want[d]
      OBVIOUS
    <2> QED BY <2>1, Zenon DEF Wanted
  <1> QED BY <1>1, <1>2 DEF Slot!vars

(* A client is answered: with its stream, an error, or because its voice is  *)
(* not there.                                                                *)
LEMMA SlotAnswers ==
  ASSUME UNCHANGED <<Stage, Occupant>>, NEW c \in Clients,
         \A d \in Clients \ {c} : Service(d)' = Service(d) /\ want'[d] = want[d],
         want[c] # NoOne, want'[c] = NoOne, Service(c)' = "no"
  PROVE  [Slot!Next]_(Slot!vars)
  <1>1. Served' = [Served EXCEPT ![c] = "no"]
    BY DEF Served
  <1>2. Wanted' = [Wanted EXCEPT ![c] = NoOne] /\ Wanted[c] # NoOne
    <2>1. \A d \in Clients : want'[d] = IF d = c THEN NoOne ELSE want[d]
      OBVIOUS
    <2>2. /\ Wanted' = [d \in Clients |-> want'[d]]
          /\ [Wanted EXCEPT ![c] = NoOne] = [d \in Clients |-> IF d = c THEN NoOne ELSE want[d]]
          /\ Wanted[c] # NoOne
      BY DEF Wanted
    <2> QED BY <2>1, <2>2
  <1>3. Slot!Answer(c)
    BY <1>1, <1>2 DEF Slot!Answer
  <1> QED BY <1>3 DEF Slot!Next

(* The stage and the occupant depend on the active process, its object and   *)
(* the phase.                                                                *)
LEMMA StageKept ==
  ASSUME UNCHANGED active,
         active # NoProc => /\ procs'[active].name = procs[active].name
                            /\ procs'[active].state = procs[active].state,
         active # NoProc =>
           \/ phase' = phase
           \/ /\ phase \in {"free", "enter", "walk", "listed", "return"}
              /\ phase' \in {"free", "enter", "walk", "listed", "return"}
           \/ /\ phase \in {"kill", "downRead", "downReap"}
              /\ phase' \in {"kill", "downRead", "downReap"}
  PROVE  UNCHANGED <<Stage, Occupant>>
  <1>1. CASE active = NoProc
    BY <1>1 DEF Stage, Occupant
  <1>2. CASE active # NoProc
    <2>1. Occupant' = Occupant
      BY <1>2 DEF Occupant
    <2>2. Stage' = Stage
      BY <1>2 DEF Stage
    <2> QED BY <2>1, <2>2
  <1> QED BY <1>1, <1>2

(* A task that leaves the lock with an answer, or waits for another.         *)
LEMMA OwnerLeaves ==
  ASSUME SInv, NEW h \in Tasks, lifeOwner = h, phase' # "return",
         UNCHANGED <<Stage, Occupant, active>>, TaskFrame(h), Finish(h)
  PROVE  [Slot!Next]_(Slot!vars)
  <1>1. pc[h] = "life" /\ TaskType
    BY OwnerInLine, TypesOf DEF SInv
  <1>2. pc'[h] = "idle" /\ want'[h] = NoOne
    BY <1>1 DEF Finish, TaskType
  <1>3. \A d \in Clients \ {h} : HandOver(d)' <=> HandOver(d)
    BY NoHandOver DEF HandOver, Holds
  <1>4. \A d \in Clients \ {h} : Service(d)' = Service(d) /\ want'[d] = want[d]
    BY <1>3, OthersServed
  <1>5. CASE h \in Clients
    <2>1. want[h] # NoOne
      BY <1>1, <1>5 DEF SInv, Asked
    <2>2. ~HandOver(h)'
      BY <1>5, NoHandOver
    <2>3. ~Streaming(h)'
      BY <1>2 DEF Streaming
    <2>4. Service(h)' = "no"
      BY <2>2, <2>3 DEF Service
    <2> QED BY <1>2, <1>4, <1>5, <2>1, <2>4, SlotAnswers
  <1>6. CASE h \notin Clients
    BY <1>4, <1>6, SlotStutters
  <1> QED BY <1>5, <1>6

(* The lock's owner goes on, or hands it on, with nothing promised after.    *)
LEMMA OwnerGoesOn ==
  ASSUME SInv, NEW h \in Tasks, lifeOwner = h,
         phase' # "return", phase # "return" \/ job[h] # "synth",
         UNCHANGED <<Stage, Occupant, active>>, TaskFrame(h),
         h \in Clients => want'[h] = want[h] /\ ~Streaming(h)'
  PROVE  [Slot!Next]_(Slot!vars)
  <1>1. \A d \in Clients : ~HandOver(d) /\ ~HandOver(d)'
    BY NoHandOver DEF HandOver, Holds
  <1>2. \A d \in Clients \ {h} : Service(d)' = Service(d) /\ want'[d] = want[d]
    BY <1>1, OthersServed
  <1>3. h \in Clients => Service(h)' = Service(h)
    <2>1. h \in Clients => Service(h) = "no"
      BY <1>1, OwnerService DEF SInv
    <2> QED BY <1>1, <2>1 DEF Service
  <1> QED BY <1>2, <1>3, SlotStutters

(* The place is empty again: who was served by the process in it goes on     *)
(* with a process that the place was taken from.                             *)
LEMMA SlotVacated ==
  ASSUME SInv, NEW h \in Tasks, lifeOwner = h, TaskFrame(h), ~Streaming(h)',
         h \in Clients => want'[h] \in {want[h], NoOne},
         active \in Slots, active' = NoProc,
         phase # "return", phase' # "return",
         \/ Stage = "stopping"
         \/ Stage \in {"ready", "failed"}
            /\ \E c \in Clients : Streaming(c) /\ proc[c] = active
  PROVE  [Slot!Next]_(Slot!vars)
  <1>0. RInv /\ IInv /\ TaskShape
    BY TypesOf DEF SInv
  <1>1. \A d \in Clients : ~HandOver(d) /\ ~HandOver(d)'
    BY NoHandOver
  <1>2. ASSUME NEW d \in Clients
        PROVE  /\ Service(d)' = IF Service(d) = "slot" THEN "gone" ELSE Service(d)
               /\ Service(d) # "promised"
    <2>1. CASE d = h
      BY <1>0, <1>1, <2>1, OwnerService DEF Service
    <2>2. CASE d # h /\ Streaming(d)
      <3>1. Streaming(d)' /\ proc'[d] = proc[d] /\ proc[d] \in Slots
        BY <1>0, <2>2, TasksFacts DEF TaskFrame, Streaming, TaskShape
      <3>2. Service(d)' = "gone"
        BY <1>1, <3>1, TasksFacts DEF Service
      <3> QED BY <1>0, <2>2, <3>2, StreamService
    <2>3. CASE d # h /\ ~Streaming(d)
      <3>1. ~Streaming(d)'
        BY <2>3, TasksFacts DEF TaskFrame, Streaming
      <3> QED BY <1>1, <2>3, <3>1 DEF Service
    <2> QED BY <2>1, <2>2, <2>3
  <1>3. Served' = [d \in Clients |-> IF Served[d] = "slot" THEN "gone" ELSE Served[d]]
    BY <1>2 DEF Served
  <1>4. ~Slot!Promised
    BY <1>2 DEF Slot!Promised, Served
  <1>5. Stage' = "empty" /\ Occupant' = NoOne
    BY DEF Stage, Occupant
  <1>6. Stage = "stopping" \/ (Stage \in {"ready", "failed"} /\ Slot!Using)
    <2>1. ASSUME NEW c \in Clients, Streaming(c), proc[c] = active PROVE Slot!Using
      <3>1. Service(c) = "slot"
        BY <1>0, <2>1, StreamService
      <3> QED BY <3>1 DEF Slot!Using, Served
    <2> QED BY <2>1
  <1>7. Wanted' = Wanted \/ \E c \in Clients :
          Served[c] = "no" /\ Wanted' = [Wanted EXCEPT ![c] = NoOne]
    <2>1. \A d \in Clients \ {h} : want'[d] = want[d]
      BY TasksFacts DEF TaskFrame
    <2>2. CASE h \in Clients => want'[h] = want[h]
      <3>1. \A d \in Clients : want'[d] = want[d]
        BY <2>1, <2>2
      <3> QED BY <3>1, Zenon DEF Wanted
    <2>3. CASE h \in Clients /\ want'[h] = NoOne
      <3>1. \A d \in Clients : want'[d] = IF d = h THEN NoOne ELSE want[d]
        BY <2>1, <2>3
      <3>2. /\ Wanted' = [d \in Clients |-> want'[d]]
            /\ [Wanted EXCEPT ![h] = NoOne] = [d \in Clients |-> IF d = h THEN NoOne ELSE want[d]]
        BY DEF Wanted
      <3>3. Wanted' = [Wanted EXCEPT ![h] = NoOne]
        BY <3>1, <3>2
      <3>4. Served[h] = "no"
        BY <1>0, <1>1, <2>3, OwnerService DEF Served
      <3> QED BY <2>3, <3>3, <3>4
    <2> QED BY <2>2, <2>3
  <1>8. Slot!Vacate
    BY <1>3, <1>4, <1>5, <1>6, <1>7 DEF Slot!Vacate
  <1> QED BY <1>8 DEF Slot!Next

(* What an exception leaves of its task.                                     *)
LEMMA RaiseLeaves ==
  ASSUME SInv, NEW h \in Tasks, lifeOwner = h, Raise(h)
  PROVE  /\ TaskFrame(h) /\ phase' \in {"free", "enter", "walk"} /\ ~Streaming(h)'
         /\ h \in Clients => want'[h] \in {want[h], NoOne}
         /\ Finish(h) \/ (UNCHANGED want /\ (h \in Clients => UNCHANGED pc))
         /\ Asked'
  <1>0. IInv /\ RInv /\ TaskType /\ JobTargets /\ Asked /\ pc[h] = "life"
    BY TypesOf, OwnerInLine DEF SInv, RInv
  <1>1. /\ TaskFrame(h) /\ pc'[h] \in {"life", "idle", "dead"}
        /\ phase' \in {"free", "enter", "walk"}
    BY <1>0, RaiseRInv
  <1>2. Finish(h) \/ (UNCHANGED want /\ (h \in Clients => UNCHANGED pc))
    BY <1>0, SupervisorAssumption DEF Raise, JobTargets, taskVars
  <1>3. Finish(h) => want'[h] = NoOne /\ pc'[h] = "idle"
    BY <1>0 DEF Finish, TaskType
  <1>4. ~Streaming(h)'
    BY <1>1 DEF Streaming
  <1>5. Asked'
    <2>1. h \in Clients => (want'[h] = NoOne <=> pc'[h] = "idle")
      BY <1>0, <1>2, <1>3 DEF Asked
    <2> QED BY <1>0, <1>1, <2>1, AskedFrame
  <1> QED BY <1>1, <1>2, <1>3, <1>4, <1>5

(* A shutdown begins.                                                        *)
LEMMA BeginShutdownMaps ==
  ASSUME SInv, NEW h \in Tasks, lifeOwner = h, active # NoProc,
         phase \in {"enter", "walk", "listed"},
         NEW next, BeginShutdown(h, next)
  PROVE  [Slot!Next]_(Slot!vars) /\ Asked'
  <1>0. /\ IInv /\ RInv /\ Asked /\ active \in Slots /\ PhaseActive
        /\ procs \in [Slots -> Objects] /\ pc[h] = "life" /\ TaskType
    BY TypesOf, OwnerInLine DEF SInv
  <1>1. Stage \in {"ready", "failed"}
    BY DEF Stage
  <1>2. CASE reader[active] = NoOne
    <2>1. phase' = "downRead" /\ UNCHANGED <<active, taskVars>>
      BY <1>2 DEF BeginShutdown
    <2>2. \A d \in Clients : ~HandOver(d) /\ ~HandOver(d)'
      BY <2>1, NoHandOver
    <2>3. TaskFrame(h)
      BY <2>1 DEF TaskFrame, taskVars
    <2>4. \A d \in Clients : Service(d)' = Service(d)
      BY <2>1, <2>2 DEF Service, Streaming, taskVars
    <2>5. Served' = Served /\ Wanted' = Wanted
      BY <2>1, <2>4 DEF Served, Wanted, taskVars
    <2>6. Stage' = "stopping"
      BY <2>1 DEF Stage
    <2>7. Occupant' = Occupant
      <3>1. procs' = [procs EXCEPT ![active].state = "SHUTTING_DOWN"]
        BY DEF BeginShutdown
      <3>2. procs'[active].name = procs[active].name
        BY <1>0, <3>1 DEF Objects
      <3> QED BY <2>1, <3>2 DEF Occupant
    <2>8. ~Slot!Promised
      BY <2>2 DEF Slot!Promised, Served, Service
    <2>9. Slot!Stop
      BY <1>1, <2>5, <2>6, <2>7, <2>8 DEF Slot!Stop
    <2>10. Asked'
      BY <1>0, <2>1 DEF Asked, taskVars
    <2> QED BY <2>9, <2>10 DEF Slot!Next
  <1>3. CASE reader[active] # NoOne
    <2>1. active' = NoProc /\ Raise(h)
      BY <1>3 DEF BeginShutdown
    <2>2. PICK c \in Clients : reader[active] = c
      BY <1>0, <1>3, CollisionIsClient
    <2>3. Reading(c, active)
      BY <1>0, <2>2, TasksFacts DEF RInv, OneReader
    <2>4. Streaming(c) /\ proc[c] = active
      BY <2>3 DEF Reading, Streaming
    <2> QED BY <1>0, <1>1, <2>1, <2>4, RaiseLeaves, SlotVacated
  <1> QED BY <1>2, <1>3

LEMMA KillMaps ==
  ASSUME SInv, NEW h \in Tasks, Kill(h)
  PROVE  [Slot!Next]_(Slot!vars) /\ Asked'
  <1>1. lifeOwner = h /\ phase = "kill" /\ active' = NoProc /\ Raise(h)
    BY DEF Kill, Holds
  <1>2. active \in Slots /\ active # NoProc
    BY <1>1, TypesOf, TasksFacts DEF SInv, PhaseActive
  <1>3. Stage = "stopping"
    BY <1>1, <1>2 DEF Stage
  <1> QED BY <1>1, <1>2, <1>3, RaiseLeaves, SlotVacated

LEMMA ShutdownReapsMaps ==
  ASSUME SInv, NEW h \in Tasks, ShutdownReaps(h)
  PROVE  [Slot!Next]_(Slot!vars) /\ Asked'
  <1>0. /\ IInv /\ RInv /\ Asked /\ TaskType /\ PhaseJob /\ JobTargets
        /\ LifeType /\ LockShape
    BY TypesOf DEF SInv, RInv
  <1>1. lifeOwner = h /\ phase = "downReap" /\ active' = NoProc /\ pc[h] = "life"
    BY <1>0, OwnerInLine DEF ShutdownReaps, Holds
  <1>2. active \in Slots /\ active # NoProc
    BY <1>1, TypesOf, TasksFacts DEF SInv, PhaseActive
  <1>3. Stage = "stopping"
    BY <1>1, <1>2 DEF Stage
  <1>4. CASE phase' \in {"spawn", "walk"} /\ UNCHANGED taskVars
    <2>1. TaskFrame(h) /\ ~Streaming(h)' /\ want' = want /\ pc' = pc
      BY <1>1, <1>4 DEF TaskFrame, taskVars, Streaming
    <2>2. Asked'
      BY <1>0, <2>1 DEF Asked
    <2> QED BY <1>1, <1>2, <1>3, <1>4, <2>1, <2>2, SlotVacated
  <1>5. CASE Release /\ Finish(h)
    <2>1. phase' \in {"free", "enter"}
      BY <1>0, <1>5, ReleaseType
    <2>2. TaskFrame(h) /\ pc'[h] = "idle" /\ want'[h] = NoOne
      BY <1>0, <1>5, FinishFrame DEF Finish, TaskType
    <2>3. Asked' /\ ~Streaming(h)'
      BY <1>0, <2>2, AskedFrame DEF Streaming
    <2> QED BY <1>1, <1>2, <1>3, <2>1, <2>2, <2>3, SlotVacated
  <1> QED BY <1>4, <1>5 DEF ShutdownReaps

-----------------------------------------------------------------------------
(* The lock's owner, step by step.                                           *)

LEMMA OwnerFacts ==
  ASSUME SInv, NEW h \in Tasks, lifeOwner = h
  PROVE  /\ IInv /\ RInv /\ Asked /\ TaskType /\ TaskShape /\ LifeType /\ LockShape
         /\ PhaseActive /\ PhaseJob /\ PhaseName /\ JobTargets /\ LockQueue
         /\ procs \in [Slots -> Objects] /\ active \in Slots \cup {NoProc}
         /\ pc[h] = "life" /\ ~Streaming(h)
         /\ h \in Clients => want[h] # NoOne
  BY TypesOf, OwnerInLine DEF SInv, RInv, Asked

(* The owner goes on to another phase, and no task changes.                  *)
LEMMA PhaseGoesOn ==
  ASSUME SInv, NEW h \in Tasks, lifeOwner = h, UNCHANGED taskVars,
         UNCHANGED <<Stage, Occupant, active>>,
         phase' # "return", phase # "return" \/ job[h] # "synth"
  PROVE  [Slot!Next]_(Slot!vars) /\ Asked'
  <1>1. TaskFrame(h) /\ pc' = pc /\ want' = want /\ ~Streaming(h)'
    BY OwnerFacts DEF TaskFrame, taskVars, Streaming
  <1>2. [Slot!Next]_(Slot!vars)
    BY <1>1, OwnerGoesOn
  <1>3. Asked'
    BY <1>1, OwnerFacts DEF Asked
  <1> QED BY <1>2, <1>3

LEMMA ShutdownReadsMaps ==
  ASSUME SInv, NEW h \in Tasks, ShutdownReads(h)
  PROVE  [Slot!Next]_(Slot!vars) /\ Asked'
  <1>1. /\ lifeOwner = h /\ phase = "downRead" /\ phase' = "downReap"
        /\ UNCHANGED active /\ UNCHANGED taskVars
    BY DEF ShutdownReads, Holds
  <1>2. active # NoProc => /\ procs'[active].name = procs[active].name
                           /\ procs'[active].state = procs[active].state
    <2>1. CASE active \in Slots
      BY <1>1, <2>1, OwnerFacts DEF ShutdownReads, Objects
    <2> QED BY <1>1, <2>1, OwnerFacts
  <1>3. UNCHANGED <<Stage, Occupant>>
    BY <1>1, <1>2, StageKept
  <1> QED BY <1>1, <1>3, PhaseGoesOn

LEMMA ExecMaps ==
  ASSUME SInv, NEW h \in Tasks, Exec(h)
  PROVE  [Slot!Next]_(Slot!vars) /\ Asked'
  <1>0. /\ lifeOwner = h /\ phase = "spawn" /\ phase' = "warm" /\ UNCHANGED taskVars
        /\ SpawnName(h) \in Installed
    BY DEF Exec, Holds
  <1>1. /\ IInv /\ RInv /\ Asked /\ active = NoProc /\ procs \in [Slots -> Objects]
    BY <1>0, OwnerFacts DEF PhaseActive
  <1>2. PICK p \in Slots :
          /\ FreeSlot(p)
          /\ procs' = [procs EXCEPT ![p] = [NoObject EXCEPT
                         !.name = SpawnName(h), !.state = "STARTING"]]
          /\ active' = p
    BY DEF Exec
  <1>3. \A d \in Clients : Service(d)' = Service(d)
    <2>1. \A d \in Clients : ~HandOver(d) /\ ~HandOver(d)'
      BY <1>0, NoHandOver
    <2>2. ASSUME NEW d \in Clients, Streaming(d) PROVE proc[d] # p /\ proc[d] # active
      BY <1>1, <1>2, <2>2, StreamFacts, TasksFacts DEF FreeSlot, Streaming
    <2> QED BY <1>0, <1>2, <2>1, <2>2 DEF Service, Streaming, taskVars
  <1>4. Served' = Served /\ Wanted' = Wanted
    BY <1>0, <1>3 DEF Served, Wanted, taskVars
  <1>5. Stage = "empty" /\ Stage' = "starting"
    BY <1>0, <1>1, <1>2, TasksFacts DEF Stage
  <1>6. Occupant' = SpawnName(h)
    <2>1. procs'[p].name = SpawnName(h)
      BY <1>1, <1>2 DEF NoObject
    <2> QED BY <1>2, <2>1, TasksFacts DEF Occupant
  <1>7. Slot!Start
    BY <1>0, <1>4, <1>5, <1>6 DEF Slot!Start
  <1>8. Asked'
    BY <1>0, <1>1 DEF Asked, taskVars
  <1> QED BY <1>7, <1>8 DEF Slot!Next

LEMMA SpawnRaisesMaps ==
  ASSUME SInv, NEW h \in Tasks, SpawnRaises(h)
  PROVE  [Slot!Next]_(Slot!vars) /\ Asked'
  <1>1. /\ lifeOwner = h /\ phase = "spawn" /\ Raise(h) /\ UNCHANGED active
    BY DEF SpawnRaises, Holds
  <1>2. active = NoProc
    BY <1>1, OwnerFacts DEF PhaseActive
  <1>3. UNCHANGED <<Stage, Occupant>>
    BY <1>1, <1>2 DEF Stage, Occupant
  <1>4. /\ TaskFrame(h) /\ phase' # "return" /\ ~Streaming(h)' /\ Asked'
        /\ Finish(h) \/ (UNCHANGED want /\ (h \in Clients => UNCHANGED pc))
    BY <1>1, RaiseLeaves
  <1> QED BY <1>1, <1>3, <1>4, OwnerLeaves, OwnerGoesOn

(* A client is given the provider that is ready for it.                      *)
LEMMA GivesOwner ==
  ASSUME SInv, NEW h \in Tasks, lifeOwner = h, phase # "return", phase' = "return",
         job[h] = "synth", UNCHANGED taskVars, UNCHANGED <<lifeOwner, active>>,
         Occupant = target[h]
  PROVE  h \in Clients /\ Slot!Gives(h) /\ Wanted' = Wanted
  <1>1. h \in Clients /\ target[h] = want[h]
    BY OwnerFacts DEF TaskShape, JobTargets
  <1>2. \A d \in Clients : ~HandOver(d)
    BY NoHandOver
  <1>3. Service(h) = "no"
    BY <1>1, <1>2, OwnerFacts, OwnerService
  <1>4. Service(h)' = "promised"
    BY DEF Service, HandOver, Holds, taskVars
  <1>5. \A d \in Clients \ {h} : Service(d)' = Service(d)
    BY <1>2 DEF Service, HandOver, Holds, taskVars, Streaming
  <1>6. Served' = [Served EXCEPT ![h] = "promised"] /\ Served[h] = "no"
    BY <1>1, <1>3, <1>4, <1>5 DEF Served
  <1>7. Wanted[h] = Occupant /\ Wanted' = Wanted
    BY <1>1 DEF Wanted, taskVars
  <1> QED BY <1>1, <1>6, <1>7 DEF Slot!Gives

LEMMA WarmupSucceedsMaps ==
  ASSUME SInv, NEW h \in Tasks, WarmupSucceeds(h)
  PROVE  [Slot!Next]_(Slot!vars) /\ Asked'
  <1>0. /\ lifeOwner = h /\ phase = "warm" /\ UNCHANGED taskVars
        /\ UNCHANGED <<active, lifeOwner>>
        /\ phase' = IF Enumerating(h) THEN "listed" ELSE "return"
        /\ procs' = [procs EXCEPT ![active].state = "READY"]
    BY DEF WarmupSucceeds, Holds
  <1>1. active \in Slots /\ active # NoProc /\ procs \in [Slots -> Objects]
    BY <1>0, OwnerFacts DEF PhaseActive
  <1>2. procs'[active].state = "READY" /\ procs'[active].name = procs[active].name
    BY <1>0, <1>1 DEF Objects
  <1>3. Stage = "starting" /\ Stage' = "ready" /\ Occupant' = Occupant
    BY <1>0, <1>1, <1>2 DEF Stage, Occupant
  <1>4. Asked'
    BY <1>0, OwnerFacts DEF Asked, taskVars
  <1>5. CASE phase' = "return" /\ job[h] = "synth"
    <2>1. Occupant = target[h]
      BY <1>0, <1>1, <1>5, OwnerFacts DEF PhaseName, SpawnName, Occupant, Enumerating
    <2>2. h \in Clients /\ Slot!Gives(h) /\ Wanted' = Wanted
      BY <1>0, <1>5, <2>1, GivesOwner
    <2>3. Slot!Ready
      BY <1>3, <2>2 DEF Slot!Ready
    <2> QED BY <1>4, <2>3 DEF Slot!Next
  <1>6. CASE ~(phase' = "return" /\ job[h] = "synth")
    <2>1. \A d \in Clients : ~HandOver(d) /\ ~HandOver(d)'
      BY <1>0, <1>6 DEF HandOver, Holds, taskVars
    <2>2. \A d \in Clients : Service(d)' = Service(d)
      BY <1>0, <2>1 DEF Service, Streaming, taskVars
    <2>3. Served' = Served /\ Wanted' = Wanted
      BY <1>0, <2>2 DEF Served, Wanted, taskVars
    <2>4. Slot!Ready
      BY <1>3, <2>3 DEF Slot!Ready
    <2> QED BY <1>4, <2>4 DEF Slot!Next
  <1> QED BY <1>5, <1>6

LEMMA WarmupFailsMaps ==
  ASSUME SInv, NEW h \in Tasks, WarmupFails(h)
  PROVE  [Slot!Next]_(Slot!vars) /\ Asked'
  <1>0. /\ lifeOwner = h /\ phase = "warm" /\ phase' = "kill" /\ UNCHANGED taskVars
        /\ UNCHANGED active /\ procs' = [procs EXCEPT ![active].state = "FAILED"]
    BY DEF WarmupFails, Holds
  <1>1. active \in Slots /\ active # NoProc /\ procs \in [Slots -> Objects]
    BY <1>0, OwnerFacts DEF PhaseActive
  <1>2. procs'[active].name = procs[active].name
    BY <1>0, <1>1 DEF Objects
  <1>3. Stage = "starting" /\ Stage' = "stopping" /\ Occupant' = Occupant
    BY <1>0, <1>1, <1>2 DEF Stage, Occupant
  <1>4. \A d \in Clients : ~HandOver(d) /\ ~HandOver(d)'
    BY <1>0, NoHandOver
  <1>5. \A d \in Clients : Service(d)' = Service(d) /\ Service(d) # "promised"
    BY <1>0, <1>4 DEF Service, Streaming, taskVars
  <1>6. Served' = Served /\ Wanted' = Wanted /\ ~Slot!Promised
    BY <1>0, <1>5 DEF Served, Wanted, taskVars, Slot!Promised
  <1>7. Slot!Stop
    BY <1>3, <1>6 DEF Slot!Stop
  <1>8. Asked'
    BY <1>0, OwnerFacts DEF Asked, taskVars
  <1> QED BY <1>7, <1>8 DEF Slot!Next

(* The phases between two decisions look the same from outside.              *)
LEMMA CalmKept ==
  ASSUME UNCHANGED <<active, procs>>,
         active # NoProc =>
           /\ phase \in {"free", "enter", "walk", "listed", "return"}
           /\ phase' \in {"free", "enter", "walk", "listed", "return"}
  PROVE  UNCHANGED <<Stage, Occupant>>
  BY StageKept

LEMMA EnsureEntersMaps ==
  ASSUME SInv, NEW h \in Tasks, EnsureEnters(h)
  PROVE  [Slot!Next]_(Slot!vars) /\ Asked'
  <1>0. lifeOwner = h /\ phase = "enter" /\ job[h] \in {"route", "synth"}
    BY DEF EnsureEnters, Holds
  <1>1. CASE ActiveReady(target[h]) /\ phase' = "return"
             /\ UNCHANGED <<active, procVars, lifeOwner, taskVars>>
    <2>1. Stage = "ready" /\ Occupant = target[h]
      BY <1>0, <1>1 DEF ActiveReady, Stage, Occupant
    <2>2. UNCHANGED <<Stage, Occupant>>
      BY <1>0, <1>1, CalmKept DEF procVars
    <2>3. Asked'
      BY <1>0, <1>1, OwnerFacts DEF Asked, taskVars
    <2>4. \A d \in Clients : ~HandOver(d)
      BY <1>0, NoHandOver
    <2>5. CASE job[h] = "synth"
      <3>1. h \in Clients /\ Slot!Gives(h) /\ Wanted' = Wanted
        BY <1>0, <1>1, <2>1, <2>5, GivesOwner
      <3>2. ~Slot!Promised
        BY <2>4 DEF Slot!Promised, Served, Service
      <3>3. Slot!Promise(h)
        BY <2>1, <2>2, <3>1, <3>2 DEF Slot!Promise
      <3> QED BY <2>3, <3>1, <3>3 DEF Slot!Next
    <2>6. CASE job[h] = "route"
      <3>1. \A d \in Clients : ~HandOver(d)'
        BY <1>0, <1>1, <2>6 DEF HandOver, Holds, taskVars
      <3>2. \A d \in Clients : Service(d)' = Service(d) /\ want'[d] = want[d]
        BY <1>1, <2>4, <3>1 DEF Service, Streaming, taskVars
      <3> QED BY <2>2, <2>3, <3>2, SlotStutters
    <2> QED BY <1>0, <2>5, <2>6
  <1>2. CASE active # NoProc /\ BeginShutdown(h, "spawn")
    BY <1>0, <1>2, BeginShutdownMaps
  <1>3. CASE active = NoProc /\ phase' = "spawn" /\ UNCHANGED <<active, procVars, taskVars>>
    <2>1. UNCHANGED <<Stage, Occupant>>
      BY <1>3, CalmKept DEF procVars
    <2> QED BY <1>0, <1>3, <2>1, PhaseGoesOn
  <1> QED BY <1>1, <1>2, <1>3 DEF EnsureEnters

(* The lock is handed on with no suspension of its owner.                    *)
LEMMA HandsOn ==
  ASSUME NEW h \in Tasks, ReleaseAndAcquire(h) PROVE phase' = "enter"
  BY DEF ReleaseAndAcquire

LEMMA RouteReturnsMaps ==
  ASSUME SInv, NEW h \in Tasks, RouteReturns(h)
  PROVE  [Slot!Next]_(Slot!vars) /\ Asked'
  <1>1. /\ lifeOwner = h /\ phase = "return" /\ job[h] = "route"
        /\ phase' = "enter" /\ UNCHANGED <<active, procVars, pc, want, proc>>
    BY HandsOn DEF RouteReturns, Holds
  <1>2. TaskFrame(h)
    BY <1>1, OwnerFacts DEF RouteReturns, TaskFrame, TaskType
  <1>3. UNCHANGED <<Stage, Occupant>>
    BY <1>1, CalmKept DEF procVars
  <1>4. ~Streaming(h)' /\ Asked'
    BY <1>1, OwnerFacts DEF Streaming, Asked
  <1> QED BY <1>1, <1>2, <1>3, <1>4, OwnerGoesOn

LEMMA SynthReturnsMaps ==
  ASSUME SInv, NEW h \in Tasks, SynthReturns(h)
  PROVE  [Slot!Next]_(Slot!vars) /\ Asked'
  <1>0. /\ lifeOwner = h /\ phase = "return" /\ job[h] = "synth" /\ Release
        /\ UNCHANGED <<active, procVars, want>>
        /\ proc' = [proc EXCEPT ![h] = active]
        /\ pc' = [pc EXCEPT ![h] = "request"]
    BY DEF SynthReturns, Holds
  <1>1. /\ TaskType /\ TaskShape /\ Asked /\ LifeType /\ LockShape /\ PhaseActive
        /\ h \in Clients /\ pc[h] = "life"
    BY <1>0, OwnerFacts DEF TaskShape
  <1>2. phase' \in {"free", "enter"}
    BY <1>0, <1>1, ReleaseType
  <1>3. TaskFrame(h) /\ pc'[h] = "request" /\ proc'[h] = active
    BY <1>0, <1>1, TasksFacts DEF SynthReturns, TaskFrame, TaskType
  <1>4. \A d \in Clients : ~HandOver(d)'
    BY <1>2, NoHandOver
  <1>5. Service(h)' = "slot"
    BY <1>0, <1>1, <1>3, <1>4 DEF Service, Streaming
  <1>6. Service(h) = "promised"
    BY <1>0 DEF Service, HandOver, Holds
  <1>7. \A d \in Clients \ {h} : Service(d)' = Service(d)
    <2>1. \A d \in Clients \ {h} : ~HandOver(d)
      BY <1>0 DEF HandOver, Holds
    <2> QED BY <1>0, <1>3, <1>4, <2>1, OthersServed
  <1>8. Served' = [Served EXCEPT ![h] = "slot"] /\ Served[h] = "promised"
    BY <1>1, <1>5, <1>6, <1>7 DEF Served
  <1>9. UNCHANGED <<Stage, Occupant>> /\ Wanted' = Wanted
    <2>1. UNCHANGED <<Stage, Occupant>>
      BY <1>0, <1>2, CalmKept DEF procVars
    <2>2. Wanted' = Wanted
      BY <1>0 DEF Wanted
    <2> QED BY <2>1, <2>2
  <1>10. Slot!Serve(h)
    BY <1>8, <1>9 DEF Slot!Serve
  <1>11. Asked'
    BY <1>0, <1>1, <1>3, AskedFrame DEF Asked
  <1> QED BY <1>1, <1>10, <1>11 DEF Slot!Next

(* The owner is answered and the lock handed on.                             *)
LEMMA ReleaseFinishMaps ==
  ASSUME SInv, NEW h \in Tasks, lifeOwner = h, Release, Finish(h),
         phase \in {"enter", "walk", "listed", "return"},
         UNCHANGED <<active, procs>>
  PROVE  [Slot!Next]_(Slot!vars) /\ Asked'
  <1>0. TaskType /\ LifeType /\ LockShape /\ Asked /\ pc[h] = "life"
    BY OwnerFacts
  <1>1. phase' \in {"free", "enter"}
    BY <1>0, ReleaseType
  <1>2. UNCHANGED <<Stage, Occupant>>
    BY <1>1, CalmKept
  <1>3. TaskFrame(h) /\ pc'[h] = "idle" /\ want'[h] = NoOne
    BY <1>0, FinishFrame DEF Finish, TaskType
  <1>4. Asked'
    BY <1>0, <1>3, AskedFrame
  <1> QED BY <1>1, <1>2, <1>3, <1>4, OwnerLeaves

LEMMA VoiceGoneMaps ==
  ASSUME SInv, NEW h \in Tasks, VoiceGone(h)
  PROVE  [Slot!Next]_(Slot!vars) /\ Asked'
  BY ReleaseFinishMaps DEF VoiceGone, Holds, procVars

LEMMA EnumerateEntersMaps ==
  ASSUME SInv, NEW h \in Tasks, EnumerateEnters(h)
  PROVE  [Slot!Next]_(Slot!vars) /\ Asked'
  <1>1. /\ lifeOwner = h /\ phase = "enter" /\ phase' = "walk"
        /\ UNCHANGED <<active, procs>> /\ UNCHANGED taskVars
    BY DEF EnumerateEnters, Holds, procVars
  <1>2. UNCHANGED <<Stage, Occupant>>
    BY <1>1, CalmKept
  <1> QED BY <1>1, <1>2, PhaseGoesOn

LEMMA EnumerateVisitsMaps ==
  ASSUME SInv, NEW h \in Tasks, EnumerateVisits(h)
  PROVE  [Slot!Next]_(Slot!vars) /\ Asked'
  <1>0. lifeOwner = h /\ phase = "walk"
    BY DEF EnumerateVisits, Holds
  <1>1. CASE UNCHANGED <<active, procVars, lifeVars, taskVars>>
    <2>1. phase' = "walk" /\ UNCHANGED <<active, procs>> /\ UNCHANGED taskVars
      BY <1>0, <1>1 DEF lifeVars, procVars
    <2>2. UNCHANGED <<Stage, Occupant>>
      BY <1>0, <2>1, CalmKept
    <2> QED BY <1>0, <2>1, <2>2, PhaseGoesOn
  <1>2. CASE active # NoProc /\ BeginShutdown(h, "spawn")
    BY <1>0, <1>2, BeginShutdownMaps
  <1>3. CASE active = NoProc /\ phase' = "spawn" /\ UNCHANGED <<active, procVars, taskVars>>
    <2>1. UNCHANGED <<Stage, Occupant>>
      BY <1>3, CalmKept DEF procVars
    <2> QED BY <1>0, <1>3, <2>1, PhaseGoesOn
  <1> QED BY <1>1, <1>2, <1>3 DEF EnumerateVisits

LEMMA EnumerateListedMaps ==
  ASSUME SInv, NEW h \in Tasks, EnumerateListed(h)
  PROVE  [Slot!Next]_(Slot!vars) /\ Asked'
  <1>1. lifeOwner = h /\ phase = "listed" /\ BeginShutdown(h, "next")
    BY DEF EnumerateListed, Holds
  <1>2. active # NoProc
    BY <1>1, OwnerFacts DEF PhaseActive
  <1> QED BY <1>1, <1>2, BeginShutdownMaps

LEMMA EnumerateReturnsMaps ==
  ASSUME SInv, NEW h \in Tasks, EnumerateReturns(h)
  PROVE  [Slot!Next]_(Slot!vars) /\ Asked'
  <1>0. /\ lifeOwner = h /\ phase = "walk" /\ UNCHANGED <<active, procs>>
        /\ TaskType /\ Asked /\ pc[h] = "life" /\ ~Streaming(h)
    BY OwnerFacts DEF EnumerateReturns, Holds, procVars
  <1>1. CASE /\ ReleaseAndAcquire(h) /\ UNCHANGED <<pc, want, proc>>
             /\ UNCHANGED target \/ target' = [target EXCEPT ![h] = want[h]]
             /\ \E j \in Jobs : job' = [job EXCEPT ![h] = j]
    <2>1. phase' = "enter"
      BY <1>1, HandsOn
    <2>2. TaskFrame(h)
      BY <1>0, <1>1 DEF TaskFrame, TaskType
    <2>3. UNCHANGED <<Stage, Occupant>>
      BY <1>0, <2>1, CalmKept
    <2>4. ~Streaming(h)' /\ Asked'
      BY <1>0, <1>1 DEF Streaming, Asked
    <2> QED BY <1>0, <1>1, <2>1, <2>2, <2>3, <2>4, OwnerGoesOn
  <1>2. CASE Release /\ Finish(h)
    BY <1>0, <1>2, ReleaseFinishMaps
  <1> QED BY <1>1, <1>2 DEF EnumerateReturns, Jobs

LEMMA IdleEntersMaps ==
  ASSUME SInv, NEW h \in Tasks, IdleEnters(h)
  PROVE  [Slot!Next]_(Slot!vars) /\ Asked'
  <1>0. lifeOwner = h /\ phase = "enter"
    BY DEF IdleEnters, Holds
  <1>1. CASE active # NoProc /\ BeginShutdown(h, "release")
    BY <1>0, <1>1, BeginShutdownMaps
  <1>2. CASE Release /\ Finish(h) /\ UNCHANGED <<active, procVars>>
    BY <1>0, <1>2, ReleaseFinishMaps DEF procVars
  <1> QED BY <1>1, <1>2 DEF IdleEnters

LEMMA HolderStepMaps ==
  ASSUME SInv, NEW h \in Tasks, HolderStep(h)
  PROVE  [Slot!Next]_(Slot!vars) /\ Asked'
  BY ShutdownReadsMaps, ShutdownReapsMaps, ExecMaps, SpawnRaisesMaps,
     WarmupSucceedsMaps, WarmupFailsMaps, KillMaps, EnsureEntersMaps,
     RouteReturnsMaps, SynthReturnsMaps, VoiceGoneMaps, EnumerateEntersMaps,
     EnumerateVisitsMaps, EnumerateListedMaps, EnumerateReturnsMaps,
     IdleEntersMaps DEF HolderStep

-----------------------------------------------------------------------------
(* A task asks for the lock, the streams, and what is around them.           *)

(* A task that was idle asks: nobody is served otherwise than before.        *)
LEMMA AsksKeeps ==
  ASSUME SInv, NEW t \in Tasks, pc[t] = "idle", Acquire(t), TaskFrame(t),
         pc'[t] = "life", UNCHANGED <<active, procs>>
  PROVE  /\ UNCHANGED <<Stage, Occupant>>
         /\ \A d \in Clients : Service(d)' = Service(d)
         /\ \A d \in Clients \ {t} : want'[d] = want[d]
  <1>0. RInv /\ LockShape /\ LockQueue
    BY TypesOf DEF SInv, RInv
  <1>1. \/ lifeOwner = NoOne /\ phase = "free" /\ lifeOwner' = t /\ phase' = "enter"
        \/ lifeOwner # NoOne /\ UNCHANGED <<lifeOwner, phase>>
    BY <1>0 DEF Acquire, LockShape
  <1>2. UNCHANGED <<Stage, Occupant>>
    BY <1>1, StageKept
  <1>3. lifeOwner # t
    BY <1>0, TasksFacts DEF LockQueue
  <1>4. \A d \in Clients \ {t} : HandOver(d)' <=> HandOver(d)
    BY <1>1, TasksFacts DEF HandOver, Holds, TaskFrame
  <1>5. \A d \in Clients \ {t} : Service(d)' = Service(d) /\ want'[d] = want[d]
    BY <1>4, OthersServed
  <1>6. Service(t) = "no" /\ Service(t)' = "no"
    BY <1>1, <1>3 DEF Service, HandOver, Holds, Streaming
  <1> QED BY <1>2, <1>5, <1>6

LEMMA ConnectMaps ==
  ASSUME SInv, NEW c \in Clients, Connect(c)
  PROVE  [Slot!Next]_(Slot!vars) /\ Asked'
  <1>0. TaskType /\ Asked /\ c \in Tasks
    BY TypesOf, TasksFacts DEF SInv
  <1>1. PICK w \in Providers : want' = [want EXCEPT ![c] = w]
    BY DEF Connect
  <1>2. /\ pc[c] = "idle" /\ pc' = [pc EXCEPT ![c] = "life"] /\ Acquire(c)
        /\ UNCHANGED <<active, procs>>
    BY DEF Connect, procVars
  <1>3. TaskFrame(c) /\ pc'[c] = "life" /\ want'[c] = w
    BY <1>0, <1>1, <1>2 DEF TaskFrame, TaskType, Connect
  <1>4. /\ UNCHANGED <<Stage, Occupant>>
        /\ \A d \in Clients : Service(d)' = Service(d)
        /\ \A d \in Clients \ {c} : want'[d] = want[d]
    BY <1>0, <1>2, <1>3, AsksKeeps
  <1>5. Wanted[c] = NoOne
    BY <1>0, <1>2 DEF Asked, Wanted
  <1>6. Served' = Served
    BY <1>4 DEF Served
  <1>7. Wanted' = [Wanted EXCEPT ![c] = w]
    <2>1. \A d \in Clients : want'[d] = IF d = c THEN w ELSE want[d]
      BY <1>3, <1>4
    <2>2. /\ Wanted' = [d \in Clients |-> want'[d]]
          /\ [Wanted EXCEPT ![c] = w] = [d \in Clients |-> IF d = c THEN w ELSE want[d]]
      BY DEF Wanted
    <2> QED BY <2>1, <2>2
  <1>8. Slot!Ask(c)
    BY <1>1, <1>4, <1>5, <1>6, <1>7 DEF Slot!Ask
  <1>9. Asked'
    <2>1. w # NoOne
      BY SupervisorAssumption
    <2> QED BY <1>0, <1>3, <2>1, AskedFrame
  <1> QED BY <1>8, <1>9 DEF Slot!Next

LEMMA AsksElseMaps ==
  ASSUME SInv, NEW t \in Tasks, t \notin Clients, pc[t] = "idle", Acquire(t),
         TaskFrame(t), pc'[t] = "life", UNCHANGED <<active, procs>>
  PROVE  [Slot!Next]_(Slot!vars) /\ Asked'
  <1>1. Asked'
    BY AskedFrame DEF SInv
  <1>2. /\ UNCHANGED <<Stage, Occupant>>
        /\ \A d \in Clients : Service(d)' = Service(d) /\ want'[d] = want[d]
    BY AsksKeeps
  <1> QED BY <1>1, <1>2, SlotStutters

LEMMA ControlMaps ==
  ASSUME SInv, NEW t \in Controls, Control(t)
  PROVE  [Slot!Next]_(Slot!vars) /\ Asked'
  <1>0. TaskType /\ t \in Tasks /\ t \notin Clients
    BY TypesOf, TasksFacts, SupervisorAssumption DEF SInv
  <1>1. /\ pc[t] = "idle" /\ Acquire(t) /\ UNCHANGED <<active, procs>>
        /\ pc' = [pc EXCEPT ![t] = "life"]
    BY DEF Control, procVars
  <1>2. TaskFrame(t) /\ pc'[t] = "life"
    BY <1>0, <1>1 DEF TaskFrame, TaskType, Control
  <1> QED BY <1>0, <1>1, <1>2, AsksElseMaps

LEMMA IdleTickMaps ==
  ASSUME SInv, IdleTick
  PROVE  [Slot!Next]_(Slot!vars) /\ Asked'
  <1>0. TaskType /\ Idle \in Tasks /\ Idle \notin Clients
    BY TypesOf, TasksFacts, SupervisorAssumption DEF SInv
  <1>1. /\ pc[Idle] = "idle" /\ Acquire(Idle) /\ UNCHANGED <<active, procs>>
        /\ pc' = [pc EXCEPT ![Idle] = "life"]
    BY DEF IdleTick, procVars
  <1>2. TaskFrame(Idle) /\ pc'[Idle] = "life"
    BY <1>0, <1>1 DEF TaskFrame, TaskType, IdleTick
  <1> QED BY <1>0, <1>1, <1>2, AsksElseMaps

(* A stream's step beside the lifecycle lock: the others are served as       *)
(* before.                                                                   *)
LEMMA StreamOthers ==
  ASSUME NEW c \in Clients, TaskFrame(c), UNCHANGED <<active, lifeOwner, phase>>
  PROVE  \A d \in Clients \ {c} : Service(d)' = Service(d) /\ want'[d] = want[d]
  <1>1. \A d \in Clients \ {c} : HandOver(d)' <=> HandOver(d)
    BY TasksFacts DEF HandOver, Holds, TaskFrame
  <1> QED BY <1>1, OthersServed, TasksFacts

(* A stream is suspended again.                                              *)
LEMMA SuspendMaps ==
  ASSUME SInv, NEW c \in Clients, Streaming(c),
         Suspend(c, "draining") \/ Suspend(c, "reading") \/ Suspend(c, "yielded"),
         UNCHANGED <<active, lifeOwner, phase>>
  PROVE  /\ Served' = Served /\ Wanted' = Wanted /\ Asked'
         /\ \A d \in Clients : Service(d)' = Service(d) /\ want'[d] = want[d]
  <1>0. TaskType /\ Asked /\ RInv /\ IInv
    BY TypesOf DEF SInv
  <1>1. TaskFrame(c) /\ pc'[c] \in {"draining", "reading", "yielded"}
    BY <1>0, TasksFacts DEF TaskType, TaskFrame, Suspend
  <1>2. UNCHANGED <<proc, want, job>>
    BY DEF Suspend
  <1>3. ~HandOver(c) /\ ~HandOver(c)'
    BY <1>0, <1>2, StreamService DEF HandOver, Holds
  <1>4. Service(c)' = Service(c)
    BY <1>1, <1>2, <1>3 DEF Service, Streaming
  <1>5. \A d \in Clients : Service(d)' = Service(d) /\ want'[d] = want[d]
    BY <1>1, <1>2, <1>4, StreamOthers
  <1>6. Served' = Served
    BY <1>5 DEF Served
  <1>7. Wanted' = Wanted
    BY <1>2 DEF Wanted
  <1>8. Asked'
    BY <1>0, <1>1, <1>2, TasksFacts, AskedFrame DEF Asked, Streaming
  <1> QED BY <1>5, <1>6, <1>7, <1>8

(* A stream ends: its client is answered, and the place is as it was.        *)
LEMMA EndExchangeMaps ==
  ASSUME SInv, NEW c \in Clients, Streaming(c), NEW object,
         object.name = procs[proc[c]].name, object.state = procs[proc[c]].state,
         EndExchange(c, object), UNCHANGED <<active, lifeOwner, phase>>
  PROVE  [Slot!Next]_(Slot!vars) /\ Asked'
  <1>0. /\ TaskType /\ Asked /\ RInv /\ IInv /\ c \in Tasks /\ proc[c] \in Slots
        /\ procs \in [Slots -> Objects] /\ active \in Slots \cup {NoProc}
    BY TypesOf, TasksFacts DEF SInv, TaskShape
  <1>1. TaskFrame(c) /\ pc'[c] = "idle" /\ want'[c] = NoOne
    BY <1>0, FinishFrame DEF EndExchange, Finish, TaskType
  <1>2. active # NoProc => /\ procs'[active].name = procs[active].name
                           /\ procs'[active].state = procs[active].state
    <2>1. CASE proc[c] = active
      BY <1>0, <2>1 DEF EndExchange
    <2>2. CASE proc[c] # active
      BY <1>0, <2>2 DEF EndExchange
    <2> QED BY <2>1, <2>2
  <1>3. UNCHANGED <<Stage, Occupant>>
    BY <1>2, StageKept
  <1>4. want[c] # NoOne
    BY <1>0 DEF Asked, Streaming
  <1>5. ~HandOver(c)'
    BY <1>0, StreamService DEF HandOver, Holds
  <1>6. Service(c)' = "no"
    BY <1>1, <1>5 DEF Service, Streaming
  <1>7. Asked'
    BY <1>0, <1>1, AskedFrame
  <1> QED BY <1>1, <1>3, <1>4, <1>6, <1>7, StreamOthers, SlotAnswers

LEMMA BeginExchangeMaps ==
  ASSUME SInv, NEW c \in Clients, BeginExchange(c)
  PROVE  [Slot!Next]_(Slot!vars) /\ Asked'
  <1>0. /\ pc[c] = "request" /\ Streaming(c) /\ proc[c] \in Slots
        /\ procs \in [Slots -> Objects] /\ procs[proc[c]] \in Objects
        /\ UNCHANGED <<active, lifeOwner, phase>>
    BY StreamFacts DEF BeginExchange, SInv, lifeVars
  <1>1. /\ Requested(proc[c], procs[proc[c]]).name = procs[proc[c]].name
        /\ Requested(proc[c], procs[proc[c]]).state = procs[proc[c]].state
    BY <1>0, RequestedFacts
  <1>2. CASE /\ Suspend(c, "reading") \/ Suspend(c, "draining")
             /\ \/ procs' = procs
                \/ procs' = [procs EXCEPT ![proc[c]] = Requested(proc[c], procs[proc[c]])]
    <2>1. active # NoProc => /\ procs'[active].name = procs[active].name
                             /\ procs'[active].state = procs[active].state
      BY <1>0, <1>1, <1>2, TypesOf DEF SInv
    <2>2. UNCHANGED <<Stage, Occupant>>
      BY <1>0, <2>1, StageKept
    <2> QED BY <1>0, <1>2, <2>2, SuspendMaps, SlotStutters
  <1>3. CASE EndExchange(c, IF procs[proc[c]].dirty THEN [procs[proc[c]] EXCEPT !.dirty = FALSE]
                            ELSE Requested(proc[c], procs[proc[c]]))
    <2> DEFINE object == IF procs[proc[c]].dirty THEN [procs[proc[c]] EXCEPT !.dirty = FALSE]
                         ELSE Requested(proc[c], procs[proc[c]])
    <2>1. object.name = procs[proc[c]].name /\ object.state = procs[proc[c]].state
      BY <1>0, <1>1 DEF Objects
    <2>2. EndExchange(c, object)
      BY <1>3
    <2> HIDE DEF object
    <2> QED BY <1>0, <2>1, <2>2, EndExchangeMaps
  <1> QED BY <1>2, <1>3 DEF BeginExchange

LEMMA DrainMaps ==
  ASSUME SInv, NEW c \in Clients, Drain(c)
  PROVE  [Slot!Next]_(Slot!vars) /\ Asked'
  <1>0. /\ pc[c] = "draining" /\ Streaming(c) /\ proc[c] \in Slots
        /\ procs \in [Slots -> Objects] /\ procs[proc[c]] \in Objects
        /\ UNCHANGED <<active, lifeOwner, phase>> /\ Suspend(c, "reading")
    BY StreamFacts DEF Drain, SInv, lifeVars
  <1>1. /\ Served' = Served /\ Wanted' = Wanted /\ Asked'
        /\ \A d \in Clients : Service(d)' = Service(d) /\ want'[d] = want[d]
    BY <1>0, SuspendMaps
  <1>2. PICK o \in Objects :
          /\ procs' = [procs EXCEPT ![proc[c]] = o]
          /\ o.name = procs[proc[c]].name
          /\ o.state \in {procs[proc[c]].state, "FAILED"}
    <2>1. CASE /\ procs[proc[c]].owed > 0
               /\ procs' = [procs EXCEPT ![proc[c]] =
                    Requested(proc[c], [procs[proc[c]] EXCEPT !.owed = @ - 1])]
      <3> DEFINE r == [procs[proc[c]] EXCEPT !.owed = @ - 1]
                 n == Requested(proc[c], r)
      <3>1. r \in Objects /\ r.name = procs[proc[c]].name /\ r.state = procs[proc[c]].state
        BY <1>0, <2>1 DEF Objects
      <3>2. procs' = [procs EXCEPT ![proc[c]] = n]
        BY <2>1
      <3> HIDE DEF r
      <3>3. n \in Objects /\ n.name = r.name /\ n.state = r.state
        BY <1>0, <3>1, RequestedFacts
      <3> HIDE DEF n
      <3> QED BY <3>1, <3>2, <3>3
    <2>2. CASE procs' = [procs EXCEPT ![proc[c]] =
                    Requested(proc[c], [procs[proc[c]] EXCEPT !.state = "FAILED"])]
      <3> DEFINE r == [procs[proc[c]] EXCEPT !.state = "FAILED"]
                 n == Requested(proc[c], r)
      <3>1. r \in Objects /\ r.name = procs[proc[c]].name /\ r.state = "FAILED"
        BY <1>0 DEF Objects, ProcStates
      <3>2. procs' = [procs EXCEPT ![proc[c]] = n]
        BY <2>2
      <3> HIDE DEF r
      <3>3. n \in Objects /\ n.name = r.name /\ n.state = r.state
        BY <1>0, <3>1, RequestedFacts
      <3> HIDE DEF n
      <3> QED BY <3>1, <3>2, <3>3
    <2> QED BY <2>1, <2>2 DEF Drain
  <1>3. CASE /\ proc[c] = active /\ o.state # procs[proc[c]].state
             /\ Stage = "ready"
    <2>1. active # NoProc /\ procs'[active].name = procs[active].name
          /\ procs'[active].state = "FAILED"
      BY <1>0, <1>2, <1>3, TasksFacts
    <2>2. Stage' = "failed" /\ Occupant' = Occupant
      BY <1>0, <1>3, <2>1 DEF Stage, Occupant
    <2>3. Slot!Using
      <3>1. Service(c) = "slot"
        BY <1>0, <1>3, StreamService DEF SInv
      <3> QED BY <3>1 DEF Slot!Using, Served
    <2>4. Slot!Fail
      BY <1>1, <1>3, <2>2, <2>3 DEF Slot!Fail
    <2> QED BY <1>1, <2>4 DEF Slot!Next
  <1>4. CASE proc[c] # active \/ o.state = procs[proc[c]].state
    <2>1. active # NoProc => /\ procs'[active].name = procs[active].name
                             /\ procs'[active].state = procs[active].state
      BY <1>0, <1>2, <1>4, TypesOf DEF SInv
    <2> QED BY <1>0, <1>1, <2>1, StageKept, SlotStutters
  <1>5. CASE proc[c] = active /\ o.state = "FAILED" /\ Stage # "ready"
    <2>1. active # NoProc /\ procs'[active].name = procs[active].name
          /\ procs'[active].state = "FAILED"
      BY <1>0, <1>2, <1>5, TasksFacts
    <2>2. UNCHANGED <<Stage, Occupant>>
      BY <1>0, <1>5, <2>1 DEF Stage, Occupant
    <2> QED BY <1>1, <2>2, SlotStutters
  <1> QED BY <1>2, <1>3, <1>4, <1>5

LEMMA StreamStepMaps ==
  ASSUME SInv, NEW c \in Clients, StreamStep(c)
  PROVE  [Slot!Next]_(Slot!vars) /\ Asked'
  <1>1. CASE BeginExchange(c)
    BY <1>1, BeginExchangeMaps
  <1>2. CASE Drain(c)
    BY <1>2, DrainMaps
  <1>3. CASE /\ pc[c] \in {"reading", "yielded"} /\ UNCHANGED <<active, procs, lifeVars>>
             /\ Suspend(c, "reading") \/ Suspend(c, "yielded")
    <2>1. Streaming(c) /\ UNCHANGED <<active, lifeOwner, phase>>
      BY <1>3 DEF Streaming, lifeVars
    <2>2. UNCHANGED <<Stage, Occupant>>
      BY <1>3, <2>1, StageKept
    <2> QED BY <1>3, <2>1, <2>2, SuspendMaps, SlotStutters
  <1>4. CASE /\ pc[c] \in {"reading", "yielded"} /\ UNCHANGED <<active, lifeVars>>
             /\ EndExchange(c, procs[proc[c]])
    <2>1. Streaming(c) /\ UNCHANGED <<active, lifeOwner, phase>>
      BY <1>4 DEF Streaming, lifeVars
    <2> QED BY <1>4, <2>1, EndExchangeMaps
  <1>5. CASE StreamEnds(c)
    <2>1. /\ Streaming(c) /\ UNCHANGED <<active, lifeOwner, phase>>
          /\ procs[proc[c]] \in Objects /\ procs[proc[c]].owed > 0
      BY <1>5, StreamFacts DEF StreamEnds, lifeVars, SInv
    <2>2. PICK e \in BOOLEAN :
            EndExchange(c, [procs[proc[c]] EXCEPT !.owed = @ - 1, !.dirty = e])
      BY <1>5 DEF StreamEnds
    <2> DEFINE object == [procs[proc[c]] EXCEPT !.owed = @ - 1, !.dirty = e]
    <2>3. object.name = procs[proc[c]].name /\ object.state = procs[proc[c]].state
      BY <2>1 DEF Objects
    <2>4. EndExchange(c, object)
      BY <2>2
    <2> HIDE DEF object
    <2> QED BY <2>1, <2>3, <2>4, EndExchangeMaps
  <1> QED BY <1>1, <1>2, <1>3, <1>4, <1>5 DEF StreamStep, Chunk, Eof, Resume

LEMMA AroundMaps ==
  ASSUME SInv, UNCHANGED <<active, procs, lifeVars, taskVars>>
  PROVE  [Slot!Next]_(Slot!vars) /\ Asked'
  <1>1. UNCHANGED <<Stage, Occupant>>
    BY StageKept DEF lifeVars
  <1>2. \A d \in Clients : Service(d)' = Service(d) /\ want'[d] = want[d]
    BY DEF Service, HandOver, Holds, Streaming, lifeVars, taskVars
  <1>3. Asked'
    BY DEF SInv, Asked, taskVars
  <1> QED BY <1>1, <1>2, <1>3, SlotStutters

LEMMA NextMaps == SInv /\ [Next]_vars => [Slot!Next]_(Slot!vars) /\ Asked'
  <1> SUFFICES ASSUME SInv, [Next]_vars PROVE [Slot!Next]_(Slot!vars) /\ Asked'
    OBVIOUS
  <1>1. CASE \E c \in Clients : Connect(c) \/ StreamStep(c)
    BY <1>1, ConnectMaps, StreamStepMaps
  <1>2. CASE \E t \in Controls : Control(t)
    BY <1>2, ControlMaps
  <1>3. CASE IdleTick
    BY <1>3, IdleTickMaps
  <1>4. CASE \E h \in Tasks : HolderStep(h)
    BY <1>4, HolderStepMaps
  <1>5. CASE Age \/ \E p \in Slots : Exit(p) \/ Crash(p)
    BY <1>5, AroundMaps DEF Age, Exit, Crash, procVars
  <1>6. CASE UNCHANGED vars
    BY <1>6, AroundMaps DEF vars, procVars
  <1> QED BY <1>1, <1>2, <1>3, <1>4, <1>5, <1>6 DEF Next

(* The supervisor keeps the promise of ProviderSlot, whatever interleaves at *)
(* its locks and whatever fails: a provider is started only in an empty      *)
(* place, none that failed is promised, what was promised is not taken away  *)
(* before it is handed over, and it is given to its voice's clients alone    *)
(* (supervisor.py:337-360, 546-623).                                         *)
THEOREM SupervisorKeepsPlace == Spec => SlotPromise
  <1>1. Init => Slot!Init /\ Asked
    <2> SUFFICES ASSUME Init PROVE Slot!Init /\ Asked
      OBVIOUS
    <2>1. \A c \in Clients : Service(c) = "no"
      BY TasksFacts DEF Init, Service, HandOver, Holds, Streaming
    <2>2. Wanted = [c \in Clients |-> NoOne]
      BY TasksFacts DEF Init, Wanted
    <2>3. Stage = "empty" /\ Occupant = NoOne
      BY DEF Init, Stage, Occupant
    <2>4. Served = [c \in Clients |-> "no"]
      BY <2>1 DEF Served
    <2>5. Asked
      BY TasksFacts DEF Init, Asked
    <2> QED BY <2>2, <2>3, <2>4, <2>5 DEF Slot!Init
  <1>2. IInv /\ RInv /\ Asked /\ [Next]_vars => [Slot!Next]_(Slot!vars) /\ Asked'
    BY NextMaps DEF SInv
  <1> QED BY <1>1, <1>2, RoutingInvariant, PTL DEF Spec, SlotPromise, Slot!Spec
================================================================================
