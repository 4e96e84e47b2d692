------------------------------ MODULE Supervisor ------------------------------
(***************************************************************************)
(* The life cycle of provider subprocesses, as one asyncio event loop runs *)
(* it (daemon/src/neural_tts_daemon/supervisor.py).                        *)
(*                                                                         *)
(* A step of this module is what one task does between two suspension      *)
(* points.  Tasks: synthesize connections (Clients), control connections   *)
(* (Controls) and the idle loop (Idle).  They meet at the lifecycle lock,  *)
(* at one request lock per provider process, and at the process's stream   *)
(* reader, which only one task may wait on.                                *)
(*                                                                         *)
(* A provider process lives in a slot.  A slot is reused once its child is *)
(* dead and no task refers to it, so the number of spawns is not bounded.  *)
(* The frames of a stream are abstracted to owed[p], the number of         *)
(* audio_end frames that process p still owes its reader; module Exchange  *)
(* has the frames themselves.                                              *)
(***************************************************************************)
EXTENDS Naturals, Sequences, FiniteSets

CONSTANTS
  Registry,        \* the provider names, in the order enumeration walks them
  Installed,       \* those whose venv exists
  Clients,         \* connections on the speechd socket
  Controls,        \* connections on the control socket
  Idle,            \* the idle loop's task
  NoOne,           \* no task, no provider
  IdleEviction,    \* idle_timeout_seconds > 0
  Slots,           \* process slots, a set of positive numbers
  MaxCrashes,      \* bound: children that die on their own
  MaxStartFailures \* bound: exec or warmup failures

Providers == {Registry[i] : i \in 1..Len(Registry)}
Tasks     == Clients \cup Controls \cup {Idle}
NoProc    == 0

ASSUME SupervisorAssumption ==
  /\ Registry \in Seq(Providers)
  /\ \A i, j \in 1..Len(Registry) : Registry[i] = Registry[j] => i = j
  /\ Installed \subseteq Providers
  /\ NoOne \notin Tasks \cup Providers
  /\ Clients \cap Controls = {} /\ Idle \notin Clients \cup Controls
  /\ Slots \subseteq Nat \ {NoProc} /\ IdleEviction \in BOOLEAN
  /\ MaxCrashes \in Nat /\ MaxStartFailures \in Nat

VARIABLES
  \* the processes
  active,          \* self._active: a slot or NoProc
  procs,           \* the _ProviderProcess in each slot: name, state, dirty
                   \* (needs_drain), and owed, the audio_end frames written or
                   \* to come that nobody has read
  child,           \* the operating-system process: "leaving" is alive, but a
                   \* ShutdownRequest was written to it
  reader,          \* the task suspended in a read of proc.reader
  reqOwner,        \* proc.request_lock: its owner ...
  reqQueue,        \* ... and its waiters, in arrival order
  aged,            \* idle_for_seconds() >= idle_timeout_seconds
  \* the lifecycle lock and what its owner is doing
  lifeOwner, lifeQueue,
  phase,
  after,           \* where the owner goes on when a shutdown is over
  enumAt,          \* enumerate_all_voices: the place in Registry it visits ...
  enumFound,       \* ... and the providers whose voices were obtained
  index,           \* providers with voices in the voice index
  \* the tasks
  pc,
  job,             \* what the task wants the lifecycle lock for
  want,            \* the provider its voice belongs to
  target,          \* ensure_ready's target
  proc,            \* the process synthesize works with
  \* the bounds
  crashes, startFailures

procVars  == <<procs, child, reader>>
lockVars  == <<reqOwner, reqQueue>>
lifeVars  == <<lifeOwner, lifeQueue, phase, after>>
enumVars  == <<enumAt, enumFound, index>>
taskVars  == <<pc, job, want, target, proc>>
boundVars == <<crashes, startFailures>>
vars == <<active, procVars, lockVars, aged, lifeVars, enumVars, taskVars,
          boundVars>>

ProcStates == {"STARTING", "READY", "SHUTTING_DOWN", "STOPPED", "FAILED"}
Phases == {"free", "enter", "walk", "spawn", "warm", "kill", "listed",
           "return", "downRead", "downReap"}
Jobs   == {"none", "populate", "list", "reload", "route", "synth", "evict"}
PCs    == {"idle", "life", "request", "draining", "reading", "yielded", "dead"}

(* A _ProviderProcess; NoObject is a slot whose process nobody refers to.    *)
Objects == [name : Providers \cup {NoOne}, state : ProcStates,
            dirty : BOOLEAN, owed : Nat]
NoObject == [name |-> NoOne, state |-> "STOPPED", dirty |-> FALSE, owed |-> 0]

TypeOK ==
  /\ active \in Slots \cup {NoProc}
  /\ procs \in [Slots -> Objects]
  /\ child \in [Slots -> {"running", "leaving", "dead"}]
  /\ aged \in BOOLEAN
  /\ reader \in [Slots -> Tasks \cup {NoOne}]
  /\ reqOwner \in [Slots -> Clients \cup {NoOne}]
  /\ reqQueue \in [Slots -> Seq(Clients)]
  /\ lifeOwner \in Tasks \cup {NoOne} /\ lifeQueue \in Seq(Tasks)
  /\ phase \in Phases /\ after \in {"spawn", "next", "release"}
  /\ enumAt \in Nat /\ enumFound \subseteq Providers
  /\ index \subseteq Providers
  /\ pc \in [Tasks -> PCs] /\ job \in [Tasks -> Jobs]
  /\ want \in [Tasks -> Providers \cup {NoOne}]
  /\ target \in [Tasks -> Providers \cup {NoOne}]
  /\ proc \in [Tasks -> Slots \cup {NoProc}]
  /\ crashes \in 0..MaxCrashes /\ startFailures \in 0..MaxStartFailures

Init ==
  /\ active = NoProc
  /\ procs = [p \in Slots |-> NoObject]
  /\ child = [p \in Slots |-> "dead"] /\ aged = FALSE
  /\ reader = [p \in Slots |-> NoOne]
  /\ reqOwner = [p \in Slots |-> NoOne] /\ reqQueue = [p \in Slots |-> <<>>]
  /\ lifeOwner = NoOne /\ lifeQueue = <<>>
  /\ phase = "free" /\ after = "release"
  /\ enumAt = 1 /\ enumFound = {} /\ index = {}
  /\ pc = [t \in Tasks |-> "idle"] /\ job = [t \in Tasks |-> "none"]
  /\ want = [t \in Tasks |-> NoOne] /\ target = [t \in Tasks |-> NoOne]
  /\ proc = [t \in Tasks |-> NoProc]
  /\ crashes = 0 /\ startFailures = 0

-----------------------------------------------------------------------------
(* The lifecycle lock.  asyncio.Lock hands itself to its first waiter, and   *)
(* a task that asks while others wait goes behind them.                      *)

Release ==
  IF lifeQueue = <<>>
  THEN lifeOwner' = NoOne /\ phase' = "free" /\ UNCHANGED lifeQueue
  ELSE /\ lifeOwner' = Head(lifeQueue) /\ phase' = "enter"
       /\ lifeQueue' = Tail(lifeQueue)

Acquire(t) ==
  IF lifeOwner = NoOne
  THEN lifeOwner' = t /\ phase' = "enter" /\ UNCHANGED lifeQueue
  ELSE lifeQueue' = Append(lifeQueue, t) /\ UNCHANGED <<lifeOwner, phase>>

(* A release and the next acquire of one task with no suspension between.    *)
ReleaseAndAcquire(t) ==
  /\ phase' = "enter"
  /\ IF lifeQueue = <<>>
     THEN lifeOwner' = t /\ UNCHANGED lifeQueue
     ELSE /\ lifeOwner' = Head(lifeQueue)
          /\ lifeQueue' = Append(Tail(lifeQueue), t)

Enumerating(t) == job[t] \in {"populate", "list", "reload"}
Holds(h, ph)   == lifeOwner = h /\ phase = ph

(* The connection is answered and closed, or the idle loop sleeps again.     *)
Finish(t) ==
  /\ pc' = [pc EXCEPT ![t] = "idle"] /\ job' = [job EXCEPT ![t] = "none"]
  /\ want' = [want EXCEPT ![t] = NoOne]
  /\ target' = [target EXCEPT ![t] = NoOne]
  /\ proc' = [proc EXCEPT ![t] = NoProc]

RaiseKeepsLock(h) ==      \* mutant: the idle loop dies with the lock
  /\ UNCHANGED <<lifeOwner, lifeQueue, phase, enumAt, want, target, proc>>
  /\ pc' = [pc EXCEPT ![h] = "dead"] /\ job' = [job EXCEPT ![h] = "none"]

(* Where an exception raised under the lifecycle lock ends: enumeration logs *)
(* it and visits the next provider, a connection answers with an error, the  *)
(* idle loop, which catches only CancelledError, is over.                    *)
Raise(h) ==
  \/ /\ Enumerating(h)
     /\ enumAt' = enumAt + 1 /\ phase' = "walk"
     /\ UNCHANGED <<lifeOwner, lifeQueue, taskVars>>
  \/ /\ job[h] \in {"route", "synth"}
     /\ Release /\ Finish(h) /\ UNCHANGED enumAt
  \/ /\ job[h] = "evict"
     /\ Release /\ UNCHANGED <<enumAt, want, target, proc>>
     /\ pc' = [pc EXCEPT ![h] = "dead"] /\ job' = [job EXCEPT ![h] = "none"]

-----------------------------------------------------------------------------
(* Tasks ask for the lifecycle lock.                                         *)

(* handle_speechd_connection up to its first suspension.                     *)
Connect(c) ==
  /\ pc[c] = "idle"
  /\ \E w \in Providers :
       /\ index = {} \/ w \in index
       /\ want' = [want EXCEPT ![c] = w]
       /\ job' = [job EXCEPT ![c] = IF index = {} THEN "populate" ELSE "route"]
       /\ target' = [target EXCEPT ![c] = IF index = {} THEN NoOne ELSE w]
  /\ pc' = [pc EXCEPT ![c] = "life"]
  /\ Acquire(c)
  /\ UNCHANGED <<active, procVars, lockVars, aged, after, enumVars, proc,
                 boundVars>>

(* control.py: reload-voices, and list-voices when the index is empty.       *)
Control(t) ==
  /\ pc[t] = "idle"
  /\ \E j \in {"reload", "list"} :
       /\ j = "list" => index = {}
       /\ job' = [job EXCEPT ![t] = j]
  /\ pc' = [pc EXCEPT ![t] = "life"]
  /\ Acquire(t)
  /\ UNCHANGED <<active, procVars, lockVars, aged, after, enumVars, want,
                 target, proc, boundVars>>

(* The idle loop's tick finds a provider to unload.                          *)
IdleTick ==
  /\ pc[Idle] = "idle"
  /\ active # NoProc /\ procs[active].state = "READY" /\ aged
  /\ job' = [job EXCEPT ![Idle] = "evict"]
  /\ pc' = [pc EXCEPT ![Idle] = "life"]
  /\ Acquire(Idle)
  /\ UNCHANGED <<active, procVars, lockVars, aged, after, enumVars, want,
                 target, proc, boundVars>>

-----------------------------------------------------------------------------
(* Shutting a provider down: _shutdown_locked around a shielded _do_shutdown *)

BeginShutdownKeepsActive(h, next) ==  \* mutant: no finally: _active = None
  /\ procs' = [procs EXCEPT ![active].state = "SHUTTING_DOWN"]
  /\ child' = [child EXCEPT ![active] = IF @ = "running" THEN "leaving" ELSE @]
  /\ IF reader[active] = NoOne
     THEN /\ reader' = [reader EXCEPT ![active] = h]
          /\ phase' = "downRead" /\ after' = next
          /\ UNCHANGED <<lifeOwner, lifeQueue, enumAt, taskVars>>
     ELSE Raise(h) /\ UNCHANGED <<reader, after>>
  /\ UNCHANGED <<active, aged, lockVars, enumFound, index, boundVars>>

(* The shutdown request is written and its reply awaited.  The reader allows *)
(* one waiter: when a stream is suspended in its read, the read of the reply *)
(* raises RuntimeError, which _do_shutdown does not catch.  The process is   *)
(* then neither waited for nor killed, and _active is cleared all the same.  *)
BeginShutdown(h, next) ==
  /\ procs' = [procs EXCEPT ![active].state = "SHUTTING_DOWN"]
  /\ child' = [child EXCEPT ![active] = IF @ = "running" THEN "leaving" ELSE @]
  /\ IF reader[active] = NoOne
     THEN /\ reader' = [reader EXCEPT ![active] = h]
          /\ phase' = "downRead" /\ after' = next
          /\ UNCHANGED <<active, lifeOwner, lifeQueue, enumAt, taskVars>>
     ELSE active' = NoProc /\ Raise(h) /\ UNCHANGED <<reader, after>>
  /\ aged' = (aged /\ active' # NoProc)
  /\ UNCHANGED <<lockVars, enumFound, index, boundVars>>

ShutdownReadsUnowed(h) ==   \* mutant: every frame counts as an audio_end
  /\ Holds(h, "downRead")
  /\ procs' = [procs EXCEPT ![active].owed = @ - 1]
  /\ reader' = [reader EXCEPT ![active] = NoOne]
  /\ phase' = "downReap"
  /\ UNCHANGED <<active, child, lockVars, aged, lifeOwner, lifeQueue, after,
                 enumVars, taskVars, boundVars>>

ShutdownReadsOrRaises(h) ==  \* mutant: the two seconds' timeout is not caught
  /\ Holds(h, "downRead")
  /\ reader' = [reader EXCEPT ![active] = NoOne]
  /\ active' = NoProc /\ aged' = FALSE
  /\ Raise(h)
  /\ UNCHANGED <<procs, child, lockVars, after, enumFound, index, boundVars>>

(* A frame arrives (whatever it is, a stream's last one included), or two    *)
(* seconds pass, or the stream ends.                                         *)
ShutdownReads(h) ==
  /\ Holds(h, "downRead")
  /\ \/ UNCHANGED procs
     \/ /\ procs[active].owed > 0
        /\ procs' = [procs EXCEPT ![active].owed = @ - 1]
  /\ reader' = [reader EXCEPT ![active] = NoOne]
  /\ phase' = "downReap"
  /\ UNCHANGED <<active, child, lockVars, aged, lifeOwner, lifeQueue, after,
                 enumVars, taskVars, boundVars>>

(* The object in slot p, unless no task but t refers to it.                  *)
Kept(t, p, object) ==
  IF \E u \in Tasks \ {t} : proc[u] = p THEN object ELSE NoObject

(* The child exits within five seconds or is killed.                         *)
ShutdownReaps(h) ==
  /\ Holds(h, "downReap")
  /\ child' = [child EXCEPT ![active] = "dead"]
  /\ procs' = [procs EXCEPT ![active] =
                 Kept(h, active, [@ EXCEPT !.state = "STOPPED"])]
  /\ active' = NoProc /\ aged' = FALSE /\ after' = "release"
  /\ \/ /\ after = "spawn" /\ phase' = "spawn"
        /\ UNCHANGED <<lifeOwner, lifeQueue, enumAt, taskVars>>
     \/ /\ after = "next" /\ phase' = "walk" /\ enumAt' = enumAt + 1
        /\ UNCHANGED <<lifeOwner, lifeQueue, taskVars>>
     \/ /\ after = "release" /\ Release /\ Finish(h) /\ UNCHANGED enumAt
  /\ UNCHANGED <<reader, lockVars, enumFound, index, boundVars>>

-----------------------------------------------------------------------------
(* Starting a provider: _spawn_locked and _warmup                            *)

SpawnName(h) == IF Enumerating(h) THEN Registry[enumAt] ELSE target[h]

FreeSlot(p) ==
  /\ p # active /\ child[p] = "dead"
  /\ \A t \in Tasks : proc[t] # p

(* The first free slot stands for the new process object.                    *)
Exec(h) ==
  /\ Holds(h, "spawn") /\ SpawnName(h) \in Installed
  /\ \E p \in Slots :
       /\ FreeSlot(p) /\ \A q \in Slots : q < p => ~FreeSlot(q)
       /\ procs' = [procs EXCEPT ![p] = [NoObject EXCEPT
                      !.name = SpawnName(h), !.state = "STARTING"]]
       /\ child' = [child EXCEPT ![p] = "running"]
       /\ reader' = [reader EXCEPT ![p] = h]
       /\ active' = p /\ aged' = FALSE
  /\ phase' = "warm"
  /\ UNCHANGED <<lockVars, lifeOwner, lifeQueue, after, enumVars, taskVars,
                 boundVars>>

(* The provider is not installed, or its interpreter cannot be executed.     *)
SpawnRaises(h) ==
  /\ Holds(h, "spawn")
  /\ SpawnName(h) \in Installed => startFailures < MaxStartFailures
  /\ startFailures' = IF SpawnName(h) \in Installed THEN startFailures + 1
                                                    ELSE startFailures
  /\ Raise(h)
  /\ UNCHANGED <<active, procVars, lockVars, aged, after, enumFound, index,
                 crashes>>

WarmupSucceeds(h) ==
  /\ Holds(h, "warm") /\ child[active] = "running"
  /\ procs' = [procs EXCEPT ![active].state = "READY"]
  /\ reader' = [reader EXCEPT ![active] = NoOne]
  /\ phase' = IF Enumerating(h) THEN "listed" ELSE "return"
  /\ enumFound' = IF Enumerating(h) THEN enumFound \cup {procs[active].name}
                                    ELSE enumFound
  /\ UNCHANGED <<active, child, lockVars, aged, lifeOwner, lifeQueue, after,
                 enumAt, index, taskVars, boundVars>>

(* An error reply or 120 s without one, or the child died.                   *)
WarmupFails(h) ==
  /\ Holds(h, "warm")
  /\ \/ child[active] = "dead" /\ UNCHANGED startFailures
     \/ /\ child[active] = "running" /\ startFailures < MaxStartFailures
        /\ startFailures' = startFailures + 1
  /\ procs' = [procs EXCEPT ![active].state = "FAILED"]
  /\ reader' = [reader EXCEPT ![active] = NoOne]
  /\ phase' = "kill"
  /\ UNCHANGED <<active, child, lockVars, aged, lifeOwner, lifeQueue, after,
                 enumVars, taskVars, crashes>>

KillSkipped(h) ==         \* mutant: the failed child is left running
  /\ Holds(h, "kill")
  /\ procs' = [procs EXCEPT ![active] = NoObject]
  /\ active' = NoProc /\ aged' = FALSE
  /\ Raise(h)
  /\ UNCHANGED <<child, reader, lockVars, after, enumFound, index, boundVars>>

Kill(h) ==
  /\ Holds(h, "kill")
  /\ child' = [child EXCEPT ![active] = "dead"]
  /\ procs' = [procs EXCEPT ![active] = NoObject]
  /\ active' = NoProc /\ aged' = FALSE
  /\ Raise(h)
  /\ UNCHANGED <<reader, lockVars, after, enumFound, index, boundVars>>

-----------------------------------------------------------------------------
(* ensure_ready                                                              *)

ActiveReady(name) ==
  active # NoProc /\ procs[active].name = name /\ procs[active].state = "READY"

EnsureEntersLate(h) ==    \* mutant: the target is read under the lock
  LET late == IF job[h] = "synth" /\ active # NoProc THEN procs[active].name
              ELSE target[h]
  IN
    /\ Holds(h, "enter") /\ job[h] \in {"route", "synth"}
    /\ \/ /\ ActiveReady(late) /\ phase' = "return"
          /\ UNCHANGED <<active, procVars, lockVars, aged, lifeOwner,
                         lifeQueue, after, enumVars, taskVars, boundVars>>
       \/ /\ active # NoProc /\ ~ActiveReady(late)
          /\ BeginShutdown(h, "spawn")
       \/ /\ active = NoProc /\ phase' = "spawn"
          /\ UNCHANGED <<active, procVars, lockVars, aged, lifeOwner,
                         lifeQueue, after, enumVars, taskVars, boundVars>>

EnsureEntersFailed(h) ==  \* mutant: the name is looked at, not the state
  /\ Holds(h, "enter") /\ job[h] \in {"route", "synth"}
  /\ \/ /\ active # NoProc /\ procs[active].name = target[h] /\ phase' = "return"
        /\ UNCHANGED <<active, procVars, lockVars, aged, lifeOwner, lifeQueue,
                       after, enumVars, taskVars, boundVars>>
     \/ /\ active # NoProc /\ procs[active].name # target[h]
        /\ BeginShutdown(h, "spawn")
     \/ /\ active = NoProc /\ phase' = "spawn"
        /\ UNCHANGED <<active, procVars, lockVars, aged, lifeOwner, lifeQueue,
                       after, enumVars, taskVars, boundVars>>

(* The lock's owner finds the wanted provider, or one to reap, or none.      *)
EnsureEnters(h) ==
  /\ Holds(h, "enter") /\ job[h] \in {"route", "synth"}
  /\ \/ /\ ActiveReady(target[h]) /\ phase' = "return"
        /\ UNCHANGED <<active, procVars, lockVars, aged, lifeOwner, lifeQueue,
                       after, enumVars, taskVars, boundVars>>
     \/ /\ active # NoProc /\ ~ActiveReady(target[h])
        /\ BeginShutdown(h, "spawn")
     \/ /\ active = NoProc /\ phase' = "spawn"
        /\ UNCHANGED <<active, procVars, lockVars, aged, lifeOwner, lifeQueue,
                       after, enumVars, taskVars, boundVars>>

(* The handler's ensure_ready(target) returns; synthesize calls ensure_ready *)
(* again, with no name, before anything can run in between: its target is    *)
(* the provider that is active now.                                          *)
RouteReturns(h) ==
  /\ Holds(h, "return") /\ job[h] = "route"
  /\ job' = [job EXCEPT ![h] = "synth"]
  /\ target' = [target EXCEPT ![h] = procs[active].name]
  /\ ReleaseAndAcquire(h)
  /\ UNCHANGED <<active, procVars, lockVars, aged, after, enumVars, pc, want,
                 proc, boundVars>>

(* synthesize has its process and asks for the request lock.                 *)
SynthReturns(h) ==
  /\ Holds(h, "return") /\ job[h] = "synth"
  /\ Release
  /\ proc' = [proc EXCEPT ![h] = active]
  /\ pc' = [pc EXCEPT ![h] = "request"] /\ job' = [job EXCEPT ![h] = "none"]
  /\ aged' = FALSE
  /\ IF reqOwner[active] = NoOne
     THEN /\ reqOwner' = [reqOwner EXCEPT ![active] = h]
          /\ UNCHANGED reqQueue
     ELSE /\ reqQueue' = [reqQueue EXCEPT ![active] = Append(@, h)]
          /\ UNCHANGED reqOwner
  /\ UNCHANGED <<active, procVars, after, enumVars, want, target, boundVars>>

(* The provider no longer has the voice the index promised.                  *)
VoiceGone(h) ==
  /\ Holds(h, "return") /\ job[h] \in {"route", "synth"}
  /\ Release /\ Finish(h)
  /\ UNCHANGED <<active, procVars, lockVars, aged, after, enumVars, boundVars>>

-----------------------------------------------------------------------------
(* enumerate_all_voices                                                      *)

EnumerateEnters(h) ==
  /\ Holds(h, "enter") /\ Enumerating(h)
  /\ enumAt' = 1 /\ enumFound' = {} /\ phase' = "walk"
  /\ UNCHANGED <<active, procVars, lockVars, aged, lifeOwner, lifeQueue, after,
                 index, taskVars, boundVars>>

(* The loop body up to its first suspension: skip, reuse, reap or spawn.     *)
EnumerateVisits(h) ==
  /\ Holds(h, "walk") /\ enumAt <= Len(Registry)
  /\ LET name == Registry[enumAt] IN
       \/ /\ name \notin Installed
          /\ enumAt' = enumAt + 1
          /\ UNCHANGED <<active, procVars, lockVars, aged, lifeVars, enumFound,
                         index, taskVars, boundVars>>
       \/ /\ name \in Installed /\ ActiveReady(name)
          /\ enumAt' = enumAt + 1 /\ enumFound' = enumFound \cup {name}
          /\ UNCHANGED <<active, procVars, lockVars, aged, lifeVars, index,
                         taskVars, boundVars>>
       \/ /\ name \in Installed /\ active # NoProc /\ ~ActiveReady(name)
          /\ BeginShutdown(h, "spawn")
       \/ /\ name \in Installed /\ active = NoProc
          /\ phase' = "spawn"
          /\ UNCHANGED <<active, procVars, lockVars, aged, lifeOwner,
                         lifeQueue, after, enumVars, taskVars, boundVars>>

(* The provider that was spawned to be listed is shut down again.            *)
EnumerateListed(h) == Holds(h, "listed") /\ BeginShutdown(h, "next")

(* The lock is released, the index replaced, and the caller goes on.  A      *)
(* reload answers with a listing, which enumerates again if nothing came.    *)
EnumerateReturns(h) ==
  /\ Holds(h, "walk") /\ enumAt > Len(Registry)
  /\ index' = enumFound /\ enumFound' = {} /\ enumAt' = 1
  /\ \/ /\ job[h] = "populate" /\ want[h] \in enumFound
        /\ job' = [job EXCEPT ![h] = "route"]
        /\ target' = [target EXCEPT ![h] = want[h]]
        /\ ReleaseAndAcquire(h) /\ UNCHANGED <<pc, want, proc>>
     \/ /\ job[h] = "reload" /\ enumFound = {}
        /\ job' = [job EXCEPT ![h] = "list"]
        /\ ReleaseAndAcquire(h) /\ UNCHANGED <<pc, want, target, proc>>
     \/ /\ \/ job[h] = "populate" /\ want[h] \notin enumFound
           \/ job[h] = "reload" /\ enumFound # {}
           \/ job[h] = "list"
        /\ Release /\ Finish(h)
  /\ UNCHANGED <<active, procVars, lockVars, aged, after, boundVars>>

-----------------------------------------------------------------------------
(* The idle loop owns the lock: it looks again, but not at the state.        *)

IdleEnters(h) ==
  /\ Holds(h, "enter") /\ job[h] = "evict"
  /\ \/ /\ active # NoProc /\ aged
        /\ BeginShutdown(h, "release")
     \/ /\ ~(active # NoProc /\ aged)
        /\ Release /\ Finish(h)
        /\ UNCHANGED <<active, procVars, lockVars, aged, after, enumVars,
                       boundVars>>

-----------------------------------------------------------------------------
(* synthesize: the exchange under the request lock                           *)

(* The request lock goes to its first waiter and the client is answered: by  *)
(* audio_end, whether the stream ended well or not.                          *)
EndExchange(c, object) ==
  LET p == proc[c] IN
    /\ procs' = [procs EXCEPT ![p] = IF p = active THEN object
                                                   ELSE Kept(c, p, object)]
    /\ IF reqQueue[p] = <<>>
       THEN reqOwner' = [reqOwner EXCEPT ![p] = NoOne] /\ UNCHANGED reqQueue
       ELSE /\ reqOwner' = [reqOwner EXCEPT ![p] = Head(reqQueue[p])]
            /\ reqQueue' = [reqQueue EXCEPT ![p] = Tail(@)]
    /\ Finish(c)

Suspend(c, state) ==
  /\ pc' = [pc EXCEPT ![c] = state]
  /\ UNCHANGED <<lockVars, job, want, target, proc>>

(* Process p after a request is written to it.  A child that was told to     *)
(* shut down reads no further request.                                       *)
Requested(p, object) ==
  [object EXCEPT !.dirty = TRUE, !.owed = IF child[p] = "running" THEN @ + 1
                                                                  ELSE @]

(* The lock's owner drains first, or writes its request and waits for the    *)
(* header; either read raises RuntimeError when a shutdown is reading.       *)
BeginExchange(c) ==
  LET p == proc[c]
      o == procs[p]
  IN
    /\ pc[c] = "request" /\ reqOwner[p] = c
    /\ \/ /\ ~o.dirty /\ reader[p] = NoOne
          /\ procs' = [procs EXCEPT ![p] = Requested(p, o)]
          /\ reader' = [reader EXCEPT ![p] = c] /\ Suspend(c, "reading")
       \/ /\ o.dirty /\ reader[p] = NoOne
          /\ reader' = [reader EXCEPT ![p] = c] /\ Suspend(c, "draining")
          /\ UNCHANGED procs
       \/ /\ reader[p] # NoOne
          /\ EndExchange(c, IF o.dirty THEN [o EXCEPT !.dirty = FALSE]
                                       ELSE Requested(p, o))
          /\ UNCHANGED reader
    /\ UNCHANGED <<active, child, aged, lifeVars, enumVars, boundVars>>

DrainForever(c) ==        \* mutant: the drain has no timeout
  LET p == proc[c]
      o == procs[p]
  IN
    /\ pc[c] = "draining" /\ o.owed > 0
    /\ procs' = [procs EXCEPT ![p] = Requested(p, [o EXCEPT !.owed = @ - 1])]
    /\ Suspend(c, "reading")
    /\ UNCHANGED <<active, child, reader, aged, lifeVars, enumVars, boundVars>>

(* The residual stream's audio_end is read, or five seconds pass without a   *)
(* frame, or the stream ends; in any case the request is written next.       *)
Drain(c) ==
  LET p == proc[c]
      o == procs[p]
  IN
    /\ pc[c] = "draining"
    /\ \/ /\ o.owed > 0
          /\ procs' = [procs EXCEPT ![p] =
                         Requested(p, [o EXCEPT !.owed = @ - 1])]
       \/ procs' = [procs EXCEPT ![p] =
                      Requested(p, [o EXCEPT !.state = "FAILED"])]
    /\ Suspend(c, "reading")
    /\ UNCHANGED <<active, child, reader, aged, lifeVars, enumVars, boundVars>>

(* A chunk: the generator yields and its consumer writes to the client.      *)
Chunk(c) ==
  LET p == proc[c] IN
    /\ pc[c] = "reading" /\ procs[p].owed > 0
    /\ reader' = [reader EXCEPT ![p] = NoOne]
    /\ aged' = (aged /\ p # active)
    /\ Suspend(c, "yielded")
    /\ UNCHANGED <<active, procs, child, lifeVars, enumVars, boundVars>>

(* audio_end, an error in place of the header, or an error mid-stream, after *)
(* which needs_drain stays set.                                              *)
StreamEnds(c) ==
  LET p == proc[c] IN
    /\ pc[c] = "reading" /\ procs[p].owed > 0
    /\ \E midStreamError \in BOOLEAN :
         EndExchange(c, [procs[p] EXCEPT !.owed = @ - 1,
                                         !.dirty = midStreamError])
    /\ reader' = [reader EXCEPT ![p] = NoOne]
    /\ UNCHANGED <<active, child, aged, lifeVars, enumVars, boundVars>>

(* The stream ends before the frame: ProtocolError.                          *)
Eof(c) ==
  LET p == proc[c] IN
    /\ pc[c] = "reading" /\ child[p] = "dead"
    /\ reader' = [reader EXCEPT ![p] = NoOne]
    /\ EndExchange(c, procs[p])
    /\ UNCHANGED <<active, child, aged, lifeVars, enumVars, boundVars>>

(* The consumer asks for the next chunk, or finds its client gone and closes *)
(* the generator; the read raises RuntimeError when a shutdown is reading.   *)
Resume(c) ==
  LET p == proc[c] IN
    /\ pc[c] = "yielded"
    /\ \/ /\ reader[p] = NoOne
          /\ reader' = [reader EXCEPT ![p] = c] /\ Suspend(c, "reading")
          /\ UNCHANGED procs
       \/ EndExchange(c, procs[p]) /\ UNCHANGED reader
    /\ UNCHANGED <<active, child, aged, lifeVars, enumVars, boundVars>>

-----------------------------------------------------------------------------
(* The provider processes and the clock                                      *)

(* A child that was told to shut down exits when its work is done.           *)
Exit(p) ==
  /\ child[p] = "leaving"
  /\ child' = [child EXCEPT ![p] = "dead"]
  /\ UNCHANGED <<active, procs, reader, lockVars, aged, lifeVars, enumVars,
                 taskVars, boundVars>>

Crash(p) ==
  /\ child[p] = "running" /\ crashes < MaxCrashes
  /\ child' = [child EXCEPT ![p] = "dead"]
  /\ crashes' = crashes + 1
  /\ UNCHANGED <<active, procs, reader, lockVars, aged, lifeVars, enumVars,
                 taskVars, startFailures>>

(* idle_timeout_seconds pass without a frame.                                *)
Age ==
  /\ IdleEviction /\ active # NoProc /\ aged' = TRUE
  /\ UNCHANGED <<active, procVars, lockVars, lifeVars, enumVars, taskVars,
                 boundVars>>

HolderStep(h) ==
  \/ ShutdownReads(h) \/ ShutdownReaps(h)
  \/ Exec(h) \/ SpawnRaises(h) \/ WarmupSucceeds(h) \/ WarmupFails(h) \/ Kill(h)
  \/ EnsureEnters(h) \/ RouteReturns(h) \/ SynthReturns(h) \/ VoiceGone(h)
  \/ EnumerateEnters(h) \/ EnumerateVisits(h) \/ EnumerateListed(h)
  \/ EnumerateReturns(h) \/ IdleEnters(h)

StreamStep(c) ==
  BeginExchange(c) \/ Drain(c) \/ Chunk(c) \/ StreamEnds(c) \/ Eof(c) \/ Resume(c)

Next ==
  \/ \E c \in Clients : Connect(c)
  \/ \E t \in Controls : Control(t)
  \/ IdleTick
  \/ \E h \in Tasks : HolderStep(h)
  \/ \E c \in Clients : StreamStep(c)
  \/ \E p \in Slots : Exit(p) \/ Crash(p)
  \/ Age

Spec == Init /\ [][Next]_vars

(* The event loop runs every task that can run, every await has a timeout or *)
(* is answered, and a stream has finitely many chunks.                       *)
Fairness ==
  /\ \A h \in Tasks : WF_vars(HolderStep(h))
  /\ \A c \in Clients : WF_vars(StreamStep(c)) /\ SF_vars(StreamEnds(c))
  /\ \A p \in Slots : WF_vars(Exit(p))
  /\ WF_vars(IdleTick)

FairSpec == Spec /\ Fairness

-----------------------------------------------------------------------------
(* Properties                                                                *)

Started(p)   == procs[p].state \in {"STARTING", "READY"}
Streaming(c) == pc[c] \in {"request", "draining", "reading", "yielded"}

(* No live child is abandoned: one that is no longer the active process has  *)
(* been told to shut down.  This is what is left of the promise in           *)
(* supervisor.py:483-486 ("would orphan that child by overwriting the        *)
(* reference") when the shutdown itself may fail.                            *)
NoForgottenChild ==
  \A p \in Slots : child[p] = "running" => p = active

(* Outside the lifecycle lock the active process is READY or marked FAILED:  *)
(* nobody who takes the lock meets a half-started or half-dead process       *)
(* (supervisor.py:581-584).                                                  *)
SettledActive ==
  lifeOwner = NoOne =>
    active = NoProc \/ procs[active].state \in {"READY", "FAILED"}

(* Only the active process is starting or ready, so at most one process can  *)
(* be given new work.                                                        *)
OnlyActiveStarted == \A p \in Slots : Started(p) => p = active

(* A stream works with the provider that owns its voice, although synthesize *)
(* calls ensure_ready with no name and other connections switch providers    *)
(* (proxy.py:60 and supervisor.py:337, 360).                                 *)
RoutedToOwner ==
  \A c \in Clients : Streaming(c) => procs[proc[c]].name = want[c]

(* A process object is never overwritten by a new one (supervisor.py:346-349,*)
(* 483-486): a spawn happens only when there is no active process. Stated    *)
(* of the process; of its name it is part of SlotPromise below.              *)
SpawnReplacesNothing ==
  [][active' # active /\ active' # NoProc => active = NoProc]_vars

(* Every connection on the speechd socket is answered in the end, whatever   *)
(* is reaped, evicted or crashes meanwhile.                                  *)
ClientsAnswered == \A c \in Clients : pc[c] # "idle" ~> pc[c] = "idle"

(* A control request is answered in the end.                                 *)
ControlsAnswered == \A t \in Controls : pc[t] # "idle" ~> pc[t] = "idle"

(* README.md:55, "Only one provider subprocess is alive at a time."          *)
OneAlive == Cardinality({p \in Slots : child[p] # "dead"}) <= 1

(* The idle loop ends only in one way: an eviction whose read of the shutdown*)
(* response collides with a stream that is suspended in its own read         *)
(* (supervisor.py:595,645; README.md:67-68 has the loop go on).              *)
IdleLoopEndsByCollision ==
  [][ (pc[Idle] # "dead" /\ pc'[Idle] = "dead") =>
        \E c \in Clients : reader[active] = c ]_vars

(* An enumeration goes past an installed provider without its voices only    *)
(* after a start that failed, a crash, or the same collision                 *)
(* (supervisor.py:220-250).                                                  *)
EnumerationSkipsForCause ==
  [][ (enumAt' = enumAt + 1 /\ Registry[enumAt] \in Installed
         /\ Registry[enumAt] \notin enumFound') =>
        \/ startFailures' + crashes > 0
        \/ \E c \in Clients : reader[active] = c ]_vars
-----------------------------------------------------------------------------
(* The place for a provider, as it is seen from outside the supervisor.      *)

Stage ==
  IF active = NoProc THEN "empty"
  ELSE IF phase = "warm" THEN "starting"
  ELSE IF phase \in {"kill", "downRead", "downReap"} THEN "stopping"
  ELSE IF procs[active].state = "READY" THEN "ready" ELSE "failed"

Occupant == IF active = NoProc THEN NoOne ELSE procs[active].name
Wanted   == [c \in Clients |-> want[c]]

HandOver(c) == Holds(c, "return") /\ job[c] = "synth"
Service(c)  == IF HandOver(c) THEN "promised"
               ELSE IF ~Streaming(c) THEN "no"
               ELSE IF proc[c] = active THEN "slot" ELSE "gone"
Served      == [c \in Clients |-> Service(c)]

Slot == INSTANCE ProviderSlot
          WITH stage <- Stage, occupant <- Occupant, wanted <- Wanted, served <- Served

(* One provider at a time has the place, for all that interleaves at the     *)
(* lifecycle lock: another one is started only when it is empty, a provider  *)
(* that has failed is promised to nobody, and a client is served by its      *)
(* voice's provider alone (supervisor.py:337-360, 546-623, README.md:55).    *)
SlotPromise == Slot!Spec
=============================================================================
