-------------------------------- MODULE Daemon --------------------------------
(***************************************************************************)
(* The daemon process from its start to its end (daemon.py), as the service *)
(* manager or a terminal starts and stops it, with the connections that are *)
(* handled meanwhile.  Of the supervisor there is what start and stop need: *)
(* the lifecycle lock, the active provider and _closing; Supervisor has the *)
(* rest.  Python is 3.12.1 or later (mise.toml asks for 3.12), where        *)
(* wait_closed waits for the connections that are open.                     *)
(***************************************************************************)
EXTENDS Naturals

CONSTANTS
  Conns,    \* connections that may be open at a time
  Main,     \* the main coroutine, as a holder of the lifecycle lock
  Nobody,
  MaxStarts \* bound: starts of the process

ASSUME DaemonAssumption ==
  Main \notin Conns /\ Nobody \notin Conns \cup {Main} /\ MaxStarts \in Nat

VARIABLES
  mode,    \* run by the service manager (unit) or in a terminal (foreground)
  unit,    \* what the service manager has been told
  main,    \* where the main coroutine is
  eager,   \* [supervisor] eager_startup
  open,    \* the two servers accept connections
  stop,    \* stop_event
  closing, \* _closing
  lock,    \* who holds _lifecycle_lock
  conn,    \* each connection: none, waits for the lock, starts the provider,
           \* or is served
  active,  \* the process in _active: none, warming or ready
  starts

vars == <<mode, unit, main, eager, open, stop, closing, lock, conn, active, starts>>

Places == {"off", "config", "adopt", "serve", "eager", "warmup", "ready",
           "waits", "closing", "shutdown", "reap", "return"}

TypeOK ==
  /\ mode \in {"unit", "foreground"}
  /\ unit \in {"inactive", "activating", "active", "deactivating"}
  /\ main \in Places /\ {eager, open, stop, closing} \subseteq BOOLEAN
  /\ lock \in Conns \cup {Main, Nobody}
  /\ conn \in [Conns -> {"none", "waits", "starts", "served"}]
  /\ active \in {"none", "warming", "ready"}
  /\ starts \in 0..MaxStarts
  /\ (active = "warming") <=> (main = "warmup" \/ \E c \in Conns : conn[c] = "starts")

Init ==
  /\ mode \in {"unit", "foreground"} /\ unit = "inactive"
  /\ main = "off" /\ eager = FALSE /\ open = FALSE /\ stop = FALSE
  /\ closing = FALSE /\ lock = Nobody /\ conn = [c \in Conns |-> "none"]
  /\ active = "none" /\ starts = 0

-----------------------------------------------------------------------------
(* Start                                                                     *)

(* A connection to a socket of the service manager, or the command           *)
Start ==
  /\ main = "off" /\ starts < MaxStarts
  /\ starts' = starts + 1 /\ main' = "config" /\ unit' = "activating"
  /\ UNCHANGED <<mode, eager, open, stop, closing, lock, conn, active>>

(* The process is gone, and with it its tasks, and its end of the provider's *)
(* socket, so that the provider leaves by itself (ProcessLeaves of Provider) *)
(* if the service manager does not end it.                                   *)
Gone ==
  /\ main' = "off" /\ open' = FALSE /\ stop' = FALSE /\ closing' = FALSE
  /\ lock' = Nobody /\ conn' = [c \in Conns |-> "none"] /\ active' = "none"
  /\ unit' = "inactive"
  /\ UNCHANGED <<mode, eager, starts>>

(* An unknown key or a broken file ends it, no file does not.                *)
LoadConfig ==
  /\ main = "config"
  /\ \/ main' = "adopt" /\ eager' \in BOOLEAN
        /\ UNCHANGED <<mode, unit, open, stop, closing, lock, conn, active,
                       starts>>
     \/ Gone

(* Two named sockets of the service manager, or two new ones in their places *)
AdoptSockets ==
  /\ main = "adopt"
  /\ \/ main' = "serve"
        /\ UNCHANGED <<mode, unit, eager, open, stop, closing, lock, conn,
                       active, starts>>
     \/ Gone

Serve ==
  /\ main = "serve" /\ open' = TRUE
  /\ main' = IF eager THEN "eager" ELSE "ready"
  /\ UNCHANGED <<mode, unit, eager, stop, closing, lock, conn, active, starts>>

(* ensure_ready of the default provider, before READY=1                      *)
EagerEnters ==
  /\ main = "eager" /\ lock = Nobody
  /\ IF active = "ready" THEN main' = "ready" /\ UNCHANGED <<lock, active>>
     ELSE main' = "warmup" /\ lock' = Main /\ active' = "warming"
  /\ UNCHANGED <<mode, unit, eager, open, stop, closing, conn, starts>>

EagerEndsLocked ==  \* mutant: a failure leaves without the lock's release
  /\ main = "warmup" /\ main' = "ready"
  /\ \/ active' = "ready" /\ lock' = Nobody
     \/ active' = "none" /\ UNCHANGED lock
  /\ UNCHANGED <<mode, unit, eager, open, stop, closing, conn, starts>>

(* A failure is logged, and tried again by the first connection.             *)
EagerEnds ==
  /\ main = "warmup" /\ main' = "ready" /\ lock' = Nobody
  /\ active' \in {"ready", "none"}
  /\ UNCHANGED <<mode, unit, eager, open, stop, closing, conn, starts>>

(* READY=1; only now are the signals handled.                                *)
SayReady ==
  /\ main = "ready" /\ main' = "waits" /\ unit' = "active"
  /\ UNCHANGED <<mode, eager, open, stop, closing, lock, conn, active, starts>>

-----------------------------------------------------------------------------
(* A connection's handler, as far as the provider it needs                   *)

Connect(c) ==
  /\ open /\ conn[c] = "none" /\ conn' = [conn EXCEPT ![c] = "waits"]
  /\ UNCHANGED <<mode, unit, main, eager, open, stop, closing, lock, active,
                 starts>>

(* ensure_ready does not look at _closing.                                   *)
EnsureReady(c) ==
  /\ conn[c] = "waits" /\ lock = Nobody
  /\ IF active = "ready"
     THEN conn' = [conn EXCEPT ![c] = "served"] /\ UNCHANGED <<lock, active>>
     ELSE /\ conn' = [conn EXCEPT ![c] = "starts"]
          /\ lock' = c /\ active' = "warming"
  /\ UNCHANGED <<mode, unit, main, eager, open, stop, closing, starts>>

SpawnEnds(c) ==
  /\ conn[c] = "starts" /\ lock' = Nobody
  /\ \/ active' = "ready" /\ conn' = [conn EXCEPT ![c] = "served"]
     \/ active' = "none" /\ conn' = [conn EXCEPT ![c] = "none"]
  /\ UNCHANGED <<mode, unit, main, eager, open, stop, closing, starts>>

Disconnect(c) ==
  /\ conn[c] = "served" /\ conn' = [conn EXCEPT ![c] = "none"]
  /\ UNCHANGED <<mode, unit, main, eager, open, stop, closing, lock, active,
                 starts>>

-----------------------------------------------------------------------------
(* Stop                                                                      *)

Signal ==
  /\ main # "off"
  /\ IF main \in {"waits", "closing", "shutdown", "reap", "return"}
     THEN stop' = TRUE /\ UNCHANGED <<mode, unit, main, eager, open, closing,
                                      lock, conn, active, starts>>
     ELSE Gone

(* TimeoutStartSec, which a provider that loads its model eagerly may take   *)
StartTimeout == mode = "unit" /\ main = "warmup" /\ Gone

CloseServers ==
  /\ main = "waits" /\ stop /\ main' = "closing" /\ unit' = "deactivating"
  /\ open' = FALSE
  /\ UNCHANGED <<mode, eager, stop, closing, lock, conn, active, starts>>

WaitClosedNot ==  \* mutant: as before Python 3.12.1, it returns at once
  /\ main = "closing" /\ main' = "shutdown" /\ closing' = TRUE
  /\ UNCHANGED <<mode, unit, eager, open, stop, lock, conn, active, starts>>

WaitClosed ==
  /\ main = "closing" /\ \A c \in Conns : conn[c] = "none"
  /\ main' = "shutdown" /\ closing' = TRUE
  /\ UNCHANGED <<mode, unit, eager, open, stop, lock, conn, active, starts>>

Shutdown ==
  /\ main = "shutdown" /\ lock = Nobody
  /\ main' = "reap" /\ lock' = Main
  /\ UNCHANGED <<mode, unit, eager, open, stop, closing, conn, active, starts>>

(* The active provider has been told, waited for, and killed if need be.     *)
Reaped ==
  /\ main = "reap" /\ main' = "return" /\ lock' = Nobody /\ active' = "none"
  /\ UNCHANGED <<mode, unit, eager, open, stop, closing, conn, starts>>

Return == main = "return" /\ Gone

Runs == LoadConfig \/ AdoptSockets \/ Serve \/ EagerEnters \/ EagerEnds
          \/ SayReady
Stops == CloseServers \/ WaitClosed \/ Shutdown \/ Reaped \/ Return
Handles(c) == EnsureReady(c) \/ SpawnEnds(c) \/ Disconnect(c)

Next ==
  \/ Start \/ Runs \/ Stops \/ Signal \/ StartTimeout
  \/ \E c \in Conns : Connect(c) \/ Handles(c)

Spec == Init /\ [][Next]_vars

(* The event loop runs what is ready; the lock is first come, first served,  *)
(* a warmup ends by its own timeout and a client does not stay for ever.     *)
FairSpec ==
  /\ Spec /\ SF_vars(Runs) /\ SF_vars(Stops)
  /\ \A c \in Conns : SF_vars(Handles(c))

-----------------------------------------------------------------------------
(* A daemon that stops as it is told leaves no provider behind, although     *)
(* ensure_ready does not look at _closing: whoever would start one after     *)
(* shutdown() is waited for before it.                                       *)
StopLeavesNone == main = "return" => active = "none"

(* A daemon that is told to stop does so, however many connections come.     *)
StopEnds == stop ~> (main = "off")

================================================================================
