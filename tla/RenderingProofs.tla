---------------------------- MODULE RenderingProofs ----------------------------
(***************************************************************************)
(* What holds of Daemon, for any number of connections, and of Rendering   *)
(* on top of it, for any number of segments and chunks.                    *)
(***************************************************************************)
EXTENDS Rendering, Integers, TLAPS

(* Who is inside ensure_ready or shutdown() holds the lifecycle lock.        *)
LockHeld ==
  /\ lock = Main <=> main \in {"warmup", "reap"}
  /\ \A c \in Conns : lock = c <=> conn[c] = "starts"

(* Where there are neither connections nor a provider                        *)
Quiet ==
  /\ open => main \in {"eager", "warmup", "ready", "waits"}
  /\ main \notin {"eager", "warmup", "ready", "waits", "closing"} =>
       \A c \in Conns : conn[c] = "none"
  /\ main \in {"off", "config", "adopt", "serve", "return"} => active = "none"

DaemonInv == TypeOK /\ LockHeld /\ Quiet

-----------------------------------------------------------------------------
(* The daemon                                                                *)

LEMMA DaemonInitInv == Init => DaemonInv
  <1> SUFFICES ASSUME Init PROVE DaemonInv
    OBVIOUS
  <1>1. conn \in [Conns -> {"none", "waits", "starts", "served"}]
        /\ \A c \in Conns : conn[c] = "none"
    BY DEF Init
  <1>2. TypeOK
    <2>1. {eager, open, stop, closing} \subseteq BOOLEAN /\ main \in Places
      BY DEF Init, Places
    <2>2. starts \in 0..MaxStarts /\ lock \in Conns \cup {Main, Nobody}
      BY DaemonAssumption DEF Init
    <2>3. (active = "warming") <=> (main = "warmup" \/ \E c \in Conns : conn[c] = "starts")
      BY <1>1 DEF Init
    <2> QED BY <1>1, <2>1, <2>2, <2>3 DEF Init, TypeOK
  <1>3. LockHeld /\ Quiet
    BY <1>1, DaemonAssumption DEF Init, LockHeld, Quiet
  <1> QED BY <1>2, <1>3 DEF DaemonInv

LEMMA GoneInv == ASSUME DaemonInv, Gone PROVE DaemonInv'
  <1>1. \A c \in Conns : conn'[c] = "none"
    BY DEF Gone
  <1> QED
    BY <1>1, DaemonAssumption
    DEF Gone, DaemonInv, TypeOK, Places, LockHeld, Quiet

(* A step of the main coroutine, with the connections as they are.           *)
LEMMA MainInv ==
  ASSUME DaemonInv, UNCHANGED conn,
         \/ Start \/ Serve \/ EagerEnters \/ EagerEnds \/ SayReady
         \/ CloseServers \/ WaitClosed \/ Shutdown \/ Reaped
  PROVE  DaemonInv'
  <1> USE DaemonAssumption DEF DaemonInv, TypeOK, Places, LockHeld, Quiet
  <1>1. CASE Start
    BY <1>1 DEF Start
  <1>2. CASE Serve
    BY <1>2 DEF Serve
  <1>3. CASE EagerEnters
    BY <1>3 DEF EagerEnters
  <1>4. CASE EagerEnds
    BY <1>4 DEF EagerEnds
  <1>5. CASE SayReady
    BY <1>5 DEF SayReady
  <1>6. CASE CloseServers
    BY <1>6 DEF CloseServers
  <1>7. CASE WaitClosed
    BY <1>7 DEF WaitClosed
  <1>8. CASE Shutdown
    BY <1>8 DEF Shutdown
  <1>9. CASE Reaped
    BY <1>9 DEF Reaped
  <1> QED BY <1>1, <1>2, <1>3, <1>4, <1>5, <1>6, <1>7, <1>8, <1>9

LEMMA LoadConfigInv == ASSUME DaemonInv, LoadConfig PROVE DaemonInv'
  <1>1. CASE Gone
    BY <1>1, GoneInv
  <1>2. CASE ~Gone
    BY <1>2, DaemonAssumption
    DEF LoadConfig, DaemonInv, TypeOK, Places, LockHeld, Quiet
  <1> QED BY <1>1, <1>2

LEMMA AdoptSocketsInv == ASSUME DaemonInv, AdoptSockets PROVE DaemonInv'
  <1>1. CASE Gone
    BY <1>1, GoneInv
  <1>2. CASE ~Gone
    BY <1>2, DaemonAssumption
    DEF AdoptSockets, DaemonInv, TypeOK, Places, LockHeld, Quiet
  <1> QED BY <1>1, <1>2

LEMMA SignalInv == ASSUME DaemonInv, Signal PROVE DaemonInv'
  <1>1. CASE Gone
    BY <1>1, GoneInv
  <1>2. CASE ~Gone
    BY <1>2, DaemonAssumption
    DEF Signal, DaemonInv, TypeOK, Places, LockHeld, Quiet
  <1> QED BY <1>1, <1>2

(* A connection is made, waits for the provider, is served, goes.            *)
LEMMA ConnInv ==
  ASSUME DaemonInv, NEW c \in Conns, Connect(c) \/ Handles(c)
  PROVE  DaemonInv'
  <1> USE DaemonAssumption DEF DaemonInv, TypeOK, Places, LockHeld, Quiet
  <1>1. CASE Connect(c)
    <2>1. \A d \in Conns : conn'[d] = IF d = c THEN "waits" ELSE conn[d]
      BY <1>1 DEF Connect
    <2> QED BY <1>1, <2>1 DEF Connect
  <1>2. CASE EnsureReady(c)
    <2>1. CASE active = "ready"
      <3>1. \A d \in Conns : conn'[d] = IF d = c THEN "served" ELSE conn[d]
        BY <1>2, <2>1 DEF EnsureReady
      <3> QED BY <1>2, <2>1, <3>1 DEF EnsureReady
    <2>2. CASE active # "ready"
      <3>1. \A d \in Conns : conn'[d] = IF d = c THEN "starts" ELSE conn[d]
        BY <1>2, <2>2 DEF EnsureReady
      <3> QED BY <1>2, <2>2, <3>1 DEF EnsureReady
    <2> QED BY <2>1, <2>2
  <1>3. CASE SpawnEnds(c)
    <2>1. PICK r \in {"served", "none"} :
            /\ conn' = [conn EXCEPT ![c] = r]
            /\ active' = IF r = "served" THEN "ready" ELSE "none"
      BY <1>3 DEF SpawnEnds
    <2>2. \A d \in Conns : conn'[d] = IF d = c THEN r ELSE conn[d]
      BY <2>1
    <2> QED BY <1>3, <2>1, <2>2 DEF SpawnEnds
  <1>4. CASE Disconnect(c)
    <2>1. \A d \in Conns : conn'[d] = IF d = c THEN "none" ELSE conn[d]
      BY <1>4 DEF Disconnect
    <2> QED BY <1>4, <2>1 DEF Disconnect
  <1> QED BY <1>1, <1>2, <1>3, <1>4 DEF Handles

LEMMA DaemonNextInv == DaemonInv /\ [Next]_vars => DaemonInv'
  <1> SUFFICES ASSUME DaemonInv, [Next]_vars PROVE DaemonInv'
    OBVIOUS
  <1>1. CASE Start \/ Serve \/ EagerEnters \/ EagerEnds \/ SayReady
             \/ CloseServers \/ WaitClosed \/ Shutdown \/ Reaped
    <2>1. UNCHANGED conn
      BY <1>1 DEF Start, Serve, EagerEnters, EagerEnds, SayReady, CloseServers,
                  WaitClosed, Shutdown, Reaped
    <2> QED BY <1>1, <2>1, MainInv
  <1>2. CASE LoadConfig \/ AdoptSockets \/ Signal
    BY <1>2, LoadConfigInv, AdoptSocketsInv, SignalInv
  <1>3. CASE StartTimeout \/ Return
    BY <1>3, GoneInv DEF StartTimeout, Return
  <1>4. ASSUME NEW c \in Conns, Connect(c) \/ Handles(c) PROVE DaemonInv'
    BY <1>4, ConnInv
  <1>5. CASE UNCHANGED vars
    BY <1>5 DEF vars, DaemonInv, TypeOK, Places, LockHeld, Quiet
  <1> QED BY <1>1, <1>2, <1>3, <1>4, <1>5 DEF Next, Runs, Stops

LEMMA DaemonInductive == Spec => []DaemonInv
  BY DaemonInitInv, DaemonNextInv, PTL DEF Spec

(* A daemon that has shut down has no provider, and no connection that could *)
(* still start one behind its back: for any number of connections, whatever  *)
(* they wait for when the signal comes (daemon.py:147-158).                  *)
THEOREM StoppedDaemonHasNoProvider == Spec => []StopLeavesNone
  <1>1. DaemonInv => StopLeavesNone
    BY DEF DaemonInv, Quiet, StopLeavesNone
  <1> QED BY <1>1, DaemonInductive, PTL

-----------------------------------------------------------------------------
(* The rendering                                                             *)

Frames == {"header", "chunk", "end", "error"}

(* The chunks on the way: the frames that are neither the first nor the last *)
First == IF wire # <<>> /\ wire[1] = "header" THEN 1 ELSE 0
Ended == wire # <<>> /\ wire[Len(wire)] = "end"
Last  == IF Ended THEN 1 ELSE 0
OnWay == Len(wire) - First - Last
Held  == IF held THEN 1 ELSE 0

(* Every chunk that was made is written, lost to a provider's failure, on    *)
(* the way, or still to come.                                                *)
Balance == got + dropped + left + Held + OnWay = made

Reading == say \in {"header", "body"}

(* What the daemon keeps for the connection                                  *)
PumpShape ==
  /\ pump # "stream" => left = 0 /\ ~held
  /\ held => resamples
  /\ say \in {"idle", "connect", "close", "done"} =>
       conn[Say] = "none" /\ got + dropped = made

(* What is on the way, and what of the segment it accounts for: nothing is   *)
(* known of one whose end will not come.                                     *)
WireShape ==
  Reading =>
    /\ \A i \in 1..Len(wire) :
         /\ wire[i] = "header" => i = 1 /\ say = "header"
         /\ wire[i] = "error" => i = 1 /\ say = "header"
         /\ wire[i] = "end" => i = Len(wire)
    /\ say = "body" => conn[Say] \in {"none", "served"} /\ pump # "header"
    /\ conn[Say] \in {"waits", "starts"} \/ pump = "header" =>
         wire = <<>> /\ got + dropped = made
    /\ pump \in {"stream", "end"} => ~Ended /\ Balance
    /\ Ended => conn[Say] = "none" /\ Balance

(* The sizes are told at the very end.                                       *)
SizesLast == sizes = IF say = "done" /\ sink = "file" THEN got ELSE 0

RenderInv == DaemonInv /\ RenderTypeOK /\ PumpShape /\ WireShape /\ SizesLast

(* The types of what Rendering adds                                          *)
SayType ==
  /\ say \in {"idle", "connect", "header", "body", "close", "done", "failed", "died"}
  /\ segment \in 1..Segments /\ sink \in {"file", "stream"} /\ opened \in BOOLEAN
  /\ sizes \in Nat /\ got \in Nat
PumpType ==
  /\ wire \in Seq(Frames) /\ pump \in {"none", "header", "stream", "end"}
  /\ held \in BOOLEAN /\ resamples \in BOOLEAN
  /\ pump # "none" <=> conn[Say] = "served"
  /\ left \in 0..MaxChunks /\ made \in Nat /\ dropped \in Nat

LEMMA RenderParts ==
  RenderInv <=> /\ DaemonInv /\ SayType /\ PumpType
                /\ PumpShape /\ WireShape /\ SizesLast
  BY DEF RenderInv, RenderTypeOK, DaemonInv, SayType, PumpType, Frames

LEMMA RenderPartsNext ==
  RenderInv' <=> /\ DaemonInv' /\ SayType' /\ PumpType'
                 /\ PumpShape' /\ WireShape' /\ SizesLast'
  BY RenderParts, PTL

LEMMA RenderInitInv == RenderInit => RenderInv
  <1> SUFFICES ASSUME RenderInit PROVE RenderInv
    OBVIOUS
  <1>1. Say \in Conns /\ Segments \in Nat \ {0} /\ MaxChunks \in Nat
    BY RenderingAssumption
  <1>2. DaemonInv /\ conn[Say] = "none"
    BY <1>1, DaemonInitInv DEF RenderInit, Init
  <1>3. SayType
    <2>1. 1 \in 1..Segments
      BY <1>1
    <2> QED BY <2>1 DEF RenderInit, SayType
  <1>4. PumpType
    <2>1. <<>> \in Seq(Frames)
      OBVIOUS
    <2>2. 0 \in 0..MaxChunks
      BY <1>1
    <2> QED BY <1>2, <2>1, <2>2 DEF RenderInit, PumpType
  <1>5. PumpShape /\ WireShape /\ SizesLast
    BY <1>2 DEF RenderInit, PumpShape, WireShape, Reading, SizesLast
  <1> QED BY <1>2, <1>3, <1>4, <1>5, RenderParts

(* Every step of a rendering is one of its daemon's, or none.                *)
LEMMA RenderStep == RenderNext => [Next]_vars
  <1>1. Say \in Conns
    BY RenderingAssumption
  <1>2. DaemonStep => Next
    BY DEF DaemonStep, Next
  <1>3. Serves => Next
    BY <1>1 DEF Serves, Next, Handles
  <1>4. Pumps => [Next]_vars
    BY <1>1 DEF Pumps, PumpHeader, PumpChunk, PumpTail, PumpFails, PumpEnd, HangsUp,
                Next, Handles
  <1>5. SayStep => [Next]_vars
    BY <1>1 DEF SayStep, Prepare, Dial, TakeHeader, TakeChunk, TakeEnd, TakeError,
                ShortRead, CloseSink, Reads, Next
  <1> QED BY <1>2, <1>3, <1>4, <1>5 DEF RenderNext

(* Rendering with its client and the daemon's pump is the daemon of Daemon:  *)
(* they add nothing that a connection there may not do, so that what holds   *)
(* of Daemon holds of every rendering.                                       *)
THEOREM RenderingImplementsDaemon == RenderSpec => Spec
  <1>1. RenderInit => Init
    BY DEF RenderInit
  <1>2. [RenderNext]_renderVars => [Next]_vars
    <2>1. UNCHANGED renderVars => UNCHANGED vars
      BY DEF renderVars
    <2> QED BY <2>1, RenderStep
  <1> QED BY <1>1, <1>2, PTL DEF RenderSpec, Spec

-----------------------------------------------------------------------------
(* Frames that come and go                                                   *)

(* One more element at the end of a sequence                                 *)
LEMMA OneMore ==
  ASSUME NEW S, NEW s \in Seq(S), NEW e \in S
  PROVE  /\ Len(s) \in Nat /\ s \o <<e>> \in Seq(S) /\ Len(s \o <<e>>) = Len(s) + 1
         /\ (s \o <<e>>)[Len(s) + 1] = e
         /\ \A i \in 1..Len(s) : (s \o <<e>>)[i] = s[i]
  OBVIOUS

(* The first element of a sequence and the rest of it                        *)
LEMMA OneLess ==
  ASSUME NEW S, NEW s \in Seq(S), s # <<>>
  PROVE  /\ Len(s) \in Nat \ {0} /\ Head(s) = s[1] /\ s[1] \in S
         /\ Tail(s) \in Seq(S) /\ Len(Tail(s)) = Len(s) - 1
         /\ \A i \in 1..Len(Tail(s)) : Tail(s)[i] = s[i + 1]
  OBVIOUS

(* Sequences and their lengths                                               *)
LEMMA Lengths ==
  ASSUME NEW S, NEW s \in Seq(S)
  PROVE  /\ Len(s) \in Nat /\ (s = <<>> <=> Len(s) = 0) /\ s \o <<>> = s
  OBVIOUS

LEMMA OnWayIsInt == PumpType => OnWay \in Int /\ First \in {0, 1} /\ Len(wire) \in Nat
  <1> SUFFICES ASSUME PumpType PROVE OnWay \in Int /\ First \in {0, 1} /\ Len(wire) \in Nat
    OBVIOUS
  <1>1. Len(wire) \in Nat
    BY Lengths DEF PumpType
  <1> QED BY <1>1 DEF OnWay, First, Last

LEMMA Grows ==
  ASSUME PumpType, NEW f \in {"chunk", "end"}, wire' = wire \o <<f>>, ~Ended
  PROVE  /\ wire' \in Seq(Frames) /\ Len(wire) \in Nat /\ Len(wire') = Len(wire) + 1
         /\ \A i \in 1..Len(wire) : wire'[i] = wire[i]
         /\ wire'[Len(wire) + 1] = f
         /\ OnWay' = OnWay + IF f = "chunk" THEN 1 ELSE 0
         /\ Ended' <=> f = "end"
  <1>1. wire \in Seq(Frames) /\ f \in Frames
    BY DEF PumpType, Frames
  <1>2. /\ Len(wire) \in Nat /\ wire' \in Seq(Frames) /\ Len(wire') = Len(wire) + 1
        /\ \A i \in 1..Len(wire) : wire'[i] = wire[i]
        /\ wire'[Len(wire) + 1] = f
    BY <1>1, OneMore
  <1>3. wire' # <<>> /\ wire'[Len(wire')] = f
    <2>1. Len(wire') # 0
      BY <1>2
    <2> QED BY <1>2, <2>1
  <1>4. First' = First
    <2>1. CASE wire = <<>>
      <3>1. Len(wire) = 0
        BY <2>1
      <3>2. wire'[1] = f
        BY <1>2, <3>1
      <3> QED BY <2>1, <3>2 DEF First
    <2>2. CASE wire # <<>>
      <3>1. 1 \in 1..Len(wire)
        BY <1>1, <1>2, <2>2, Lengths
      <3> QED BY <1>2, <1>3, <2>2, <3>1 DEF First
    <2> QED BY <2>1, <2>2
  <1>5. (Ended' <=> f = "end") /\ Last = 0 /\ Last' = IF f = "end" THEN 1 ELSE 0
    BY <1>3 DEF Ended, Last
  <1>6. First \in {0, 1}
    BY DEF First
  <1>7. OnWay' = (Len(wire) + 1) - First - Last'
    BY <1>2, <1>4 DEF OnWay
  <1>8. OnWay = Len(wire) - First - 0
    BY <1>5 DEF OnWay
  <1>9. CASE f = "chunk"
    <2>1. Last' = 0
      BY <1>5, <1>9
    <2>2. OnWay' = OnWay + 1
      BY <1>2, <1>6, <1>7, <1>8, <2>1
    <2> QED BY <1>2, <1>5, <1>9, <2>2
  <1>10. CASE f = "end"
    <2>1. Last' = 1
      BY <1>5, <1>10
    <2>2. OnWay' = OnWay + 0
      BY <1>2, <1>6, <1>7, <1>8, <2>1
    <2> QED BY <1>2, <1>5, <1>10, <2>2
  <1> QED BY <1>9, <1>10

LEMMA Shrinks ==
  ASSUME PumpType, WireShape, Reading, wire # <<>>, wire' = Tail(wire)
  PROVE  /\ wire' \in Seq(Frames) /\ Head(wire) = wire[1] /\ Len(wire) \in Nat
         /\ 1 \in 1..Len(wire)
         /\ \A i \in 1..Len(wire') : /\ wire'[i] = wire[i + 1]
                                     /\ i \in Nat \ {0} /\ i + 1 \in 1..Len(wire)
                                     /\ i + 1 = Len(wire) => i = Len(wire')
         /\ wire[1] \in {"header", "chunk"} =>
              /\ Ended' <=> Ended
              /\ OnWay' = OnWay - IF wire[1] = "chunk" THEN 1 ELSE 0
         /\ wire[1] = "end" => wire' = <<>> /\ Ended /\ OnWay = 0
  <1>1. /\ wire \in Seq(Frames) /\ Len(wire) \in Nat \ {0} /\ Head(wire) = wire[1]
        /\ wire' \in Seq(Frames) /\ Len(wire') = Len(wire) - 1
        /\ \A i \in 1..Len(wire') : wire'[i] = wire[i + 1]
    <2>1. wire \in Seq(Frames)
      BY DEF PumpType
    <2> QED BY <2>1, OneLess
  <1>2. 1 \in 1..Len(wire)
    BY <1>1
  <1>3. ASSUME NEW i \in 1..Len(wire')
        PROVE  /\ i \in Nat \ {0} /\ i + 1 \in 1..Len(wire)
               /\ i + 1 = Len(wire) => i = Len(wire')
    <2>1. ASSUME NEW n \in Nat \ {0}, NEW m \in Nat, m = n - 1, NEW j \in 1..m
          PROVE  j \in Nat \ {0} /\ j + 1 \in 1..n /\ (j + 1 = n => j = m)
      BY <2>1
    <2>2. Len(wire') \in Nat
      BY <1>1
    <2> QED BY <1>1, <1>3, <2>1, <2>2
  <1>4. wire[1] = "end" => 1 = Len(wire)
    BY <1>2 DEF WireShape
  <1>5. ASSUME wire[1] = "end" PROVE wire' = <<>> /\ Ended /\ OnWay = 0
    <2>1. Len(wire) = 1
      BY <1>4, <1>5
    <2>2. Len(wire') = 0
      BY <1>1, <2>1
    <2>3. Ended /\ Last = 1 /\ First = 0
      BY <1>5, <2>1 DEF Ended, Last, First
    <2>4. OnWay = 0
      BY <2>1, <2>3 DEF OnWay
    <2> QED BY <1>1, <2>2, <2>3, <2>4, Lengths
  <1>6. ASSUME wire[1] \in {"header", "chunk"}
        PROVE  /\ Ended' <=> Ended
               /\ OnWay' = OnWay - IF wire[1] = "chunk" THEN 1 ELSE 0
    <2>1. First = IF wire[1] = "header" THEN 1 ELSE 0
      BY <1>6 DEF First
    <2>2. First' = 0
      <3>1. CASE wire' = <<>>
        BY <3>1 DEF First
      <3>2. CASE wire' # <<>>
        <4>1. 1 \in 1..Len(wire')
          BY <1>1, <3>2, Lengths
        <4>2. wire'[1] = wire[1 + 1] /\ 1 + 1 \in 1..Len(wire)
          BY <1>1, <1>3, <4>1
        <4>3. wire[1 + 1] # "header"
          BY <4>2 DEF WireShape
        <4> QED BY <4>2, <4>3 DEF First
      <3> QED BY <3>1, <3>2
    <2>3. Ended' <=> Ended
      <3>1. CASE wire' = <<>>
        <4>1. Len(wire') = 0
          BY <1>1, <3>1, Lengths
        <4>2. Len(wire) = 1
          BY <1>1, <4>1
        <4> QED BY <1>6, <3>1, <4>2 DEF Ended
      <3>2. CASE wire' # <<>>
        <4>1. Len(wire') \in 1..Len(wire') /\ Len(wire') + 1 = Len(wire)
          BY <1>1, <3>2, Lengths
        <4>2. wire'[Len(wire')] = wire[Len(wire)]
          BY <1>1, <4>1
        <4> QED BY <3>2, <4>2 DEF Ended
      <3> QED BY <3>1, <3>2
    <2>4. Last' = Last /\ Last \in {0, 1}
      BY <2>3 DEF Last
    <2>5. OnWay' = (Len(wire) - 1) - 0 - Last /\ OnWay = Len(wire) - First - Last
      BY <1>1, <2>2, <2>4 DEF OnWay
    <2>6. CASE wire[1] = "header"
      <3>1. First = 1
        BY <2>1, <2>6
      <3>2. OnWay' = OnWay - 0
        BY <1>1, <2>4, <2>5, <3>1
      <3> QED BY <2>3, <2>6, <3>2
    <2>7. CASE wire[1] = "chunk"
      <3>1. First = 0
        BY <2>1, <2>7
      <3>2. OnWay' = OnWay - 1
        BY <1>1, <2>4, <2>5, <3>1
      <3> QED BY <2>3, <2>7, <3>2
    <2> QED BY <1>6, <2>6, <2>7
  <1> QED BY <1>1, <1>2, <1>3, <1>5, <1>6

-----------------------------------------------------------------------------
(* The daemon's steps                                                        *)

LEMMA RenderDaemonInv == ASSUME RenderInv, RenderNext PROVE DaemonInv'
  BY RenderStep, DaemonNextInv DEF RenderInv

(* What is sent to somebody who has given up                                 *)
LEMMA NotReading ==
  ASSUME RenderInv, ~Reading, UNCHANGED <<say, segment, sink, opened, sizes, got>>,
         DaemonInv', PumpType', PumpShape'
  PROVE  RenderInv'
  <1>1. SayType' /\ SizesLast'
    BY RenderParts DEF SayType, SizesLast
  <1>2. WireShape'
    BY DEF WireShape, Reading
  <1> QED BY <1>1, <1>2, RenderPartsNext

LEMMA BesideInv == ASSUME RenderInv, DaemonInv', DaemonStep PROVE RenderInv'
  <1>0. DaemonInv /\ SayType /\ PumpType /\ PumpShape /\ WireShape /\ SizesLast
    BY RenderParts
  <1>1. Beside /\ conn'[Say] \in {conn[Say], "none"}
    <2>1. Say \in Conns /\ conn \in [Conns -> {"none", "waits", "starts", "served"}]
      BY <1>0, RenderingAssumption DEF DaemonInv, TypeOK
    <2>2. Gone => conn'[Say] = "none"
      BY <2>1 DEF Gone
    <2>3. CASE (Start \/ Runs \/ Stops \/ Signal \/ StartTimeout) /\ Beside
      BY <2>2, <2>3
      DEF Start, Runs, Stops, Signal, StartTimeout, LoadConfig, AdoptSockets, Serve,
          EagerEnters, EagerEnds, SayReady, CloseServers, WaitClosed, Shutdown, Reaped,
          Return
    <2>4. ASSUME NEW c \in Conns \ {Say}, Connect(c) \/ Handles(c), Beside
          PROVE  conn'[Say] = conn[Say]
      <3>1. PICK r : conn' = [conn EXCEPT ![c] = r]
        BY <2>4 DEF Connect, Handles, EnsureReady, SpawnEnds, Disconnect
      <3> QED BY <2>1, <3>1
    <2> QED BY <2>3, <2>4 DEF DaemonStep
  <1>2. UNCHANGED <<say, segment, sink, opened, sizes, got, wire, resamples, made, dropped>>
    BY <1>1 DEF Beside, sayVars
  <1>3. OnWay' = OnWay /\ (Ended' <=> Ended)
    BY <1>2 DEF OnWay, First, Last, Ended
  <1>4. 0 \in 0..MaxChunks
    BY RenderingAssumption
  <1>5. SayType' /\ SizesLast'
    BY <1>0, <1>2 DEF SayType, SizesLast
  <1>6. CASE conn'[Say] = "none"
    <2>1. pump' = "none" /\ left' = 0 /\ held' = FALSE
      BY <1>1, <1>6 DEF Beside
    <2>2. PumpType' /\ PumpShape'
      BY <1>0, <1>1, <1>2, <1>4, <1>6, <2>1 DEF PumpType, PumpShape
    <2>3. Ended /\ Reading => left' = left /\ held' = held /\ Balance
      BY <1>0, <2>1 DEF WireShape, PumpType, PumpShape
    <2>4. Ended /\ Reading => Balance'
      BY <1>2, <1>3, <2>3 DEF Balance, Held
    <2>5. WireShape'
      BY <1>0, <1>2, <1>3, <1>6, <2>1, <2>4 DEF WireShape, Reading
    <2> QED BY <1>5, <2>2, <2>5, RenderPartsNext
  <1>7. CASE conn'[Say] # "none"
    <2>1. UNCHANGED <<pump, left, held>> /\ conn'[Say] = conn[Say]
      BY <1>1, <1>7 DEF Beside
    <2>2. PumpType' /\ PumpShape'
      BY <1>0, <1>2, <2>1 DEF PumpType, PumpShape
    <2>3. Balance' <=> Balance
      BY <1>2, <1>3, <2>1 DEF Balance, Held
    <2>4. WireShape'
      BY <1>0, <1>2, <1>3, <2>1, <2>3 DEF WireShape, Reading
    <2> QED BY <1>5, <2>2, <2>4, RenderPartsNext
  <1> QED BY <1>6, <1>7

LEMMA ServesInv == ASSUME RenderInv, DaemonInv', Serves PROVE RenderInv'
  <1>0. DaemonInv /\ SayType /\ PumpType /\ PumpShape /\ WireShape /\ SizesLast
    BY RenderParts
  <1>1. Say \in Conns /\ conn \in [Conns -> {"none", "waits", "starts", "served"}]
    BY <1>0, RenderingAssumption DEF DaemonInv, TypeOK
  <1>2. /\ UNCHANGED <<say, segment, sink, opened, sizes, got, left, held, resamples,
                       made, dropped>>
        /\ conn[Say] \in {"waits", "starts"}
        /\ conn'[Say] \in {"starts", "served", "none"}
        /\ pump' = IF conn'[Say] = "served" THEN "header" ELSE "none"
        /\ Sends(IF conn'[Say] = "none" THEN <<"error">> ELSE <<>>)
    BY <1>1 DEF Serves, EnsureReady, SpawnEnds, sayVars
  <1>3. pump = "none" /\ left = 0 /\ ~held
    BY <1>0, <1>2 DEF PumpType, PumpShape
  <1>4. say \notin {"idle", "connect", "close", "done", "body"}
    BY <1>0, <1>2 DEF PumpShape, WireShape, Reading
  <1>5. PumpShape'
    BY <1>2, <1>3, <1>4 DEF PumpShape
  <1>6. Reading => wire = <<>> /\ got + dropped = made
    BY <1>0, <1>2 DEF WireShape
  <1>7. <<"error">> \in Seq(Frames) /\ <<>> \in Seq(Frames)
    BY DEF Frames
  <1>8. CASE Reading
    <2>1. wire' = IF conn'[Say] = "none" THEN <<"error">> ELSE <<>>
      BY <1>2, <1>6, <1>8 DEF Sends, Reading
    <2>2. PumpType'
      BY <1>0, <1>2, <1>7, <2>1 DEF PumpType
    <2>3. ~Ended'
      BY <2>1 DEF Ended
    <2>4. WireShape'
      BY <1>2, <1>4, <1>6, <1>8, <2>1, <2>3 DEF WireShape, Reading
    <2>5. SayType' /\ SizesLast'
      BY <1>0, <1>2 DEF SayType, SizesLast
    <2> QED BY <1>5, <2>2, <2>4, <2>5, RenderPartsNext
  <1>9. CASE ~Reading
    <2>1. wire' = wire
      BY <1>2, <1>9 DEF Sends, Reading
    <2>2. PumpType'
      BY <1>0, <1>2, <2>1 DEF PumpType
    <2> QED BY <1>2, <1>5, <1>9, <2>2, NotReading
  <1> QED BY <1>8, <1>9

LEMMA PumpHeaderInv == ASSUME RenderInv, DaemonInv', PumpHeader PROVE RenderInv'
  <1>0. DaemonInv /\ SayType /\ PumpType /\ PumpShape /\ WireShape /\ SizesLast
    BY RenderParts
  <1>1. /\ UNCHANGED <<conn, say, segment, sink, opened, sizes, got, held, resamples, dropped>>
        /\ pump = "header" /\ pump' = "stream" /\ Sends(<<"header">>)
        /\ left' \in 0..MaxChunks /\ made' = made + left'
    BY DEF PumpHeader, vars, sayVars
  <1>2. conn[Say] = "served" /\ left = 0 /\ ~held
    BY <1>0, <1>1 DEF PumpType, PumpShape
  <1>3. left' \in Nat /\ made' \in Nat
    <2>1. MaxChunks \in Nat /\ made \in Nat
      BY <1>0, RenderingAssumption DEF PumpType
    <2>2. left' \in Nat
      BY <1>1, <2>1
    <2>3. PICK l \in Nat : l = left'
      BY <2>2
    <2>4. made' = made + l
      BY <1>1, <2>3
    <2> QED BY <2>1, <2>2, <2>4
  <1>4. PumpShape'
    BY <1>0, <1>1, <1>2 DEF PumpShape
  <1>5. CASE Reading
    <2>1. wire = <<>> /\ got + dropped = made /\ say = "header"
      BY <1>0, <1>1, <1>5 DEF WireShape, Reading
    <2>2. wire' = <<"header">>
      BY <1>1, <1>5, <2>1 DEF Sends, Reading
    <2>3. wire' \in Seq(Frames) /\ Len(wire') = 1 /\ wire'[1] = "header"
      BY <2>2 DEF Frames
    <2>4. PumpType'
      BY <1>0, <1>1, <1>2, <1>3, <2>3 DEF PumpType
    <2>5. ~Ended' /\ OnWay' = 0
      <3>1. wire' # <<>>
        BY <2>2
      <3>2. ~Ended' /\ First' = 1
        BY <2>3, <3>1 DEF Ended, First
      <3>3. OnWay' = 1 - 1 - 0
        BY <2>3, <3>2 DEF OnWay, Last
      <3> QED BY <3>2, <3>3
    <2>6. Balance'
      <3>1. Held' = 0
        BY <1>1, <1>2 DEF Held
      <3>2. got \in Nat /\ dropped \in Nat
        BY <1>0 DEF SayType, PumpType
      <3> QED BY <1>1, <1>3, <2>1, <2>5, <3>1, <3>2 DEF Balance
    <2>7. WireShape'
      BY <1>1, <1>2, <2>1, <2>3, <2>5, <2>6 DEF WireShape, Reading
    <2>8. SayType' /\ SizesLast'
      BY <1>0, <1>1 DEF SayType, SizesLast
    <2> QED BY <1>4, <2>4, <2>7, <2>8, RenderPartsNext
  <1>6. CASE ~Reading
    <2>1. PumpType'
      BY <1>0, <1>1, <1>2, <1>3, <1>6 DEF PumpType, Sends, Reading
    <2> QED BY <1>1, <1>4, <1>6, <2>1, NotReading
  <1> QED BY <1>5, <1>6

(* The pump streams: it sends nothing, or one more chunk, and what it sends  *)
(* is what it has no more.                                                   *)
LEMMA StreamInv ==
  ASSUME RenderInv, DaemonInv', pump = "stream",
         UNCHANGED <<conn, say, segment, sink, opened, sizes, got, resamples, made>>,
         pump' \in {"stream", "end"}, PumpShape', left' \in 0..MaxChunks, held' \in BOOLEAN,
         dropped' \in Nat, NEW sent \in {0, 1},
         sent = 0 => Sends(<<>>), sent = 1 => Sends(<<"chunk">>),
         dropped' + left' + Held' + sent = dropped + left + Held
  PROVE  RenderInv'
  <1>0. DaemonInv /\ SayType /\ PumpType /\ PumpShape /\ WireShape /\ SizesLast
    BY RenderParts
  <1>1. conn[Say] = "served"
    BY <1>0 DEF PumpType
  <1>2. SayType' /\ SizesLast'
    BY <1>0 DEF SayType, SizesLast
  <1>3. CASE ~Reading
    <2>1. wire' = wire
      BY <1>3 DEF Sends, Reading
    <2>2. PumpType'
      BY <1>0, <1>1, <2>1 DEF PumpType
    <2> QED BY <1>3, <2>2, NotReading
  <1>4. CASE Reading
    <2>1. ~Ended /\ Balance
      BY <1>0, <1>4 DEF WireShape
    <2>2. wire \in Seq(Frames)
      BY <1>0 DEF PumpType
    <2>3. /\ wire' \in Seq(Frames) /\ ~Ended' /\ OnWay' = OnWay + sent
          /\ \A i \in 1..Len(wire') : (i \in 1..Len(wire) /\ wire'[i] = wire[i])
                                      \/ wire'[i] = "chunk"
      <3>1. CASE sent = 0
        <4>1. wire' = wire
          BY <1>4, <2>2, <3>1, Lengths DEF Sends, Reading
        <4>2. OnWay' = OnWay /\ ~Ended'
          BY <2>1, <4>1 DEF OnWay, First, Last, Ended
        <4> QED BY <1>0, <2>2, <3>1, <4>1, <4>2, OnWayIsInt
      <3>2. CASE sent = 1
        <4>1. wire' = wire \o <<"chunk">>
          BY <1>4, <3>2 DEF Sends, Reading
        <4>2. /\ wire' \in Seq(Frames) /\ Len(wire) \in Nat /\ Len(wire') = Len(wire) + 1
              /\ \A i \in 1..Len(wire) : wire'[i] = wire[i]
              /\ wire'[Len(wire) + 1] = "chunk" /\ OnWay' = OnWay + 1 /\ ~Ended'
          BY <1>0, <2>1, <4>1, Grows
        <4>3. \A i \in 1..Len(wire') : i \in 1..Len(wire) \/ i = Len(wire) + 1
          BY <4>2
        <4> QED BY <3>2, <4>2, <4>3
      <3> QED BY <3>1, <3>2
    <2>4. PumpType'
      BY <1>0, <1>1, <2>3 DEF PumpType
    <2>5. Balance'
      <3>1. /\ got \in Nat /\ dropped \in Nat /\ left \in Nat /\ left' \in Nat
            /\ Held \in Nat /\ Held' \in Nat /\ OnWay \in Int
        BY <1>0, OnWayIsInt, RenderingAssumption DEF SayType, PumpType, Held
      <3>2. got + dropped + left + Held + OnWay = made
        BY <2>1 DEF Balance
      <3>3. PICK d \in Nat, l \in Nat, h \in Nat : d = dropped' /\ l = left' /\ h = Held'
        BY <3>1
      <3>4. d + l + h + sent = dropped + left + Held
        BY <3>3
      <3>5. got + d + l + h + (OnWay + sent) = made
        <4>1. CASE sent = 0
          BY <3>1, <3>2, <3>4, <4>1
        <4>2. CASE sent = 1
          BY <3>1, <3>2, <3>4, <4>2
        <4> QED BY <4>1, <4>2
      <3> QED BY <2>3, <3>3, <3>5 DEF Balance
    <2>6. \A i \in 1..Len(wire) : wire[i] # "end"
      <3>1. \A i \in 1..Len(wire) : wire[i] = "end" => i = Len(wire)
        BY <1>0, <1>4 DEF WireShape
      <3>2. Len(wire) \in 1..Len(wire) => wire # <<>>
        BY <2>2, Lengths
      <3> QED BY <2>1, <3>1, <3>2 DEF Ended
    <2>7. WireShape'
      BY <1>0, <1>1, <1>4, <2>3, <2>5, <2>6 DEF WireShape, Reading
    <2> QED BY <1>2, <2>4, <2>7, RenderPartsNext
  <1> QED BY <1>3, <1>4

LEMMA PumpChunkInv == ASSUME RenderInv, DaemonInv', PumpChunk PROVE RenderInv'
  <1>0. DaemonInv /\ SayType /\ PumpType /\ PumpShape /\ WireShape /\ SizesLast
    BY RenderParts
  <1>1. /\ UNCHANGED <<conn, say, segment, sink, opened, sizes, got, resamples, made>>
        /\ pump = "stream" /\ pump' = "stream" /\ dropped' = dropped
        /\ left > 0 /\ left' = left - 1 /\ held' = resamples
        /\ Sends(IF resamples /\ ~held THEN <<>> ELSE <<"chunk">>)
    BY DEF PumpChunk, vars, sayVars
  <1>2. /\ left \in 0..MaxChunks /\ MaxChunks \in Nat /\ dropped \in Nat
        /\ held \in BOOLEAN /\ resamples \in BOOLEAN /\ (held => resamples)
    BY <1>0, RenderingAssumption DEF PumpType, PumpShape
  <1>3. left' \in 0..MaxChunks /\ held' \in BOOLEAN
    BY <1>1, <1>2
  <1>4. PumpShape'
    BY <1>0, <1>1 DEF PumpShape
  <1>5. CASE resamples /\ ~held
    <2>1. Held = 0 /\ Held' = 1
      BY <1>1, <1>5 DEF Held
    <2>2. dropped' + left' + Held' + 0 = dropped + left + Held
      BY <1>1, <1>2, <2>1
    <2> QED BY <1>1, <1>2, <1>3, <1>4, <1>5, <2>2, StreamInv
  <1>6. CASE ~(resamples /\ ~held)
    <2>1. Held' = Held /\ Held \in Nat
      BY <1>1, <1>2, <1>6 DEF Held
    <2>2. dropped' + left' + Held' + 1 = dropped + left + Held
      BY <1>1, <1>2, <2>1
    <2> QED BY <1>1, <1>2, <1>3, <1>4, <1>6, <2>2, StreamInv
  <1> QED BY <1>5, <1>6

LEMMA PumpTailInv == ASSUME RenderInv, DaemonInv', PumpTail PROVE RenderInv'
  <1>0. DaemonInv /\ SayType /\ PumpType /\ PumpShape /\ WireShape /\ SizesLast
    BY RenderParts
  <1>1. /\ UNCHANGED <<conn, say, segment, sink, opened, sizes, got, resamples, made>>
        /\ pump = "stream" /\ pump' = "end" /\ dropped' = dropped
        /\ left = 0 /\ left' = 0 /\ held' = FALSE
        /\ Sends(IF held THEN <<"chunk">> ELSE <<>>)
    BY DEF PumpTail, vars, sayVars
  <1>2. dropped \in Nat /\ 0 \in 0..MaxChunks
    BY <1>0, RenderingAssumption DEF PumpType
  <1>3. PumpShape'
    BY <1>0, <1>1 DEF PumpShape
  <1>4. Held' = 0 /\ held' \in BOOLEAN /\ pump' \in {"stream", "end"}
    BY <1>1 DEF Held
  <1>5. CASE held
    <2>1. dropped' + left' + Held' + 1 = dropped + left + Held
      BY <1>1, <1>2, <1>4, <1>5 DEF Held
    <2> QED BY <1>1, <1>2, <1>3, <1>4, <1>5, <2>1, StreamInv
  <1>6. CASE ~held
    <2>1. dropped' + left' + Held' + 0 = dropped + left + Held
      BY <1>1, <1>2, <1>4, <1>6 DEF Held
    <2> QED BY <1>1, <1>2, <1>3, <1>4, <1>6, <2>1, StreamInv
  <1> QED BY <1>5, <1>6

LEMMA PumpFailsInv == ASSUME RenderInv, DaemonInv', PumpFails PROVE RenderInv'
  <1>0. DaemonInv /\ SayType /\ PumpType /\ PumpShape /\ WireShape /\ SizesLast
    BY RenderParts
  <1>1. /\ UNCHANGED <<conn, say, segment, sink, opened, sizes, got, resamples, made>>
        /\ pump = "stream" /\ pump' = "end" /\ wire' = wire
        /\ dropped' = dropped + left + Held /\ left' = 0 /\ held' = FALSE
    BY DEF PumpFails, vars, sayVars, Held
  <1>2. dropped \in Nat /\ left \in Nat /\ Held \in Nat /\ 0 \in 0..MaxChunks
    BY <1>0, RenderingAssumption DEF PumpType, Held
  <1>3. PumpShape'
    BY <1>0, <1>1 DEF PumpShape, PumpType
  <1>4. Held' = 0 /\ held' \in BOOLEAN /\ pump' \in {"stream", "end"}
    BY <1>1 DEF Held
  <1>5. dropped' \in Nat /\ dropped' + left' + Held' + 0 = dropped + left + Held
    BY <1>1, <1>2, <1>4
  <1>6. Sends(<<>>)
    BY <1>0, <1>1, Lengths DEF Sends, PumpType
  <1> QED BY <1>1, <1>2, <1>3, <1>4, <1>5, <1>6, StreamInv

LEMMA PumpEndInv == ASSUME RenderInv, DaemonInv', PumpEnd PROVE RenderInv'
  <1>0. DaemonInv /\ SayType /\ PumpType /\ PumpShape /\ WireShape /\ SizesLast
    BY RenderParts
  <1>1. /\ UNCHANGED <<say, segment, sink, opened, sizes, got, left, held, resamples,
                       made, dropped>>
        /\ pump = "end" /\ pump' = "none" /\ Sends(<<"end">>) /\ conn'[Say] = "none"
    BY <1>0, RenderingAssumption
    DEF PumpEnd, Disconnect, sayVars, DaemonInv, TypeOK
  <1>2. PumpShape' /\ SayType' /\ SizesLast'
    BY <1>0, <1>1 DEF PumpShape, SayType, SizesLast
  <1>3. CASE Reading
    <2>1. ~Ended /\ Balance
      BY <1>0, <1>1, <1>3 DEF WireShape
    <2>2. wire' = wire \o <<"end">>
      BY <1>1, <1>3 DEF Sends, Reading
    <2>3. /\ wire' \in Seq(Frames) /\ Len(wire) \in Nat /\ Len(wire') = Len(wire) + 1
          /\ \A i \in 1..Len(wire) : wire'[i] = wire[i]
          /\ wire'[Len(wire) + 1] = "end" /\ OnWay' = OnWay + 0 /\ Ended'
      BY <1>0, <2>1, <2>2, Grows
    <2>4. \A i \in 1..Len(wire') : i \in 1..Len(wire) \/ i = Len(wire')
      BY <2>3
    <2>5. \A i \in 1..Len(wire) : wire[i] # "end"
      <3>1. \A i \in 1..Len(wire) : wire[i] = "end" => i = Len(wire)
        BY <1>0, <1>3 DEF WireShape
      <3>2. Len(wire) \in 1..Len(wire) => wire # <<>>
        BY <1>0, Lengths DEF PumpType
      <3> QED BY <2>1, <3>1, <3>2 DEF Ended
    <2>6. OnWay' = OnWay
      BY <1>0, <2>3, OnWayIsInt
    <2>7. Balance'
      BY <1>1, <2>1, <2>6 DEF Balance, Held
    <2>8. PumpType'
      BY <1>0, <1>1, <2>3 DEF PumpType
    <2>9. wire'[Len(wire')] = "end"
      BY <2>3
    <2>10. WireShape'
      BY <1>0, <1>1, <1>3, <2>3, <2>4, <2>5, <2>7, <2>9 DEF WireShape, Reading
    <2> QED BY <1>2, <2>8, <2>10, RenderPartsNext
  <1>4. CASE ~Reading
    <2>1. PumpType'
      BY <1>0, <1>1, <1>4 DEF PumpType, Sends, Reading
    <2> QED BY <1>1, <1>2, <1>4, <2>1, NotReading
  <1> QED BY <1>3, <1>4

LEMMA HangsUpInv == ASSUME RenderInv, DaemonInv', HangsUp PROVE RenderInv'
  <1>0. DaemonInv /\ SayType /\ PumpType /\ PumpShape /\ WireShape /\ SizesLast
    BY RenderParts
  <1>1. /\ UNCHANGED <<say, segment, sink, opened, sizes, got, wire, resamples, made, dropped>>
        /\ ~Reading /\ pump' = "none" /\ left' = 0 /\ held' = FALSE /\ conn'[Say] = "none"
    BY <1>0, RenderingAssumption
    DEF HangsUp, Disconnect, sayVars, Reading, DaemonInv, TypeOK
  <1>2. 0 \in 0..MaxChunks
    BY RenderingAssumption
  <1>3. PumpType' /\ PumpShape'
    BY <1>0, <1>1, <1>2 DEF PumpType, PumpShape
  <1> QED BY <1>1, <1>3, NotReading

-----------------------------------------------------------------------------
(* The steps of neural-tts-say                                               *)

(* It gives up, whatever is on the way.                                      *)
LEMMA GivesUpInv ==
  ASSUME RenderInv, DaemonInv', say' \in {"failed", "died"}, SayType', wire' \in Seq(Frames),
         UNCHANGED <<conn, pump, left, held, resamples, made, dropped>>, sizes' = 0
  PROVE  RenderInv'
  <1>0. PumpType /\ PumpShape
    BY RenderParts
  <1>1. PumpType' /\ PumpShape'
    BY <1>0 DEF PumpType, PumpShape
  <1>2. WireShape' /\ SizesLast'
    BY DEF WireShape, Reading, SizesLast
  <1> QED BY <1>1, <1>2, RenderPartsNext

LEMMA PrepareInv == ASSUME RenderInv, DaemonInv', Prepare PROVE RenderInv'
  <1>0. SayType /\ PumpType /\ PumpShape /\ WireShape /\ SizesLast
    BY RenderParts
  <1>1. /\ say = "idle" /\ say' \in {"connect", "failed"}
        /\ UNCHANGED <<conn, segment, sink, opened, sizes, got, wire, pump, left, held,
                       resamples, made, dropped>>
    BY DEF Prepare, Says, KeepSink, vars, pumpVars
  <1>2. SayType' /\ PumpType' /\ SizesLast'
    BY <1>0, <1>1 DEF SayType, PumpType, SizesLast
  <1>3. PumpShape' /\ WireShape'
    BY <1>0, <1>1 DEF PumpShape, WireShape, Reading
  <1> QED BY <1>2, <1>3, RenderPartsNext

LEMMA DialInv == ASSUME RenderInv, DaemonInv', Dial PROVE RenderInv'
  <1>0. DaemonInv /\ SayType /\ PumpType /\ PumpShape /\ WireShape /\ SizesLast
    BY RenderParts
  <1>1. /\ say = "connect"
        /\ UNCHANGED <<segment, sink, opened, sizes, got, pump, left, held, resamples,
                       made, dropped>>
    BY DEF Dial, KeepSink
  <1>2. got + dropped = made /\ conn[Say] = "none" /\ pump = "none" /\ sizes = 0
    BY <1>0, <1>1 DEF PumpShape, PumpType, SizesLast
  <1>3. CASE Connect(Say) /\ say' = "header" /\ wire' = <<>>
    <2>1. conn'[Say] = "waits"
      BY <1>0, <1>3, RenderingAssumption DEF Connect, DaemonInv, TypeOK
    <2>2. <<>> \in Seq(Frames) /\ ~Ended'
      BY <1>3 DEF Ended
    <2>3. SayType' /\ PumpType' /\ SizesLast'
      BY <1>0, <1>1, <1>2, <1>3, <2>1, <2>2 DEF SayType, PumpType, SizesLast
    <2>4. PumpShape' /\ WireShape'
      BY <1>0, <1>1, <1>2, <1>3, <2>1, <2>2 DEF PumpShape, WireShape, Reading
    <2> QED BY <2>3, <2>4, RenderPartsNext
  <1>4. CASE say' = "failed" /\ UNCHANGED <<conn, wire>>
    <2>1. SayType' /\ wire' \in Seq(Frames)
      BY <1>0, <1>1, <1>4 DEF SayType, PumpType
    <2> QED BY <1>1, <1>2, <1>4, <2>1, GivesUpInv
  <1> QED BY <1>3, <1>4 DEF Dial, Says, vars

(* A frame is read: what every such step has in common                       *)
LEMMA ReadsFacts ==
  ASSUME RenderInv, Reading, NEW f, Reads(f)
  PROVE  /\ wire # <<>> /\ wire' = Tail(wire) /\ wire[1] = f /\ 1 \in 1..Len(wire)
         /\ UNCHANGED <<conn, pump, left, held, resamples, made, dropped>>
         /\ wire' \in Seq(Frames)
         /\ \A i \in 1..Len(wire') : /\ wire'[i] = wire[i + 1]
                                     /\ i \in Nat \ {0} /\ i + 1 \in 1..Len(wire)
                                     /\ i + 1 = Len(wire) => i = Len(wire')
         /\ f \in {"header", "chunk"} =>
              /\ Ended' <=> Ended
              /\ OnWay' = OnWay - IF f = "chunk" THEN 1 ELSE 0
         /\ f = "end" => wire' = <<>> /\ Ended /\ OnWay = 0
         /\ conn[Say] \in {"none", "served"} /\ pump # "header" /\ sizes = 0
         /\ \A i \in 1..Len(wire') : /\ wire'[i] \notin {"header", "error"}
                                     /\ wire'[i] = "end" => i = Len(wire')
  <1>0. DaemonInv /\ SayType /\ PumpType /\ PumpShape /\ WireShape /\ SizesLast
    BY RenderParts
  <1>1. /\ wire # <<>> /\ wire' = Tail(wire) /\ Head(wire) = f
        /\ UNCHANGED <<conn, pump, left, held, resamples, made, dropped>>
    BY DEF Reads, vars
  <1>2. /\ wire' \in Seq(Frames) /\ wire[1] = f /\ 1 \in 1..Len(wire)
        /\ \A i \in 1..Len(wire') : /\ wire'[i] = wire[i + 1]
                                     /\ i \in Nat \ {0} /\ i + 1 \in 1..Len(wire)
                                     /\ i + 1 = Len(wire) => i = Len(wire')
        /\ f \in {"header", "chunk"} =>
              /\ Ended' <=> Ended
              /\ OnWay' = OnWay - IF f = "chunk" THEN 1 ELSE 0
        /\ f = "end" => wire' = <<>> /\ Ended /\ OnWay = 0
    BY <1>0, <1>1, Shrinks
  <1>3. conn[Say] \in {"none", "served"} /\ pump # "header" /\ sizes = 0
    <2>1. conn[Say] \in {"none", "waits", "starts", "served"}
      BY <1>0, RenderingAssumption DEF DaemonInv, TypeOK
    <2> QED BY <1>0, <1>1, <2>1 DEF WireShape, SizesLast, Reading
  <1>4. ASSUME NEW i \in 1..Len(wire')
        PROVE  /\ wire'[i] \notin {"header", "error"}
               /\ wire'[i] = "end" => i = Len(wire')
    <2>1. wire'[i] = wire[i + 1] /\ i \in Nat \ {0} /\ i + 1 \in 1..Len(wire)
      <3>1. \A j \in 1..Len(wire') :
              wire'[j] = wire[j + 1] /\ j \in Nat \ {0} /\ j + 1 \in 1..Len(wire)
        BY <1>0, <1>1, Shrinks
      <3> QED BY <3>1
    <2>2. i + 1 # 1
      BY <2>1
    <2> QED BY <1>0, <1>2, <1>4, <2>1, <2>2 DEF WireShape
  <1> QED BY <1>1, <1>2, <1>3, <1>4

LEMMA TakeHeaderInv == ASSUME RenderInv, DaemonInv', TakeHeader PROVE RenderInv'
  <1>0. SayType /\ PumpType /\ PumpShape /\ WireShape /\ SizesLast
    BY RenderParts
  <1>1. /\ say = "header" /\ Reading /\ Reads("header")
        /\ UNCHANGED <<segment, sink, sizes, got>>
        /\ \/ say' = "body" /\ opened' = TRUE
           \/ say' = "failed" /\ opened' = opened
    BY DEF TakeHeader, Reading, Says
  <1>2. /\ UNCHANGED <<conn, pump, left, held, resamples, made, dropped>>
        /\ wire' \in Seq(Frames) /\ (Ended' <=> Ended) /\ OnWay' = OnWay - 0
        /\ conn[Say] \in {"none", "served"} /\ pump # "header" /\ sizes = 0
        /\ \A i \in 1..Len(wire') : /\ wire'[i] \notin {"header", "error"}
                                    /\ wire'[i] = "end" => i = Len(wire')
    BY <1>1, ReadsFacts
  <1>3. SayType'
    <2>1. opened' \in BOOLEAN
      BY <1>0, <1>1 DEF SayType
    <2> QED BY <1>0, <1>1, <2>1 DEF SayType
  <1>4. CASE say' = "failed"
    BY <1>1, <1>2, <1>3, <1>4, GivesUpInv
  <1>5. CASE say' = "body"
    <2>1. PumpType' /\ PumpShape' /\ SizesLast'
      BY <1>0, <1>1, <1>2, <1>5 DEF PumpType, PumpShape, SizesLast
    <2>2. OnWay' = OnWay
      BY <1>0, <1>2, OnWayIsInt
    <2>3. Balance' <=> Balance
      BY <1>1, <1>2, <2>2 DEF Balance, Held
    <2>4. WireShape'
      BY <1>0, <1>1, <1>2, <1>5, <2>3 DEF WireShape, Reading
    <2> QED BY <1>3, <2>1, <2>4, RenderPartsNext
  <1> QED BY <1>1, <1>4, <1>5

LEMMA TakeChunkInv == ASSUME RenderInv, DaemonInv', TakeChunk PROVE RenderInv'
  <1>0. SayType /\ PumpType /\ PumpShape /\ WireShape /\ SizesLast
    BY RenderParts
  <1>1. /\ say = "body" /\ Reading /\ Reads("chunk")
        /\ UNCHANGED <<segment, sink, opened, sizes>>
        /\ \/ say' = "body" /\ got' = got + 1
           \/ say' = "failed" /\ got' = got
    BY DEF TakeChunk, Reading, Says
  <1>2. /\ UNCHANGED <<conn, pump, left, held, resamples, made, dropped>>
        /\ wire' \in Seq(Frames) /\ (Ended' <=> Ended) /\ OnWay' = OnWay - 1
        /\ conn[Say] \in {"none", "served"} /\ pump # "header" /\ sizes = 0
        /\ \A i \in 1..Len(wire') : /\ wire'[i] \notin {"header", "error"}
                                    /\ wire'[i] = "end" => i = Len(wire')
    BY <1>1, ReadsFacts
  <1>3. SayType'
    <2>1. got' \in Nat
      BY <1>0, <1>1 DEF SayType
    <2> QED BY <1>0, <1>1, <2>1 DEF SayType
  <1>4. CASE say' = "failed"
    BY <1>1, <1>2, <1>3, <1>4, GivesUpInv
  <1>5. CASE say' = "body"
    <2>1. PumpType' /\ PumpShape' /\ SizesLast'
      BY <1>0, <1>1, <1>2, <1>5 DEF PumpType, PumpShape, SizesLast
    <2>2. Balance => Balance'
      <3>1. /\ got \in Nat /\ dropped \in Nat /\ left \in Nat /\ Held \in Nat /\ OnWay \in Int
        BY <1>0, OnWayIsInt, RenderingAssumption DEF SayType, PumpType, Held
      <3>2. got + dropped + left + Held + OnWay
              = (got + 1) + dropped + left + Held + (OnWay - 1)
        BY <3>1
      <3>3. Held' = Held /\ got' = got + 1
        BY <1>1, <1>2, <1>5 DEF Held
      <3> QED BY <1>2, <3>2, <3>3 DEF Balance
    <2>3. WireShape'
      BY <1>0, <1>1, <1>2, <1>5, <2>2 DEF WireShape, Reading
    <2> QED BY <1>3, <2>1, <2>3, RenderPartsNext
  <1> QED BY <1>1, <1>4, <1>5

LEMMA TakeEndInv == ASSUME RenderInv, DaemonInv', TakeEnd PROVE RenderInv'
  <1>0. SayType /\ PumpType /\ PumpShape /\ WireShape /\ SizesLast
    BY RenderParts
  <1>1. /\ say = "body" /\ Reading /\ Reads("end")
        /\ UNCHANGED <<sink, opened, sizes, got>>
        /\ \/ say' = "connect" /\ segment < Segments /\ segment' = segment + 1
           \/ say' = "close" /\ segment' = segment
    BY DEF TakeEnd, Reading, Says, KeepSink
  <1>2. /\ UNCHANGED <<conn, pump, left, held, resamples, made, dropped>>
        /\ wire' \in Seq(Frames) /\ Ended /\ OnWay = 0 /\ sizes = 0
    BY <1>1, ReadsFacts
  <1>3. SayType'
    <2>1. segment' \in 1..Segments
      BY <1>0, <1>1, RenderingAssumption DEF SayType
    <2> QED BY <1>0, <1>1, <2>1 DEF SayType
  <1>4. conn[Say] = "none" /\ Balance /\ pump = "none"
    BY <1>0, <1>1, <1>2 DEF WireShape, PumpType
  <1>5. got + dropped = made
    <2>1. left = 0 /\ Held = 0
      BY <1>0, <1>4 DEF PumpShape, Held
    <2>2. got \in Nat /\ dropped \in Nat
      BY <1>0 DEF SayType, PumpType
    <2>3. got + dropped + 0 + 0 + 0 = made
      BY <1>2, <1>4, <2>1 DEF Balance
    <2> QED BY <2>2, <2>3
  <1>6. PumpType' /\ PumpShape' /\ SizesLast'
    BY <1>0, <1>1, <1>2, <1>4, <1>5 DEF PumpType, PumpShape, SizesLast
  <1>7. WireShape'
    BY <1>1 DEF WireShape, Reading
  <1> QED BY <1>3, <1>6, <1>7, RenderPartsNext

LEMMA TakeErrorInv == ASSUME RenderInv, DaemonInv', TakeError PROVE RenderInv'
  <1>0. SayType
    BY RenderParts
  <1>1. /\ Reading /\ Reads("error") /\ say' = "failed"
        /\ UNCHANGED <<segment, sink, opened, sizes, got>>
    BY DEF TakeError, Reading, Says, KeepSink
  <1>2. /\ UNCHANGED <<conn, pump, left, held, resamples, made, dropped>>
        /\ wire' \in Seq(Frames) /\ sizes = 0
    BY <1>1, ReadsFacts
  <1>3. SayType'
    BY <1>0, <1>1 DEF SayType
  <1> QED BY <1>1, <1>2, <1>3, GivesUpInv

LEMMA ShortReadInv == ASSUME RenderInv, DaemonInv', ShortRead PROVE RenderInv'
  <1>0. SayType /\ PumpType /\ SizesLast
    BY RenderParts
  <1>1. /\ Reading /\ say' = "failed"
        /\ UNCHANGED <<conn, segment, sink, opened, sizes, got, wire, pump, left, held,
                       resamples, made, dropped>>
    BY DEF ShortRead, Reading, Says, KeepSink, vars, pumpVars
  <1>2. SayType' /\ wire' \in Seq(Frames) /\ sizes' = 0
    BY <1>0, <1>1 DEF SayType, PumpType, SizesLast, Reading
  <1> QED BY <1>1, <1>2, GivesUpInv

LEMMA CloseSinkInv == ASSUME RenderInv, DaemonInv', CloseSink PROVE RenderInv'
  <1>0. SayType /\ PumpType /\ PumpShape /\ WireShape /\ SizesLast
    BY RenderParts
  <1>1. /\ say = "close" /\ sizes = 0
        /\ UNCHANGED <<conn, segment, sink, opened, got, wire, pump, left, held, resamples,
                       made, dropped>>
    BY <1>0 DEF CloseSink, SizesLast, vars, pumpVars
  <1>2. \/ say' = "done" /\ sizes' = IF sink = "file" THEN got ELSE 0
        \/ say' \in {"died", "failed"} /\ sizes' = 0
    BY <1>1 DEF CloseSink, Says
  <1>3. SayType' /\ PumpType'
    BY <1>0, <1>1, <1>2 DEF SayType, PumpType
  <1>4. PumpShape' /\ WireShape' /\ SizesLast'
    BY <1>0, <1>1, <1>2 DEF PumpShape, WireShape, Reading, SizesLast
  <1> QED BY <1>3, <1>4, RenderPartsNext

-----------------------------------------------------------------------------
(* The results                                                               *)

LEMMA RenderNextInv == RenderInv /\ [RenderNext]_renderVars => RenderInv'
  <1> SUFFICES ASSUME RenderInv, [RenderNext]_renderVars PROVE RenderInv'
    OBVIOUS
  <1>1. CASE RenderNext
    <2>1. DaemonInv'
      BY <1>1, RenderDaemonInv
    <2>2. CASE DaemonStep \/ Serves
      BY <2>1, <2>2, BesideInv, ServesInv
    <2>3. CASE Pumps
      BY <2>1, <2>3, PumpHeaderInv, PumpChunkInv, PumpTailInv, PumpFailsInv, PumpEndInv,
         HangsUpInv DEF Pumps
    <2>4. CASE SayStep
      BY <2>1, <2>4, PrepareInv, DialInv, TakeHeaderInv, TakeChunkInv, TakeEndInv,
         TakeErrorInv, ShortReadInv, CloseSinkInv DEF SayStep
    <2> QED BY <1>1, <2>2, <2>3, <2>4 DEF RenderNext
  <1>2. CASE UNCHANGED renderVars
    <2>1. UNCHANGED <<vars, say, segment, sink, opened, sizes, got, wire, pump, left, held,
                      resamples, made, dropped>>
      BY <1>2 DEF renderVars, sayVars, pumpVars
    <2>2. DaemonInv' /\ conn' = conn
      BY <2>1, DaemonNextInv, RenderParts DEF vars
    <2>3. SayType' /\ PumpType' /\ PumpShape' /\ SizesLast'
      BY <2>1, <2>2, RenderParts DEF SayType, PumpType, PumpShape, SizesLast
    <2>4. WireShape'
      BY <2>1, <2>2, RenderParts
      DEF WireShape, Reading, Ended, Balance, Held, OnWay, First, Last
    <2> QED BY <2>2, <2>3, <2>4, RenderPartsNext
  <1> QED BY <1>1, <1>2

LEMMA RenderInductive == RenderSpec => []RenderInv
  BY RenderInitInv, RenderNextInv, PTL DEF RenderSpec

(* "done: n segment(s)" means that every chunk the providers made for any    *)
(* number of segments is in the output, or was lost by a provider's failure, *)
(* which the daemon does not tell: nothing is left in the resampler, on the  *)
(* way, or behind a daemon that died meanwhile                               *)
(* (proxy.py:92-122, the loop over segments of bin/neural-tts-say).           *)
THEOREM DoneIsWhole == RenderSpec => []DoneMeansWhole
  <1>1. RenderInv => DoneMeansWhole
    BY DEF RenderInv, PumpShape, DoneMeansWhole
  <1> QED BY <1>1, RenderInductive, PTL

(* The header of a WAV file tells exactly the data after it when the         *)
(* rendering is done, and until then, or for ever if it was given up, none   *)
(* (neural-tts-say, Output.close).                                           *)
THEOREM HeaderTellsData == RenderSpec => []HeaderFits
  <1>1. RenderInv => HeaderFits
    BY DEF RenderInv, SizesLast, HeaderFits
  <1> QED BY <1>1, RenderInductive, PTL

(* Also with a rendering going on, whose connection may be waiting for a     *)
(* provider when the signal comes, the daemon ends without a provider        *)
(* (daemon.py:147-158).                                                      *)
THEOREM StoppedUnderRendering == RenderSpec => []StopLeavesNone
  BY RenderingImplementsDaemon, StoppedDaemonHasNoProvider, PTL
================================================================================
