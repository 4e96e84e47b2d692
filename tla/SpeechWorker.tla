----------------------------- MODULE SpeechWorker -----------------------------
(***************************************************************************)
(* The speech-dispatcher module (bin/sd-neural-tts): the main thread, which *)
(* reads SPEAK and STOP commands, against the worker threads that it        *)
(* starts, each with a connection to the daemon and a paplay process.       *)
(*                                                                         *)
(* A speech u is the u-th SPEAK, and also names the worker thread, the      *)
(* connection and the player made for it.  There is one SpeechWorker        *)
(* object: thread, conn, player and stop are its fields, which every worker *)
(* thread uses.                                                             *)
(***************************************************************************)
EXTENDS Naturals, Sequences

CONSTANTS
  MaxSpeeches, \* bound: SPEAK commands with a text
  MaxStops,    \* bound: STOP commands
  MaxChunks    \* bound: audio chunks of one reply

ASSUME SpeechWorkerAssumption ==
  MaxSpeeches \in Nat /\ MaxStops \in Nat /\ MaxChunks \in Nat

Speeches == 1..MaxSpeeches
Nobody   == 0

VARIABLES
  \* the main thread
  main,      \* where it is: reading a command, or in stop()
  next,      \* the speech that start() goes on to after stop(), if any
  speeches,  \* SPEAK commands so far
  stops,     \* STOP commands so far
  \* the fields of the SpeechWorker
  thread, conn, player, \* _thread, _conn, _paplay
  stop,      \* _stop.is_set()
  \* the worker threads
  pc,
  uses,      \* the connection it reads from, or the player it waits for
  feeds,     \* paplay_stdin: whose player it writes to
  failed,    \* its local "stopped"
  \* connections, players and what was said
  link,      \* each connection: none, open, closed
  asked,     \* a request was sent on it
  taken,     \* frames read from it: header, chunks, and the last frame
  playing,   \* each paplay: none, running, eof on its stdin, ended
  played,    \* chunks each paplay was given, as <<connection, number>>
  events,    \* 701, 702, 703 lines, as <<code, speech>>
  overlapped \* a join timed out while its thread was alive

workerVars == <<pc, uses, feeds, failed>>
worldVars  == <<link, asked, taken, playing, played>>
vars == <<main, next, speeches, stops, thread, conn, player, stop, workerVars,
          worldVars, events, overlapped>>

PCs   == {"none", "begin", "open", "send", "header", "loop", "recv", "drain",
          "wait", "final", "emit", "done"}
End   == MaxChunks + 2   \* audio_end was read
Error == MaxChunks + 3   \* an error was, and nothing comes after either

TypeOK ==
  /\ main \in {"read", "stop", "join"} /\ next \in {Nobody} \cup Speeches
  /\ speeches \in 0..MaxSpeeches /\ stops \in 0..MaxStops
  /\ {thread, conn, player} \subseteq {Nobody} \cup Speeches
  /\ stop \in BOOLEAN /\ overlapped \in BOOLEAN
  /\ pc \in [Speeches -> PCs] /\ failed \in [Speeches -> BOOLEAN]
  /\ uses \in [Speeches -> {Nobody} \cup Speeches]
  /\ feeds \in [Speeches -> {Nobody} \cup Speeches]
  /\ link \in [Speeches -> {"none", "open", "closed"}]
  /\ asked \in [Speeches -> BOOLEAN] /\ taken \in [Speeches -> 0..Error]
  /\ playing \in [Speeches -> {"none", "running", "eof", "ended"}]
  /\ played \in [Speeches -> Seq(Speeches \X (1..MaxChunks))]
  /\ conn # Nobody => link[conn] # "none"
  /\ player # Nobody => playing[player] # "none"
  /\ events \in Seq({701, 702, 703} \X Speeches)

Init ==
  /\ main = "read" /\ next = Nobody /\ speeches = 0 /\ stops = 0
  /\ thread = Nobody /\ conn = Nobody /\ player = Nobody
  /\ stop = FALSE /\ overlapped = FALSE
  /\ pc = [w \in Speeches |-> "none"] /\ failed = [w \in Speeches |-> FALSE]
  /\ uses = [w \in Speeches |-> Nobody] /\ feeds = [w \in Speeches |-> Nobody]
  /\ link = [w \in Speeches |-> "none"] /\ asked = [w \in Speeches |-> FALSE]
  /\ taken = [w \in Speeches |-> 0] /\ playing = [w \in Speeches |-> "none"]
  /\ played = [w \in Speeches |-> <<>>] /\ events = <<>>

Alive(w) == w # Nobody /\ pc[w] \notin {"none", "done"}
Busy     == Alive(thread)

(* What terminate() and close() do to a player or a connection that may not  *)
(* be there.                                                                 *)
Terminated(p) == IF p = Nobody THEN playing ELSE [playing EXCEPT ![p] = "ended"]
Closed(c)     == IF c = Nobody THEN link    ELSE [link EXCEPT ![c] = "closed"]

-----------------------------------------------------------------------------
(* The main thread                                                           *)

StartThread(u) ==
  /\ stop' = FALSE /\ thread' = u /\ pc' = [pc EXCEPT ![u] = "begin"]
  /\ main' = "read" /\ next' = Nobody

SpeakAtOnce ==   \* mutant: start() does not look at busy
  /\ main = "read" /\ speeches < MaxSpeeches
  /\ speeches' = speeches + 1
  /\ StartThread(speeches')
  /\ UNCHANGED <<stops, conn, player, uses, feeds, failed, worldVars, events,
                 overlapped>>

(* SPEAK: a worker that is still busy is stopped first.                      *)
Speak ==
  /\ main = "read" /\ speeches < MaxSpeeches
  /\ speeches' = speeches + 1
  /\ IF Busy
     THEN main' = "stop" /\ next' = speeches' /\ UNCHANGED <<thread, pc, stop>>
     ELSE StartThread(speeches')
  /\ UNCHANGED <<stops, conn, player, uses, feeds, failed, worldVars, events,
                 overlapped>>

(* STOP, PAUSE and QUIT, which do nothing when no worker is busy.            *)
Stop ==
  /\ main = "read" /\ stops < MaxStops /\ Busy
  /\ stops' = stops + 1 /\ main' = "stop"
  /\ UNCHANGED <<next, speeches, thread, conn, player, stop, workerVars,
                 worldVars, events, overlapped>>

(* The part of stop() that holds _lock.                                      *)
StopLocked ==
  /\ main = "stop" /\ main' = "join"
  /\ stop' = TRUE
  /\ link' = Closed(conn)
  /\ playing' = Terminated(player)
  /\ UNCHANGED <<next, speeches, stops, thread, conn, player, workerVars, asked,
                 taken, played, events, overlapped>>

(* join(timeout=3.0) returns, and stop() with it; start() goes on if it was  *)
(* the caller.                                                               *)
Join(timedOut) ==
  /\ main = "join" /\ timedOut = Busy
  /\ overlapped' = (overlapped \/ (timedOut /\ next # Nobody))
  /\ IF next = Nobody
     THEN main' = "read" /\ UNCHANGED <<next, thread, pc, stop>>
     ELSE StartThread(next)
  /\ UNCHANGED <<speeches, stops, conn, player, uses, feeds, failed, worldVars,
                 events>>

-----------------------------------------------------------------------------
(* A worker thread: _run                                                     *)

mainVars == <<main, next, speeches, stops, thread, overlapped>>
Goes(w, place) == pc' = [pc EXCEPT ![w] = place]
Says(w, code)  == events' = Append(events, <<code, w>>)

(* The outer except and the early returns: "stopped", and on to the finally. *)
Fails(w) == Goes(w, "final") /\ failed' = [failed EXCEPT ![w] = TRUE]

Begin(w) ==
  /\ pc[w] = "begin" /\ Goes(w, "open") /\ Says(w, 701)
  /\ UNCHANGED <<mainVars, conn, player, stop, uses, feeds, failed, worldVars>>

(* Under _lock: the player is started and the daemon connected to, or either *)
(* raises.                                                                   *)
Open(w) ==
  /\ pc[w] = "open"
  /\ \/ /\ player' = w /\ playing' = [playing EXCEPT ![w] = "running"]
        /\ \/ conn' = w /\ link' = [link EXCEPT ![w] = "open"]
              /\ Goes(w, "send") /\ UNCHANGED failed
           \/ Fails(w) /\ UNCHANGED <<conn, link>>
     \/ Fails(w) /\ UNCHANGED <<player, playing, conn, link>>
  /\ UNCHANGED <<mainVars, stop, uses, feeds, asked, taken, played, events>>

(* send_request, which also shuts the connection for writing.                *)
Send(w) ==
  /\ pc[w] = "send"
  /\ IF conn = Nobody \/ link[conn] # "open" \/ asked[conn]
     THEN Fails(w) /\ UNCHANGED asked
     ELSE /\ asked' = [asked EXCEPT ![conn] = TRUE]
          /\ Goes(w, "header") /\ UNCHANGED failed
  /\ UNCHANGED <<mainVars, conn, player, stop, uses, feeds, link, taken, playing,
                 played, events>>

(* self._conn is looked up, and its read_response entered; or there is none. *)
Look(w, from, to) ==
  /\ pc[w] = from /\ uses[w] = Nobody
  /\ IF conn = Nobody
     THEN Fails(w) /\ UNCHANGED uses
     ELSE uses' = [uses EXCEPT ![w] = conn] /\ Goes(w, to) /\ UNCHANGED failed

LookForHeader(w) ==
  /\ Look(w, "header", "header")
  /\ UNCHANGED <<mainVars, conn, player, stop, feeds, worldVars, events>>

Took(c, n) == taken' = [taken EXCEPT ![c] = n]
Readable(c) == link[c] = "open" /\ asked[c] /\ taken[c] < End

(* The header, after which the worker's player is looked up; an error frame, *)
(* or whatever another thread left on the connection; the connection lost,   *)
(* closed or silent for SYNTH_SOCKET_TIMEOUT.                                *)
ReadHeader(w) ==
  /\ pc[w] = "header" /\ uses[w] # Nobody
  /\ uses' = [uses EXCEPT ![w] = Nobody]
  /\ \/ /\ Readable(uses[w]) /\ taken[uses[w]] = 0 /\ Took(uses[w], 1)
        /\ IF player = Nobody
           THEN Fails(w) /\ UNCHANGED feeds
           ELSE /\ feeds' = [feeds EXCEPT ![w] = player]
                /\ Goes(w, "loop") /\ UNCHANGED failed
     \/ /\ Readable(uses[w]) /\ Fails(w) /\ Took(uses[w], Error) /\ UNCHANGED feeds
     \/ Fails(w) /\ UNCHANGED <<taken, feeds>>
  /\ UNCHANGED <<mainVars, conn, player, stop, link, asked, playing, played,
                 events>>

LoopUnchecked(w) ==  \* mutant: while True
  /\ pc[w] = "loop" /\ Look(w, "loop", "recv")
  /\ UNCHANGED <<mainVars, conn, player, stop, feeds, worldVars, events>>

(* while not self._stop.is_set()                                             *)
Loop(w) ==
  /\ pc[w] = "loop"
  /\ IF stop THEN Goes(w, "drain") /\ UNCHANGED <<uses, failed>>
             ELSE Look(w, "loop", "recv")
  /\ UNCHANGED <<mainVars, conn, player, stop, feeds, worldVars, events>>

RecvTakesErrorForEnd(w) ==  \* mutant: a lost connection ends the loop quietly
  /\ pc[w] = "recv"
  /\ uses' = [uses EXCEPT ![w] = Nobody]
  /\ LET c == uses[w] IN
     \/ /\ Readable(c) /\ taken[c] <= MaxChunks /\ Took(c, taken[c] + 1)
        /\ Goes(w, "loop") /\ UNCHANGED failed
        /\ played' = [played EXCEPT ![feeds[w]] = Append(@, <<c, taken[c]>>)]
     \/ Goes(w, "drain") /\ UNCHANGED <<failed, taken, played>>
  /\ UNCHANGED <<mainVars, conn, player, stop, feeds, link, asked, playing,
                 events>>

(* A frame: a chunk for the player, which may be gone; audio_end; an error,  *)
(* or no frame at all.                                                       *)
Recv(w) ==
  /\ pc[w] = "recv"
  /\ uses' = [uses EXCEPT ![w] = Nobody]
  /\ LET c == uses[w] IN
     \/ /\ Readable(c) /\ taken[c] \in 1..MaxChunks /\ Took(c, taken[c] + 1)
        /\ IF playing[feeds[w]] = "running"
           THEN /\ played' = [played EXCEPT ![feeds[w]] =
                                Append(@, <<c, taken[c]>>)]
                /\ Goes(w, "loop") /\ UNCHANGED failed
           ELSE /\ Goes(w, "drain") /\ failed' = [failed EXCEPT ![w] = TRUE]
                /\ UNCHANGED played
     \/ /\ Readable(c) /\ taken[c] > 0 /\ Took(c, End)
        /\ Goes(w, "drain") /\ UNCHANGED <<failed, played>>
     \/ /\ \/ Readable(c) /\ Took(c, Error)
           \/ UNCHANGED taken
        /\ Goes(w, "drain") /\ failed' = [failed EXCEPT ![w] = TRUE]
        /\ UNCHANGED played
  /\ UNCHANGED <<mainVars, conn, player, stop, feeds, link, asked, playing,
                 events>>

(* paplay_stdin is closed, then self._paplay is looked up again.             *)
Drain(w) ==
  /\ pc[w] = "drain"
  /\ playing' = IF playing[feeds[w]] = "running"
                THEN [playing EXCEPT ![feeds[w]] = "eof"] ELSE playing
  /\ IF player = Nobody
     THEN Fails(w) /\ UNCHANGED uses
     ELSE uses' = [uses EXCEPT ![w] = player] /\ Goes(w, "wait")
          /\ UNCHANGED failed
  /\ UNCHANGED <<mainVars, conn, player, stop, feeds, link, asked, taken, played,
                 events>>

WaitForEver(w) ==  \* mutant: wait() without its timeout
  /\ pc[w] = "wait" /\ playing[uses[w]] = "ended" /\ Goes(w, "final")
  /\ uses' = [uses EXCEPT ![w] = Nobody]
  /\ UNCHANGED <<mainVars, conn, player, stop, feeds, failed, worldVars, events>>

(* The player has exited, or ten seconds are over and the player that is     *)
(* there by then is terminated.                                              *)
Wait(w) ==
  /\ pc[w] = "wait"
  /\ uses' = [uses EXCEPT ![w] = Nobody]
  /\ \/ /\ playing[uses[w]] = "ended" /\ Goes(w, "final")
        /\ UNCHANGED <<failed, playing>>
     \/ /\ playing[uses[w]] # "ended" /\ playing' = Terminated(player)
        /\ IF player = Nobody THEN Fails(w)
                              ELSE Goes(w, "final") /\ UNCHANGED failed
  /\ UNCHANGED <<mainVars, conn, player, stop, feeds, link, asked, taken, played,
                 events>>

(* The finally, under _lock: whatever the fields hold is closed and dropped. *)
Final(w) ==
  /\ pc[w] = "final" /\ Goes(w, "emit")
  /\ link' = Closed(conn) /\ conn' = Nobody /\ player' = Nobody
  /\ UNCHANGED <<mainVars, stop, uses, feeds, failed, asked, taken, playing,
                 played, events>>

EmitByLocal(w) ==  \* mutant: the last line does not look at _stop
  /\ pc[w] = "emit" /\ Goes(w, "done")
  /\ Says(w, IF failed[w] THEN 703 ELSE 702)
  /\ UNCHANGED <<mainVars, conn, player, stop, uses, feeds, failed, worldVars>>

Emit(w) ==
  /\ pc[w] = "emit" /\ Goes(w, "done")
  /\ Says(w, IF stop \/ failed[w] THEN 703 ELSE 702)
  /\ UNCHANGED <<mainVars, conn, player, stop, uses, feeds, failed, worldVars>>

(* paplay exits: at the end of its input, or by itself.                      *)
PlayerExits(p) ==
  /\ playing[p] \in {"running", "eof"}
  /\ playing' = [playing EXCEPT ![p] = "ended"]
  /\ UNCHANGED <<mainVars, conn, player, stop, workerVars, link, asked, taken,
                 played, events>>

-----------------------------------------------------------------------------
Run(w) ==
  \/ Begin(w) \/ Open(w) \/ Send(w) \/ LookForHeader(w) \/ ReadHeader(w)
  \/ Loop(w) \/ Recv(w) \/ Drain(w) \/ Wait(w) \/ Final(w) \/ Emit(w)

Next ==
  \/ Speak \/ Stop \/ StopLocked
  \/ \E timedOut \in BOOLEAN : Join(timedOut)
  \/ \E w \in Speeches :
       \/ Begin(w) \/ Open(w) \/ Send(w) \/ LookForHeader(w) \/ ReadHeader(w)
       \/ Loop(w) \/ Recv(w) \/ Drain(w) \/ Wait(w) \/ Final(w) \/ Emit(w)
       \/ PlayerExits(w)

Spec == Init /\ [][Next]_vars

(* The threads are scheduled; a read ends with a frame, an error or the      *)
(* socket's timeout, a join and a wait with theirs.  SPEAK and STOP need not *)
(* come.                                                                     *)
FairSpec ==
  /\ Spec
  /\ WF_vars(StopLocked \/ \E timedOut \in BOOLEAN : Join(timedOut))
  /\ \A w \in Speeches : WF_vars(Run(w))

-----------------------------------------------------------------------------
Code(i)   == events[i][1]
Speech(i) == events[i][2]

(* speech-dispatcher sees one speech at a time: 701, then exactly one of 702 *)
(* and 703, each speech in the order of the SPEAK commands; as long as no    *)
(* start() has gone on past a thread that did not end in time (write_line    *)
(* calls of _run, sd-neural-tts:287,370-375).                                *)
EventsInTurn ==
  ~overlapped =>
    \A i \in 1..Len(events) :
      /\ Speech(i) = (i + 1) \div 2
      /\ (Code(i) = 701) = (i % 2 = 1)

(* 702 END, after which the screen reader goes on with its next sentence,    *)
(* says that the reply was read to its audio_end: not a speech whose         *)
(* connection broke, that failed or that was cut short                       *)
(* (sd-neural-tts:318-345,370-375).                                          *)
EndMeansWhole ==
  ~overlapped =>
    \A i \in 1..Len(events) :
      Code(i) = 702 => taken[Speech(i)] = End

(* Once STOP has been carried out, no player is given any more audio until   *)
(* the next SPEAK is: also when STOP came before the worker had a connection *)
(* that it could close (sd-neural-tts:269-284,318).                          *)
SilentAfterStop ==
  [][ (stop /\ ~overlapped) => played' = played ]_vars

(* A speech that was stopped is reported as stopped, wherever the STOP met   *)
(* its worker (sd-neural-tts:275,370).                                       *)
StoppedIsReported ==
  [][ (stop /\ ~overlapped /\ events' # events) =>
        Code(Len(events))' # 702 ]_vars

(* Every speech ends with its 702 or 703, for speech-dispatcher waits for it *)
(* (sd-neural-tts:364-375).                                                  *)
EverySpeechEnds == \A w \in Speeches : pc[w] = "begin" ~> pc[w] = "done"

(* A speech that was stopped, or replaced by the next, is heard no more:     *)
(* "STOP terminates it cleanly" says the class, "one active at a time" its   *)
(* heading (sd-neural-tts:248,252).                                          *)
OnlyCurrentSpeech ==
  [][ \A p \in Speeches : played'[p] # played[p] =>
        played'[p][Len(played'[p])][1] = thread ]_vars
=============================================================================
