------------------------------- MODULE Exchange -------------------------------
(***************************************************************************)
(* The conversation between the daemon and one provider process that has   *)
(* become READY: Supervisor.synthesize and _drain_if_needed on one side    *)
(* (daemon/src/neural_tts_daemon/supervisor.py), the provider's serving    *)
(* loop on the other (providers/*/src/*/__main__.py), and the two          *)
(* directions of their socket pair between them.                           *)
(*                                                                         *)
(* A client is one synthesize request that found the process READY.  A     *)
(* frame says what it is, which request it answers and, for audio, which   *)
(* chunk of that request it carries.  The daemon sees only what a frame    *)
(* is: "of" and "n" are there for the properties.                          *)
(***************************************************************************)
EXTENDS Naturals, Sequences

CONSTANTS
  Clients,    \* requests on the speechd socket, one exchange each
  NoOne,      \* no request
  MaxChunks,  \* bound: audio chunks of one reply
  Capacity    \* frames the socket holds before the provider has to wait

ASSUME ExchangeAssumption ==
  NoOne \notin Clients /\ MaxChunks \in Nat /\ Capacity \in Nat \ {0}

VARIABLES
  \* the daemon
  state,       \* proc.state, which this module sees go from READY to FAILED
  needsDrain,  \* proc.needs_drain
  owner, queue,\* proc.request_lock and its waiters, in arrival order
  pc,          \* where each request's generator is
  heard,       \* the chunks each request's consumer was given
  outcome,     \* how the generator ended
  \* the socket pair
  toChild,     \* requests the provider has not read
  fromChild,   \* frames the daemon has not read
  \* the provider
  alive,
  serving,     \* the request _handle_synthesize works on
  reply,       \* what it has made of each request
  made         \* the chunks it has written for each request

daemonVars   == <<state, needsDrain, owner, queue, pc, heard, outcome>>
providerVars == <<alive, serving, reply, made>>
vars == <<daemonVars, toChild, fromChild, providerVars>>

PCs      == {"new", "lock", "draining", "header", "body", "yielded", "done"}
Outcomes == {"none", "complete", "error", "aborted"}
Replies  == {"none", "begun", "streaming", "ended", "failed"}
Chunks   == [of : Clients, n : 1..MaxChunks]
Frames   == [kind : {"header", "chunk", "end", "error"}, of : Clients,
             n : 0..MaxChunks]

TypeOK ==
  /\ state \in {"READY", "FAILED"} /\ needsDrain \in BOOLEAN
  /\ owner \in Clients \cup {NoOne} /\ queue \in Seq(Clients)
  /\ pc \in [Clients -> PCs] /\ outcome \in [Clients -> Outcomes]
  /\ heard \in [Clients -> Seq(Chunks)]
  /\ toChild \in Seq(Clients) /\ fromChild \in Seq(Frames)
  /\ alive \in BOOLEAN /\ serving \in Clients \cup {NoOne}
  /\ reply \in [Clients -> Replies] /\ made \in [Clients -> 0..MaxChunks]

Init ==
  /\ state = "READY" /\ needsDrain = FALSE
  /\ owner = NoOne /\ queue = <<>>
  /\ pc = [c \in Clients |-> "new"] /\ outcome = [c \in Clients |-> "none"]
  /\ heard = [c \in Clients |-> <<>>]
  /\ toChild = <<>> /\ fromChild = <<>>
  /\ alive = TRUE /\ serving = NoOne
  /\ reply = [c \in Clients |-> "none"] /\ made = [c \in Clients |-> 0]

-----------------------------------------------------------------------------
(* The daemon: one request's generator                                       *)

Moves(c, place) == pc' = [pc EXCEPT ![c] = place]

(* The generator is over: async with releases the lock to its first waiter.  *)
Leave(c, how) ==
  /\ Moves(c, "done") /\ outcome' = [outcome EXCEPT ![c] = how]
  /\ IF queue = <<>>
     THEN owner' = NoOne /\ UNCHANGED queue
     ELSE owner' = Head(queue) /\ queue' = Tail(queue)

(* ensure_ready returns the READY process, and the lock is asked for.        *)
Arrive(c) ==
  /\ pc[c] = "new" /\ state = "READY"
  /\ Moves(c, "lock")
  /\ IF owner = NoOne
     THEN owner' = c /\ UNCHANGED queue
     ELSE queue' = Append(queue, c) /\ UNCHANGED owner
  /\ UNCHANGED <<state, needsDrain, heard, outcome, toChild, fromChild,
                 providerVars>>

(* The stream is marked dirty and the request written; unread is what the    *)
(* daemon has not read by then.  A write to a dead provider fails and closes *)
(* the transport, so that nothing more is read: see Eof.                     *)
Send(c, unread) ==
  /\ needsDrain' = TRUE
  /\ toChild'   = IF alive THEN Append(toChild, c) ELSE toChild
  /\ fromChild' = IF alive THEN unread ELSE <<>>
  /\ Moves(c, "header")
  /\ UNCHANGED <<owner, queue, heard, outcome, providerVars>>

BeginUndrained(c) ==   \* mutant: what the last consumer left is not read
  /\ pc[c] = "lock" /\ owner = c
  /\ Send(c, fromChild)
  /\ UNCHANGED state

(* The lock is held: drain what the last request left, or send at once.      *)
Begin(c) ==
  /\ pc[c] = "lock" /\ owner = c
  /\ IF needsDrain
     THEN Moves(c, "draining")
          /\ UNCHANGED <<needsDrain, owner, queue, heard, outcome, toChild,
                         fromChild, providerVars>>
     ELSE Send(c, fromChild)
  /\ UNCHANGED state

(* Residual frames are dropped up to and with an audio_end.                  *)
Drain(c) ==
  /\ pc[c] = "draining" /\ fromChild # <<>>
  /\ IF Head(fromChild).kind = "end"
     THEN Send(c, Tail(fromChild))
     ELSE /\ fromChild' = Tail(fromChild)
          /\ UNCHANGED <<needsDrain, owner, queue, pc, heard, outcome, toChild,
                         providerVars>>
  /\ UNCHANGED state

DrainFailsSilently(c) ==   \* mutant: the process stays READY
  /\ pc[c] = "draining" /\ fromChild = <<>>
  /\ Send(c, fromChild)
  /\ UNCHANGED state

DrainFailsAtEofOnly(c) ==   \* mutant: the drain without wait_for
  /\ pc[c] = "draining" /\ fromChild = <<>> /\ ~alive
  /\ state' = "FAILED"
  /\ Send(c, fromChild)

(* Five seconds pass without a frame, or the stream is at its end.  The      *)
(* process is marked FAILED, which keeps new requests away; this request     *)
(* goes on with it, and so do those already waiting for the lock.            *)
DrainFails(c) ==
  /\ pc[c] = "draining" /\ fromChild = <<>>
  /\ state' = "FAILED"
  /\ Send(c, fromChild)

(* The first frame of the reply.                                             *)
ReadHeader(c) ==
  /\ pc[c] = "header" /\ fromChild # <<>>
  /\ fromChild' = Tail(fromChild)
  /\ LET kind == Head(fromChild).kind IN
     \/ /\ kind = "header" /\ Moves(c, "body")
        /\ UNCHANGED <<needsDrain, owner, queue, outcome>>
     \/ /\ kind = "error"      \* the provider is done with the request
        /\ needsDrain' = FALSE /\ Leave(c, "error")
     \/ /\ kind \in {"chunk", "end"}     \* RuntimeError: unexpected response
        /\ Leave(c, "error") /\ UNCHANGED needsDrain
  /\ UNCHANGED <<state, heard, toChild, providerVars>>

ReadBodyHidesError(c) ==   \* mutant: a mid-stream error ends the loop quietly
  /\ pc[c] = "body" /\ fromChild # <<>>
  /\ fromChild' = Tail(fromChild)
  /\ LET frame == Head(fromChild) IN
     \/ /\ frame.kind = "chunk" /\ Moves(c, "yielded")
        /\ heard' = [heard EXCEPT ![c] =
                       Append(@, [of |-> frame.of, n |-> frame.n])]
        /\ UNCHANGED <<needsDrain, owner, queue, outcome>>
     \/ /\ frame.kind \in {"end", "error"}
        /\ needsDrain' = FALSE /\ Leave(c, "complete") /\ UNCHANGED heard
  /\ UNCHANGED <<state, toChild, providerVars>>

(* The frames after it.  After an error the flag stays set, for the next     *)
(* request to drain; a second header is logged and skipped.                  *)
ReadBody(c) ==
  /\ pc[c] = "body" /\ fromChild # <<>>
  /\ fromChild' = Tail(fromChild)
  /\ LET frame == Head(fromChild) IN
     \/ /\ frame.kind = "chunk" /\ Moves(c, "yielded")
        /\ heard' = [heard EXCEPT ![c] =
                       Append(@, [of |-> frame.of, n |-> frame.n])]
        /\ UNCHANGED <<needsDrain, owner, queue, outcome>>
     \/ /\ frame.kind = "end"
        /\ needsDrain' = FALSE /\ Leave(c, "complete") /\ UNCHANGED heard
     \/ /\ frame.kind = "error"
        /\ Leave(c, "error") /\ UNCHANGED <<needsDrain, heard>>
     \/ /\ frame.kind = "header"
        /\ UNCHANGED <<needsDrain, owner, queue, pc, outcome, heard>>
  /\ UNCHANGED <<state, toChild, providerVars>>

(* ProtocolError, or the failed write of the request.  The state stays as it *)
(* is: only a later drain finds out that the process is gone.                *)
Eof(c) ==
  /\ pc[c] \in {"header", "body"} /\ ~alive /\ fromChild = <<>>
  /\ Leave(c, "error")
  /\ UNCHANGED <<state, needsDrain, heard, toChild, fromChild, providerVars>>

(* _pump has written the chunk to its client.                                *)
Resume(c) ==
  /\ pc[c] = "yielded" /\ Moves(c, "body")
  /\ UNCHANGED <<state, needsDrain, owner, queue, heard, outcome, toChild,
                 fromChild, providerVars>>

AbandonUnclosed(c) ==   \* mutant: proxy.py without its aclose()
  /\ pc[c] = "yielded"
  /\ Moves(c, "done") /\ outcome' = [outcome EXCEPT ![c] = "aborted"]
  /\ UNCHANGED <<state, needsDrain, owner, queue, heard, toChild, fromChild,
                 providerVars>>

(* _pump's client is gone: the proxy closes the generator where it stands.   *)
Abandon(c) ==
  /\ pc[c] = "yielded" /\ Leave(c, "aborted")
  /\ UNCHANGED <<state, needsDrain, heard, toChild, fromChild, providerVars>>

-----------------------------------------------------------------------------
(* The provider                                                              *)

Writes(kind, n) ==
  /\ alive /\ serving # NoOne /\ Len(fromChild) < Capacity
  /\ fromChild' = Append(fromChild, [kind |-> kind, of |-> serving, n |-> n])

Becomes(r) == reply' = [reply EXCEPT ![serving] = r]

(* _serve reads its next request.                                            *)
Serve ==
  /\ alive /\ serving = NoOne /\ toChild # <<>>
  /\ serving' = Head(toChild) /\ toChild' = Tail(toChild)
  /\ reply' = [reply EXCEPT ![Head(toChild)] = "begun"]
  /\ UNCHANGED <<daemonVars, fromChild, alive, made>>

WriteHeader ==
  /\ serving # NoOne /\ reply[serving] = "begun"
  /\ Writes("header", 0) /\ Becomes("streaming")
  /\ UNCHANGED <<daemonVars, toChild, alive, serving, made>>

WriteChunk ==
  /\ serving # NoOne /\ reply[serving] = "streaming"
  /\ made[serving] < MaxChunks
  /\ made' = [made EXCEPT ![serving] = @ + 1]
  /\ Writes("chunk", made[serving] + 1)
  /\ UNCHANGED <<daemonVars, toChild, alive, serving, reply>>

WriteEnd ==
  /\ serving # NoOne /\ reply[serving] = "streaming"
  /\ Writes("end", 0) /\ Becomes("ended") /\ serving' = NoOne
  /\ UNCHANGED <<daemonVars, toChild, alive, made>>

(* _handle_synthesize's except: an error frame, and no audio_end after it.   *)
WriteError ==
  /\ serving # NoOne
  /\ Writes("error", 0) /\ Becomes("failed") /\ serving' = NoOne
  /\ UNCHANGED <<daemonVars, toChild, alive, made>>

(* The provider dies, or somebody kills it.  The frames it wrote can still   *)
(* be read, up to where the connection is found to be reset.                 *)
Crash ==
  /\ alive /\ alive' = FALSE
  /\ serving' = NoOne /\ toChild' = <<>>
  /\ \E k \in 0..Len(fromChild) : fromChild' = SubSeq(fromChild, 1, k)
  /\ UNCHANGED <<daemonVars, reply, made>>

-----------------------------------------------------------------------------
Generator(c) ==
  \/ Begin(c) \/ Drain(c) \/ DrainFails(c) \/ ReadHeader(c) \/ ReadBody(c)
  \/ Eof(c)

Provider == Serve \/ WriteHeader \/ WriteChunk \/ WriteEnd \/ WriteError

Next ==
  \/ \E c \in Clients :
       \/ Arrive(c) \/ Begin(c) \/ Drain(c) \/ DrainFails(c)
       \/ ReadHeader(c) \/ ReadBody(c) \/ Eof(c) \/ Resume(c) \/ Abandon(c)
  \/ Serve \/ WriteHeader \/ WriteChunk \/ WriteEnd \/ WriteError
  \/ Crash

Spec == Init /\ [][Next]_vars

(* The event loop runs every task that can go on, and timers expire.  There  *)
(* is no timeout on the reads of a stream, nor on a consumer's chunk: whether*)
(* the peers go on is not the daemon's to promise.                           *)
FairSpec == Spec /\ \A c \in Clients : WF_vars(Generator(c))

PeersGoOn ==
  WF_vars(Provider) /\ \A c \in Clients : WF_vars(Resume(c) \/ Abandon(c))

-----------------------------------------------------------------------------
(* Nothing of an earlier request is left on the way once the stream counts   *)
(* as clean: what the next request reads first answers that request          *)
(* (needs_drain, supervisor.py:132-136).                                     *)
CleanWhenIdle ==
  (state = "READY" /\ alive /\ owner = NoOne /\ ~needsDrain)
    => fromChild = <<>> /\ toChild = <<>> /\ serving = NoOne

(* As long as no drain has failed, a consumer is given the chunks of its own *)
(* request, in order and without a gap, whatever earlier consumers left      *)
(* unread (the loop of synthesize, supervisor.py:393-400).                   *)
OwnAudio ==
  state = "READY" =>
    \A c \in Clients : \A k \in 1..Len(heard[c]) :
      heard[c][k] = [of |-> c, n |-> k]

(* A generator that returns normally has yielded all the audio of a request  *)
(* that the provider finished (supervisor.py:399-401).                       *)
CompleteIsWhole ==
  state = "READY" =>
    \A c \in Clients : outcome[c] = "complete" =>
      reply[c] = "ended" /\ Len(heard[c]) = made[c]

(* A request that asked for the lock is over at some time, if its provider   *)
(* keeps computing and every consumer takes its chunk or goes away: it waits *)
(* neither for a frame that never comes nor for a lock that nobody gives     *)
(* back (proxy.py:103-107).                                                  *)
EveryRequestEnds ==
  PeersGoOn => \A c \in Clients : pc[c] = "lock" ~> pc[c] = "done"

(* The request that holds the lock waits for a frame of a live provider, or  *)
(* for its consumer.                                                         *)
HeldUpByPeer ==
  /\ owner # NoOne
  /\ \/ pc[owner] = "yielded"
     \/ pc[owner] \in {"header", "body"} /\ alive /\ fromChild = <<>>

(* Nothing but one silent peer holds requests up for ever: no timeout guards *)
(* a stream (supervisor.py:384,394), so one stalled provider or client does  *)
(* stop them all, but no dead provider, failed drain or lost client does.    *)
OnlyPeersHoldUp ==
  (\A c \in Clients : pc[c] = "lock" ~> pc[c] = "done") \/ <>[]HeldUpByPeer

(* Nobody is ever given another request's audio: the drain is there so that  *)
(* the next exchange starts on its own frames (supervisor.py:132-136,413).   *)
NoForeignAudio ==
  \A c \in Clients : \A k \in 1..Len(heard[c]) : heard[c][k].of = c
=============================================================================
