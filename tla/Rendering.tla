------------------------------- MODULE Rendering -------------------------------
(***************************************************************************)
(* bin/neural-tts-say rendering a text to a file through the daemon: one   *)
(* connection for each segment of the text, the daemon's pump of the       *)
(* resampled audio at its other end (proxy.py), and the daemon of module   *)
(* Daemon, which may stop, die and be started again meanwhile.             *)
(*                                                                         *)
(* Audio is counted in chunks.  A resampler that has to convert keeps the  *)
(* end of what it was given until more comes or it is flushed.             *)
(***************************************************************************)
EXTENDS Daemon, Sequences

CONSTANTS
  Say,       \* the connection of neural-tts-say, one at a time
  Segments,  \* of the text
  MaxChunks, \* bound: chunks of one segment
  SizeLimit  \* the most that the 32-bit sizes of a WAV header can tell

ASSUME RenderingAssumption ==
  Say \in Conns /\ Segments \in Nat \ {0} /\ MaxChunks \in Nat /\ SizeLimit \in Nat

VARIABLES
  say,     \* idle, connect, header, body, close; done, failed or died
  segment, \* which it is at
  sink,    \* a WAV file, or a stream: of WAV to a pipe, or to ffmpeg
  opened,  \* the sink is open, and its file's former content gone
  sizes,   \* the sizes in the header of a WAV file
  got,     \* chunks written to the sink
  wire,    \* frames from the daemon that are not read yet
  pump,    \* the daemon's handler: none, header, stream or end
  left,    \* chunks of the segment still to come from the provider
  held,    \* one is held back by the resampler
  resamples, \* the provider's rate is not the wire's
  made, dropped  \* chunks the providers made, and those lost by a failure

sayVars   == <<say, segment, sink, opened, sizes, got>>
pumpVars  == <<wire, pump, left, held, resamples, made, dropped>>
renderVars == <<vars, sayVars, pumpVars>>

RenderTypeOK ==
  /\ TypeOK
  /\ say \in {"idle", "connect", "header", "body", "close", "done", "failed", "died"}
  /\ segment \in 1..Segments /\ sink \in {"file", "stream"}
  /\ {opened, held, resamples} \subseteq BOOLEAN
  /\ sizes \in Nat /\ got \in Nat
  /\ wire \in Seq({"header", "chunk", "end", "error"})
  /\ pump \in {"none", "header", "stream", "end"}
  /\ pump # "none" <=> conn[Say] = "served"
  /\ left \in 0..MaxChunks /\ made \in Nat /\ dropped \in Nat

RenderInit ==
  /\ Init
  /\ say = "idle" /\ segment = 1 /\ sink \in {"file", "stream"}
  /\ opened = FALSE /\ sizes = 0 /\ got = 0
  /\ wire = <<>> /\ pump = "none" /\ left = 0 /\ held = FALSE
  /\ resamples \in BOOLEAN /\ made = 0 /\ dropped = 0

-----------------------------------------------------------------------------
(* The daemon's side of the connection                                       *)

(* Nobody reads any more what is written after neural-tts-say has given up.  *)
Sends(frames) ==
  wire' = IF say \in {"header", "body"} THEN wire \o frames ELSE wire

(* ensure_ready for a segment, with an error frame for a failed start        *)
Serves ==
  /\ EnsureReady(Say) \/ SpawnEnds(Say)
  /\ pump' = IF conn'[Say] = "served" THEN "header" ELSE "none"
  /\ Sends(IF conn'[Say] = "none" THEN <<"error">> ELSE <<>>)
  /\ UNCHANGED <<sayVars, left, held, resamples, made, dropped>>

(* The header is on its way before anything is asked of the provider.        *)
PumpHeader ==
  /\ pump = "header" /\ pump' = "stream" /\ Sends(<<"header">>)
  /\ left' \in 0..MaxChunks /\ made' = made + left'
  /\ UNCHANGED <<vars, sayVars, held, resamples, dropped>>

PumpChunk ==
  /\ pump = "stream" /\ left > 0 /\ left' = left - 1
  /\ held' = resamples
  /\ Sends(IF resamples /\ ~held THEN <<>> ELSE <<"chunk">>)
  /\ UNCHANGED <<vars, sayVars, pump, resamples, made, dropped>>

PumpTailLost ==  \* mutant: the resampler is not flushed
  /\ pump = "stream" /\ left = 0 /\ pump' = "end"
  /\ held' = FALSE
  /\ UNCHANGED <<vars, sayVars, wire, left, resamples, made, dropped>>

PumpTail ==
  /\ pump = "stream" /\ left = 0 /\ pump' = "end"
  /\ held' = FALSE /\ Sends(IF held THEN <<"chunk">> ELSE <<>>)
  /\ UNCHANGED <<vars, sayVars, left, resamples, made, dropped>>

(* The supervisor's generator raised: logged, and no flush.                  *)
PumpFails ==
  /\ pump = "stream" /\ pump' = "end"
  /\ dropped' = dropped + left + IF held THEN 1 ELSE 0
  /\ left' = 0 /\ held' = FALSE
  /\ UNCHANGED <<vars, sayVars, wire, resamples, made>>

(* The end goes out however the stream ended, and the connection is closed.  *)
PumpEnd ==
  /\ pump = "end" /\ pump' = "none" /\ Sends(<<"end">>) /\ Disconnect(Say)
  /\ UNCHANGED <<sayVars, left, held, resamples, made, dropped>>

(* A write to a client that has closed                                       *)
HangsUp ==
  /\ pump # "none" /\ say \notin {"header", "body"} /\ Disconnect(Say)
  /\ pump' = "none" /\ left' = 0 /\ held' = FALSE
  /\ UNCHANGED <<sayVars, wire, resamples, made, dropped>>

Pumps == PumpHeader \/ PumpChunk \/ PumpTail \/ PumpFails \/ PumpEnd \/ HangsUp

(* Everything else of the daemon; its end takes the handler with it.         *)
Beside ==
  /\ IF conn'[Say] = "none"
     THEN pump' = "none" /\ left' = 0 /\ held' = FALSE
     ELSE UNCHANGED <<pump, left, held>>
  /\ UNCHANGED <<sayVars, wire, resamples, made, dropped>>

DaemonStep ==
  \/ (Start \/ Runs \/ Stops \/ Signal \/ StartTimeout) /\ Beside
  \/ \E c \in Conns \ {Say} : (Connect(c) \/ Handles(c)) /\ Beside

-----------------------------------------------------------------------------
(* neural-tts-say                                                            *)

Says(next) == say' = next
KeepSink   == UNCHANGED <<sink, opened, sizes, got>>

(* The text, the format and the voice, before anything is written            *)
Prepare ==
  /\ say = "idle" /\ KeepSink
  /\ (open /\ Says("connect")) \/ Says("failed")
  /\ UNCHANGED <<vars, pumpVars, segment>>

(* Where nobody accepts it is refused, or waits behind the service manager's *)
(* socket until the timeout.                                                 *)
Dial ==
  /\ say = "connect" /\ KeepSink
  /\ \/ Connect(Say) /\ Says("header") /\ wire' = <<>>
     \/ ~open /\ Says("failed") /\ UNCHANGED <<vars, wire>>
  /\ UNCHANGED <<segment, pump, left, held, resamples, made, dropped>>

Reads(frame) == wire # <<>> /\ Head(wire) = frame /\ wire' = Tail(wire)
                /\ UNCHANGED <<vars, pump, left, held, resamples, made, dropped>>

(* Output.ensure opens the sink for the first header; there may be no ffmpeg,*)
(* or no such directory.                                                     *)
TakeHeader ==
  /\ say = "header" /\ Reads("header")
  /\ \/ opened' = TRUE /\ Says("body")
     \/ ~opened /\ Says("failed") /\ UNCHANGED opened
  /\ UNCHANGED <<segment, sink, sizes, got>>

TakeChunk ==
  /\ say = "body" /\ Reads("chunk")
  /\ \/ got' = got + 1 /\ UNCHANGED say
     \/ Says("failed") /\ UNCHANGED got
  /\ UNCHANGED <<segment, sink, opened, sizes>>

TakeEnd ==
  /\ say = "body" /\ Reads("end") /\ KeepSink
  /\ IF segment < Segments THEN segment' = segment + 1 /\ Says("connect")
                           ELSE Says("close") /\ UNCHANGED segment

TakeError == say = "header" /\ Reads("error") /\ Says("failed") /\ KeepSink
             /\ UNCHANGED segment

ShortReadUnseen ==  \* mutant: the end of the data is waited out for ever
  /\ say \in {"header", "body"} /\ wire = <<>> /\ conn[Say] # "none"
  /\ Says("failed") /\ KeepSink
  /\ UNCHANGED <<vars, pumpVars, segment>>

(* The end of the data before a frame, or nothing for SYNTH_SOCKET_TIMEOUT   *)
ShortRead ==
  /\ say \in {"header", "body"} /\ wire = <<>> /\ Says("failed") /\ KeepSink
  /\ UNCHANGED <<vars, pumpVars, segment>>

CloseUnpatched ==  \* mutant: the sizes are left as they were
  /\ say = "close" /\ Says("done")
  /\ UNCHANGED <<vars, pumpVars, segment, sink, opened, sizes, got>>

(* Only now the sizes of a WAV file are told; struct.error, for those that   *)
(* 32 bits do not hold, is none of the exceptions that are caught.           *)
CloseSink ==
  /\ say = "close"
  /\ \/ sink = "file" /\ got <= SizeLimit /\ sizes' = got /\ Says("done")
     \/ sink = "file" /\ got > SizeLimit /\ Says("died") /\ UNCHANGED sizes
     \/ sink = "stream" /\ say' \in {"done", "failed"} /\ UNCHANGED sizes
  /\ UNCHANGED <<vars, pumpVars, segment, sink, opened, got>>

SayStep ==
  \/ Prepare \/ Dial \/ TakeHeader \/ TakeChunk \/ TakeEnd \/ TakeError
  \/ ShortRead \/ CloseSink

RenderNext == DaemonStep \/ Serves \/ Pumps \/ SayStep

(* As in Daemon; neural-tts-say and the handler of its connection go on.     *)
RenderSpec ==
  /\ RenderInit /\ [][RenderNext]_renderVars
  /\ SF_renderVars(Runs /\ Beside) /\ SF_renderVars(Stops /\ Beside)
  /\ SF_renderVars(Serves) /\ WF_renderVars(Pumps) /\ WF_renderVars(SayStep)
  /\ \A c \in Conns \ {Say} : SF_renderVars(Handles(c) /\ Beside)

-----------------------------------------------------------------------------
(* "done: n segment(s)" means that every chunk of every segment is in the    *)
(* output, whatever the daemon went through meanwhile, except for what a     *)
(* provider's failure took: after it the daemon says audio_end all the same  *)
(* (proxy.py:117-119), and neural-tts-say cannot know.                       *)
DoneMeansWhole == say = "done" => got + dropped = made

(* The header of a WAV file tells its data when the rendering is done, and   *)
(* of one that was given up it never tells more than there is: nothing.      *)
HeaderFits == sink = "file" => sizes = IF say = "done" THEN got ELSE 0

(* A rendering ends, although each segment waits for the daemon anew.        *)
SayEnds == say # "idle" ~> say \in {"done", "failed", "died"}
================================================================================
