-------------------------------- MODULE Provider -------------------------------
(***************************************************************************)
(* One provider process, from its start to its end: the serving loop of    *)
(* providers/*/src/*/__main__.py over the provider class, the audio bridge *)
(* (StreamBridge) and the prompts it keeps (PromptCache).  The daemon is   *)
(* at the other end of the socket pair: it sends one request at a time,    *)
(* and may close its end or kill the process whenever it likes.            *)
(*                                                                         *)
(* One voice is asked for: a clone, or for kokoro-onnx a built-in one.     *)
(***************************************************************************)
EXTENDS StreamBridge, PromptCache

CONSTANTS
  Modelled,    \* the kinds of provider to check
  MaxRequests, \* bound: synthesize requests
  MaxStarts    \* bound: processes, one after the other

ASSUME ProviderAssumption ==
  /\ Modelled \subseteq Kinds
  /\ MaxFrames \in Nat /\ MaxPieces \in Nat \ {0} /\ MaxEdits \in Nat
  /\ MaxRequests \in Nat /\ MaxStarts \in Nat

VARIABLES
  life,    \* down, up, or leaving: shutdown() has run, the thread goes on
  eager,   \* --eager-startup
  loaded,  \* the model is there
  known,   \* the voice is in _voices, as of the last scan
  link,    \* the daemon's end of the socket pair: open or broken
  phase,   \* ready for a request, or load, prompt, stream
  reply,   \* to synthesize: none, open, ended, failed, or cut by the link
  requests, starts

procVars == <<life, eager, loaded, known, link, phase,
              reply, requests, starts>>
vars == <<kind, procVars, bridgeVars, cacheVars>>

TypeOK ==
  /\ kind \in Modelled /\ BridgeTypeOK /\ CacheTypeOK
  /\ life \in {"down", "up", "leaving"} /\ {eager, loaded, known} \subseteq BOOLEAN
  /\ link \in {"open", "broken"}
  /\ phase \in {"ready", "load", "prompt", "stream"}
  /\ reply \in {"none", "open", "ended", "failed", "cut"}
  /\ requests \in 0..MaxRequests /\ starts \in 0..MaxStarts

Init ==
  /\ kind \in Modelled /\ BridgeInit /\ CacheInit
  /\ life = "down" /\ eager = FALSE /\ loaded = FALSE /\ known = FALSE
  /\ link = "open" /\ phase = "ready" /\ reply = "none"
  /\ requests = 0 /\ starts = 0

-----------------------------------------------------------------------------
(* The process and its socket                                                *)

Start ==
  /\ life = "down" /\ starts < MaxStarts
  /\ life' = "up" /\ eager' \in BOOLEAN
  /\ starts' = starts + 1
  /\ since' = clip
  /\ UNCHANGED <<kind, bridgeVars, clip, edits, files, memory, step, key,
                 used, asked, loaded, known, link, phase, reply, requests>>

(* The process is gone with everything that was not on disk.                 *)
Gone ==
  /\ life' = "down" /\ loaded' = FALSE /\ known' = FALSE
  /\ phase' = "ready" /\ reply' = "none"
  /\ pieces' = 0 /\ stream' = "idle" /\ out' = <<>> /\ last' = "none"
  /\ thread' = "none" /\ queue' = <<>> /\ cancel' = FALSE
  /\ pending' = <<>> /\ held' = <<>> /\ passing' = TRUE
  /\ made' = 0 /\ given' = <<>>
  /\ ForgetPrompts /\ eager' = FALSE /\ link' = "open"
  /\ UNCHANGED <<kind, requests, starts>>

(* The supervisor kills it, or the model crashes or eats the memory.         *)
Kill == life # "down" /\ Gone

PeerCloses ==
  /\ life = "up" /\ link = "open" /\ link' = "broken"
  /\ UNCHANGED <<kind, bridgeVars, cacheVars, life, eager, loaded, known,
                 phase, reply, requests, starts>>

EndOfLoopOnRequest ==  \* mutant: an EOF before a frame is waited out
  /\ life = "up" /\ phase = "ready" /\ link = "open"
  /\ life' = "leaving" /\ loaded' = FALSE /\ known' = FALSE
  /\ memory' = {} /\ link' = "broken"
  /\ UNCHANGED <<kind, bridgeVars, clip, edits, files, step, key, used,
                 since, asked, eager, phase, reply, requests, starts>>

(* The loop ends by an EOF, which is all that a broken link has to read, or  *)
(* by a shutdown request.  The finally drops the model and the voices.       *)
EndOfLoop ==
  /\ life = "up" /\ phase = "ready"
  /\ life' = "leaving" /\ loaded' = FALSE /\ known' = FALSE
  /\ memory' = {} /\ link' = "broken"
  /\ UNCHANGED <<kind, bridgeVars, clip, edits, files, step, key, used,
                 since, asked, eager, phase, reply, requests, starts>>

(* asyncio.run closes what generators are left, and waits for the threads.   *)
Leave ==
  /\ life = "leaving" /\ thread = "none"
  /\ stream \in {"idle", "whole", "broken"}
  /\ Gone

-----------------------------------------------------------------------------
(* Warmup.  Eager providers load the model and prime it, which may fail.     *)

Ready == life = "up" /\ phase = "ready" /\ link = "open"

Loads   == loaded' = TRUE
DoesNot == UNCHANGED loaded

Primes == known' /\ clip # 0 /\ memory' = {[key |-> 0, made |-> clip]}

Rescan == known' = (clip # 0) /\ Prune

Scans == /\ known' = (clip # 0)
         /\ since' = IF clip = 0 THEN edits + 1 ELSE since

(* An error while priming is an error of the warmup for this provider only.  *)
KokoroWarmup ==
  /\ kind = "kokoro" /\ Ready
  /\ IF eager THEN Loads \/ DoesNot ELSE DoesNot
  /\ known' = TRUE /\ UNCHANGED <<memory, since>>

(* The voice that primes it is a preset: no clip is needed.                  *)
PocketWarmup ==
  /\ kind = "pocket" /\ Ready
  /\ IF eager THEN Loads \/ DoesNot ELSE DoesNot
  /\ Rescan

MossWarmup ==
  /\ kind = "moss" /\ Ready
  /\ \/ Rescan /\ IF eager THEN Loads \/ DoesNot ELSE DoesNot
     \/ eager /\ memory = {} /\ Loads /\ Scans /\ Primes

LongcatWarmup ==
  /\ kind = "longcat" /\ Ready
  /\ \/ Rescan /\ IF eager THEN Loads \/ DoesNot ELSE DoesNot
     \/ eager /\ memory = {} /\ Loads /\ Scans /\ Primes

OmnivoiceWarmup ==
  /\ kind = "omnivoice" /\ Ready
  /\ IF eager THEN Loads \/ DoesNot ELSE DoesNot
  /\ Rescan

Qwen3Warmup ==
  /\ kind \in Qwen3 /\ Ready
  /\ IF eager THEN Loads \/ DoesNot ELSE DoesNot
  /\ Rescan

Warmup ==
  /\ \/ KokoroWarmup \/ PocketWarmup \/ MossWarmup \/ LongcatWarmup
     \/ OmnivoiceWarmup \/ Qwen3Warmup
  /\ UNCHANGED <<kind, bridgeVars, clip, edits, files, step, key, used,
                 asked, life, eager, link, phase, reply, requests, starts>>

ListVoices ==
  /\ Ready
  /\ IF kind = "kokoro" THEN UNCHANGED <<known, memory, since>> ELSE Rescan
  /\ UNCHANGED <<kind, bridgeVars, clip, edits, files, step, key, used,
                 asked, life, eager, loaded, link, phase, reply, requests,
                 starts>>

-----------------------------------------------------------------------------
(* Synthesize.  The header goes first and commits to a streaming reply.      *)
WriteHeader ==
  /\ Ready /\ requests < MaxRequests /\ requests' = requests + 1
  /\ phase' = "load" /\ reply' = "open"
  /\ asked' = clip
  /\ UNCHANGED <<kind, bridgeVars, clip, edits, files, memory, step, key,
                 used, since, life, eager, loaded, known, link, starts>>

(* Any exception becomes an error message, if there is someone to read it.   *)
Answer(how) ==
  /\ phase' = "ready" /\ PromptDone
  /\ reply' = IF link = "open" THEN how ELSE "cut"
  /\ UNCHANGED <<kind, bridgeVars, life, eager, loaded, known, link,
                 requests, starts>>

LoadModel ==
  /\ life = "up" /\ phase = "load" /\ ~loaded
  /\ Loads
  /\ UNCHANGED <<kind, bridgeVars, cacheVars, life, eager, known, link,
                 phase, reply, requests, starts>>

LoadFails == life = "up" /\ phase = "load" /\ ~loaded /\ Answer("failed")

(* build_longcat raises SystemExit, which no handler catches on its way.     *)
LoadExits ==
  /\ life = "up" /\ phase = "load" /\ ~loaded /\ kind = "longcat" /\ Gone

(* kokoro-onnx does not look the voice up.                                   *)
UnknownVoice ==
  /\ life = "up" /\ phase = "load" /\ loaded /\ kind # "kokoro" /\ ~known
  /\ Answer("failed")

Admitted == life = "up" /\ phase = "load" /\ loaded /\ (known \/ kind = "kokoro")

(* No text, no prompt: an empty stream.                                      *)
NothingToSay ==
  /\ Admitted /\ kind \notin {"kokoro", "qwen3"}
  /\ phase' = "stream" /\ OpenStream(0)
  /\ UNCHANGED <<kind, cacheVars, life, eager, loaded, known, link, reply,
                 requests, starts>>

(* pocket-tts, moss-tts-nano: the prompt is a step of synthesize_stream;     *)
(* longcat-audiodit, omnivoice: of _synth_one, for the first piece.          *)
AsksPrompt ==
  /\ Admitted /\ kind \in Cloning /\ phase' = "prompt" /\ AskPrompt
  /\ UNCHANGED <<kind, bridgeVars, life, eager, loaded, known, link, reply,
                 requests, starts>>

(* A preset of pocket-tts has its state in the library's own cache, and      *)
(* kokoro-onnx and qwen3-tts keep no prompt.                                 *)
NeedsNone ==
  /\ Admitted /\ (kind \notin Cloning \/ kind = "pocket")
  /\ phase' = "prompt" /\ NoPrompt
  /\ UNCHANGED <<kind, bridgeVars, life, eager, loaded, known, link, reply,
                 requests, starts>>

ResolvePrompt ==
  /\ life = "up" /\ phase = "prompt" /\ PromptStep
  /\ UNCHANGED <<kind, bridgeVars, procVars>>

PromptFails == life = "up" /\ phase = "prompt" /\ step = "failed"
               /\ Answer("failed")

(* One piece where nothing cuts the text, else what the chunker makes of it. *)
Speak ==
  /\ life = "up" /\ phase = "prompt" /\ step = "have" /\ phase' = "stream"
  /\ \E n \in IF kind \in {"pocket", "qwen3"} THEN {1} ELSE 1..MaxPieces :
       OpenStream(n)
  /\ PromptDone
  /\ UNCHANGED <<kind, life, eager, loaded, known, link, reply, requests,
                 starts>>

(* What the generator and the thread do between two writes.                  *)
Bridge ==
  /\ life # "down"
  /\ \/ ThreadStep \/ StartPiece \/ EndOfText \/ GetAudio \/ GetSentinel
     \/ GetException \/ Yield \/ CancelOnClose \/ Finally
  /\ UNCHANGED <<kind, cacheVars, procVars>>

(* The write failed: no message, and no close either.  The generator is      *)
(* finalized on its own, while the loop goes back to read an EOF.            *)
WriteFails ==
  /\ life = "up" /\ phase = "stream" /\ link = "broken" /\ CloseStream
  /\ phase' = "ready" /\ reply' = "cut"
  /\ UNCHANGED <<kind, cacheVars, life, eager, loaded, known, link,
                 requests, starts>>

AudioEnd ==
  /\ life = "up" /\ phase = "stream" /\ stream = "whole" /\ Answer("ended")

SynthesisFails ==
  /\ life = "up" /\ phase = "stream" /\ stream = "broken" /\ Answer("failed")

(* An edit while a stream is going is as good as one after it: nothing looks *)
(* at the clip in between (bound: phase).                                    *)
UserEdits ==
  /\ phase # "stream" /\ EditClip /\ UNCHANGED <<kind, bridgeVars, procVars>>

Synthesize ==
  \/ LoadModel \/ LoadFails \/ LoadExits \/ UnknownVoice \/ NothingToSay
  \/ AsksPrompt \/ NeedsNone \/ ResolvePrompt \/ PromptFails \/ Speak
  \/ Bridge \/ WriteFails \/ AudioEnd \/ SynthesisFails

Next ==
  \/ Start \/ Kill \/ PeerCloses \/ EndOfLoop \/ Leave
  \/ Warmup \/ ListVoices \/ WriteHeader \/ Synthesize \/ UserEdits

Spec == Init /\ [][Next]_vars

(* The event loop and the threads go on; nothing makes the daemon ask, or    *)
(* the user edit.  A thread ends: the bound stands for a text that does.     *)
Fairness ==
  /\ WF_vars(Synthesize) /\ WF_vars(Leave)
  /\ WF_vars(EndOfLoop /\ link = "broken")

FairSpec == Spec /\ Fairness

-----------------------------------------------------------------------------
(* A thread drives the model only when no other does: the finally of each    *)
(* bridge waits for it "so the runtime's codec session isn't torn down       *)
(* mid-decode by a later request" (moss-tts-nano provider.py:202-204).       *)
ThreadAlone ==
  [][ thread' = "working" /\ thread # "working" => thread = "none" ]_thread

(* The frames of a stream reach the listener in the order of the model,      *)
(* without a gap, and audio_end is said of nothing less than all of them:    *)
(* AudioStream, implemented by every kind of provider.                       *)
Promise == Stream!Spec

(* No request speaks with a prompt older than the clip the process found at  *)
(* its start, or than its last look at an empty place; pocket-tts, which     *)
(* compares the mtime each time, with none older than the request itself.    *)
PromptNotOlder ==
  phase = "prompt" /\ step = "have" /\ used # 0
    => used >= (IF kind = "pocket" THEN asked ELSE since)
(* A request that was begun is answered, if its asker is still there: by an  *)
(* end or an error, or by the end of the process.                            *)
RequestAnswered == (reply = "open") ~> (reply # "open")

(* When the daemon has closed its end, the process leaves by itself, though  *)
(* it may be in the middle of a piece.                                       *)
ProcessLeaves == (link = "broken") ~> (life = "down")
================================================================================
