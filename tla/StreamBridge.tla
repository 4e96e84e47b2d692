----------------------------- MODULE StreamBridge -----------------------------
(***************************************************************************)
(* How audio gets from a blocking model to the asyncio side of a provider  *)
(* (providers/*/src/*/provider.py).  The text of a request is cut into     *)
(* pieces.  For each piece a worker thread drives the model; pocket-tts,   *)
(* moss-tts-nano and qwen3-tts pass what it makes through a queue while    *)
(* it works, the others await the thread and take its result.              *)
(*                                                                         *)
(* A frame is the n-th that the model made for the request.  An item of    *)
(* the queue is a batch of frames, the sentinel or an exception.           *)
(***************************************************************************)
EXTENDS ProviderKinds, Naturals, Sequences

CONSTANTS
  MaxFrames, \* bound: frames of a request
  MaxPieces  \* bound: pieces of a text

VARIABLES
  pieces,   \* pieces of the text that have not been spoken
  stream,   \* where the async generator is
  out,      \* frames it is about to yield, one yield after the other
  last,     \* how the current piece ended: none, done, failed, closed
  thread,   \* none, working, or settling: it has put its last item
  queue, cancel,
  pending,  \* moss-tts-nano: frames generated and not decoded yet
  held,     \* qwen3-tts: the hold-back deque,
  passing,  \* and whether it has been given up (passthrough)
  made, given

threadVars == <<thread, queue, pending>>
streamVars == <<pieces, stream, out, last, cancel, held, passing, given>>
bridgeVars == <<threadVars, streamVars, made>>

Items == [type : {"audio"}, frames : Seq(1..MaxFrames)]
           \cup [type : {"sentinel", "exception"}, frames : {<<>>}]

BridgeTypeOK ==
  /\ pieces \in 0..MaxPieces
  /\ stream \in {"idle", "piece", "get", "yield", "finally", "whole", "broken"}
  /\ last \in {"none", "done", "failed", "closed"}
  /\ thread \in {"none", "working", "settling"} /\ cancel \in BOOLEAN
  /\ queue \in Seq(Items) /\ passing \in BOOLEAN
  /\ {out, pending, held, given} \subseteq Seq(1..MaxFrames)
  /\ made \in 0..MaxFrames

BridgeInit ==
  /\ pieces = 0 /\ stream = "idle" /\ out = <<>> /\ last = "none"
  /\ thread = "none" /\ queue = <<>> /\ cancel = FALSE
  /\ pending = <<>> /\ held = <<>> /\ passing = TRUE
  /\ made = 0 /\ given = <<>>

-----------------------------------------------------------------------------
(* The worker thread                                                         *)

Puts(type, frames) == queue' = Append(queue, [type |-> type, frames |-> frames])

Makes == thread = "working" /\ made < MaxFrames /\ made' = made + 1

(* qwen3-tts: the cancel event is looked at before each chunk is passed on.  *)
Qwen3Yields ==
  /\ kind \in Qwen3 /\ ~cancel /\ Makes
  /\ Puts("audio", <<made'>>)
  /\ UNCHANGED <<thread, pending, streamVars>>

Qwen3Cancelled ==
  /\ kind \in Qwen3 /\ cancel /\ thread = "working"
  /\ Puts("sentinel", <<>>) /\ thread' = "settling"
  /\ UNCHANGED <<pending, streamVars, made>>

(* pocket-tts: nothing can stop the model before its end.                    *)
PocketYields ==
  /\ kind = "pocket" /\ Makes
  /\ Puts("audio", <<made'>>)
  /\ UNCHANGED <<thread, pending, streamVars>>

(* moss-tts-nano: a frame is appended to the pending ones, and when there    *)
(* are as many as the decode budget asks for, that many are decoded.         *)
MossFrame ==
  /\ kind = "moss" /\ Makes
  /\ LET frames == Append(pending, made') IN
       \E n \in 0..Len(frames) :
         /\ pending' = SubSeq(frames, n + 1, Len(frames))
         /\ IF n = 0 THEN UNCHANGED queue
            ELSE Puts("audio", SubSeq(frames, 1, n))
  /\ UNCHANGED <<thread, streamVars>>

(* The model is done.  What is still pending is decoded, then comes the      *)
(* sentinel: the else of producer().                                         *)
ThreadEnds ==
  /\ kind \in Bridged /\ thread = "working"
  /\ queue' = queue
       \o (IF pending = <<>> THEN <<>>
           ELSE <<[type |-> "audio", frames |-> pending]>>)
       \o <<[type |-> "sentinel", frames |-> <<>>]>>
  /\ pending' = <<>> /\ thread' = "settling"
  /\ UNCHANGED <<streamVars, made>>

ThreadRaisesUnseen ==  \* mutant: only Exception is caught in the thread
  /\ thread = "working"
  /\ thread' = "settling" /\ pending' = <<>>
  /\ UNCHANGED <<queue, streamVars, made>>

(* Anything raised in the thread, BaseException included, goes through the   *)
(* queue.                                                                    *)
ThreadRaises ==
  /\ thread = "working"
  /\ Puts("exception", <<>>) /\ pending' = <<>> /\ thread' = "settling"
  /\ UNCHANGED <<streamVars, made>>

(* omnivoice, longcat-audiodit: one piece, one result, which may be empty.   *)
(* kokoro-onnx has the library make its pieces.                              *)
PieceComputed ==
  /\ kind \notin Bridged /\ thread = "working"
  /\ \/ /\ Makes
        /\ queue' = <<[type |-> "audio", frames |-> <<made'>>],
                      [type |-> "sentinel", frames |-> <<>>]>>
     \/ Puts("sentinel", <<>>) /\ UNCHANGED made
  /\ thread' = "settling" /\ UNCHANGED <<pending, streamVars>>

(* asyncio.to_thread's future is done.                                       *)
ThreadSettles ==
  /\ thread = "settling" /\ thread' = "none"
  /\ UNCHANGED <<queue, pending, streamVars, made>>

ThreadStep ==
  \/ Qwen3Yields \/ Qwen3Cancelled \/ PocketYields \/ MossFrame \/ ThreadEnds
  \/ ThreadRaises \/ PieceComputed \/ ThreadSettles

-----------------------------------------------------------------------------
(* The generator                                                             *)

(* The text has been cut into n pieces, possibly none.                       *)
OpenStream(n) ==
  /\ pieces' = n /\ stream' = "piece" /\ last' = "none"
  /\ out' = <<>> /\ given' = <<>> /\ made' = 0
  /\ UNCHANGED <<cancel, held, passing, threadVars>>

(* The hold-back target of a piece is zero when synthesis is faster than     *)
(* speech, and otherwise a positive time.                                    *)
HoldsBack == IF kind = "qwen3Held" THEN BOOLEAN ELSE {FALSE}

StartPiece ==
  /\ stream = "piece" /\ pieces > 0
  /\ thread' = "working" /\ queue' = <<>> /\ pending' = <<>> /\ cancel' = FALSE
  /\ \E holdBack \in HoldsBack : passing' = ~holdBack
  /\ held' = <<>> /\ last' = "none" /\ stream' = "get"
  /\ UNCHANGED <<pieces, out, given, made>>

EndOfText ==
  /\ stream = "piece" /\ pieces = 0 /\ stream' = "whole"
  /\ UNCHANGED <<pieces, out, last, cancel, held, passing, given, threadVars,
                 made>>

Gets(type) ==
  /\ stream = "get" /\ queue # <<>> /\ Head(queue).type = type
  /\ queue' = Tail(queue)

GetAudioDropsHeld ==    \* mutant: the frames held so far are not flushed first
  /\ Gets("audio")
  /\ LET frames == Head(queue).frames IN
     \/ /\ passing /\ out' = frames /\ stream' = "yield"
        /\ UNCHANGED <<held, passing>>
     \/ /\ ~passing /\ held' = held \o frames
        /\ UNCHANGED <<out, stream, passing>>
     \/ /\ ~passing /\ passing' = TRUE /\ held' = <<>>
        /\ out' = frames /\ stream' = "yield"
  /\ UNCHANGED <<pieces, last, cancel, given, thread, pending, made>>

(* A batch is passed on; or held, until enough is held to start.             *)
GetAudio ==
  /\ Gets("audio")
  /\ LET frames == Head(queue).frames IN
     \/ /\ passing /\ out' = frames /\ stream' = "yield"
        /\ UNCHANGED <<held, passing>>
     \/ /\ ~passing /\ held' = held \o frames
        /\ UNCHANGED <<out, stream, passing>>
     \/ /\ ~passing /\ passing' = TRUE /\ held' = <<>>
        /\ out' = held \o frames /\ stream' = "yield"
  /\ UNCHANGED <<pieces, last, cancel, given, thread, pending, made>>

(* The sentinel: whatever is still held is yielded before the return.        *)
GetSentinel ==
  /\ Gets("sentinel")
  /\ last' = "done" /\ held' = <<>>
  /\ IF held = <<>> THEN stream' = "finally" /\ UNCHANGED out
                    ELSE stream' = "yield" /\ out' = held
  /\ UNCHANGED <<pieces, cancel, passing, given, thread, pending, made>>

(* The exception is raised here; what is held is lost with the piece.        *)
GetException ==
  /\ Gets("exception")
  /\ last' = "failed" /\ held' = <<>> /\ stream' = "finally"
  /\ UNCHANGED <<pieces, out, cancel, passing, given, thread, pending, made>>

(* A held frame is yielded by itself, a decoded batch of frames as one.  The *)
(* consumer takes it and comes back for more ...                             *)
Yield ==
  /\ stream = "yield"
  /\ LET n == IF kind \in Qwen3 THEN 1 ELSE Len(out) IN
       /\ given' = given \o SubSeq(out, 1, n)
       /\ out' = SubSeq(out, n + 1, Len(out))
  /\ stream' = IF out' # <<>> THEN "yield"
               ELSE IF last = "done" THEN "finally" ELSE "get"
  /\ UNCHANGED <<pieces, last, cancel, held, passing, threadVars, made>>

(* ... or never does: GeneratorExit at the yield.                            *)
CloseStream ==
  /\ stream = "yield"
  /\ stream' = "finally" /\ last' = "closed" /\ out' = <<>> /\ held' = <<>>
  /\ UNCHANGED <<pieces, cancel, passing, given, threadVars, made>>

CancelOnClose ==
  /\ stream = "finally" /\ kind \in Qwen3 /\ ~cancel
  /\ cancel' = TRUE
  /\ UNCHANGED <<pieces, stream, out, last, held, passing, given, threadVars,
                 made>>

FinallyUnawaited ==   \* mutant: the thread is left to itself
  /\ stream = "finally" /\ (kind \in Qwen3 => cancel)
  /\ IF last = "done"
     THEN stream' = "piece" /\ pieces' = pieces - 1
     ELSE stream' = "broken" /\ UNCHANGED pieces
  /\ UNCHANGED <<out, last, cancel, held, passing, given, threadVars, made>>

(* The finally waits for the thread, then the next piece has its turn.       *)
Finally ==
  /\ stream = "finally" /\ (kind \in Qwen3 => cancel) /\ thread = "none"
  /\ IF last = "done"
     THEN stream' = "piece" /\ pieces' = pieces - 1
     ELSE stream' = "broken" /\ UNCHANGED pieces
  /\ UNCHANGED <<out, last, cancel, held, passing, given, threadVars, made>>

-----------------------------------------------------------------------------
(* The refinement: a stream that is being closed or has raised is broken as  *)
(* soon as nothing more can be given.                                        *)
Status ==
  CASE stream = "idle"  -> "idle"
    [] stream = "whole" -> "whole"
    [] stream = "broken" \/ (stream = "finally" /\ last # "done") -> "broken"
    [] OTHER -> "going"

Stream == INSTANCE AudioStream WITH status <- Status
================================================================================
