--------------------------- MODULE SpeechWorkerProofs ---------------------------
(***************************************************************************)
(* That speech-dispatcher hears of one speech after the other, of its end  *)
(* only when the reply was read to its end, and that a stopped speech goes *)
(* quiet and is reported as stopped: for any number of SPEAK and STOP      *)
(* commands, wherever they meet a worker, as long as no start() has gone   *)
(* on past a thread that its join left alive.                              *)
(***************************************************************************)
EXTENDS SpeechWorker, TLAPS

(* The thread of the last speech, or of the one before while start() is in   *)
(* its stop().  Later ones have none.                                        *)
MainShape ==
  /\ next = Nobody => thread = speeches
  /\ next # Nobody => next = speeches /\ thread = speeches - 1 /\ main # "read"
  /\ \A w \in Speeches : thread < w => pc[w] = "none"
  /\ \A w \in Speeches : w <= thread => pc[w] # "none"

(* What a worker has looked up is there.                                     *)
LookedUp ==
  \A w \in Speeches :
    /\ pc[w] \in {"recv", "wait"} => uses[w] # Nobody
    /\ pc[w] \in {"loop", "recv", "drain"} => feeds[w] # Nobody

(* ------- while no start() has gone on past a living thread -------         *)

OthersDone == \A w \in Speeches : w < thread => pc[w] = "done"

HasBegun == pc[thread] # "begin"
IsDone   == pc[thread] = "done"

EventsSoFar ==
  /\ thread = Nobody => events = <<>>
  /\ thread # Nobody =>
       Len(events) = 2 * thread - (IF IsDone THEN 0 ELSE IF HasBegun THEN 1 ELSE 2)
  /\ \A i \in 1..Len(events) :
       /\ Speech(i) = (i + 1) \div 2
       /\ (Code(i) = 701) = (i % 2 = 1)

(* The fields of the one SpeechWorker hold what this worker put there.       *)
OwnFields ==
  /\ conn \in {Nobody, thread} /\ player \in {Nobody, thread}
  /\ \A w \in Speeches : uses[w] \in {Nobody, w}
  /\ thread # Nobody =>
       /\ pc[thread] \in {"send", "header", "loop", "recv", "drain", "wait"} =>
            conn = thread /\ player = thread
       /\ pc[thread] \in {"begin", "open", "emit", "done"} =>
            conn = Nobody /\ player = Nobody
       /\ pc[thread] = "recv" => uses[thread] = thread
       /\ pc[thread] \in {"loop", "recv", "drain"} => feeds[thread] = thread

(* A worker leaves its loop by audio_end, by a failure or by a STOP.         *)
WholeOrNot ==
  thread # Nobody =>
    (pc[thread] \in {"drain", "wait", "final", "emit"} /\ ~failed[thread] /\ ~stop
      => taken[thread] = End)

EndsAreWhole ==
  \A i \in 1..Len(events) : Code(i) = 702 => taken[Speech(i)] = End

(* A STOP that meets the worker in a read has terminated its player.         *)
StoppedIsQuiet ==
  thread # Nobody =>
    (stop /\ pc[thread] = "recv" => playing[thread] # "running")

Alone == /\ OthersDone /\ EventsSoFar /\ OwnFields /\ WholeOrNot
         /\ EndsAreWhole /\ StoppedIsQuiet

Typed == TypeOK /\ MainShape /\ LookedUp

WInv == Typed /\ (~overlapped => Alone)

-----------------------------------------------------------------------------
(* The types, in four groups.                                                *)

MainTypeOK ==
  /\ main \in {"read", "stop", "join"} /\ next \in {Nobody} \cup Speeches
  /\ speeches \in 0..MaxSpeeches /\ stops \in 0..MaxStops
  /\ thread \in {Nobody} \cup Speeches
  /\ stop \in BOOLEAN /\ overlapped \in BOOLEAN

WorkerTypeOK ==
  /\ pc \in [Speeches -> PCs] /\ failed \in [Speeches -> BOOLEAN]
  /\ uses \in [Speeches -> {Nobody} \cup Speeches]
  /\ feeds \in [Speeches -> {Nobody} \cup Speeches]

WorldTypeOK ==
  /\ conn \in {Nobody} \cup Speeches /\ player \in {Nobody} \cup Speeches
  /\ link \in [Speeches -> {"none", "open", "closed"}]
  /\ asked \in [Speeches -> BOOLEAN] /\ taken \in [Speeches -> 0..Error]
  /\ playing \in [Speeches -> {"none", "running", "eof", "ended"}]
  /\ conn # Nobody => link[conn] # "none"
  /\ player # Nobody => playing[player] # "none"

SaidTypeOK ==
  /\ played \in [Speeches -> Seq(Speeches \X (1..MaxChunks))]
  /\ events \in Seq({701, 702, 703} \X Speeches)

LEMMA Groups ==
  ASSUME TypeOK
  PROVE  MainTypeOK /\ WorkerTypeOK /\ WorldTypeOK /\ SaidTypeOK
  BY DEF TypeOK, MainTypeOK, WorkerTypeOK, WorldTypeOK, SaidTypeOK

LEMMA GroupsNext ==
  TypeOK' <=> MainTypeOK' /\ WorkerTypeOK' /\ WorldTypeOK' /\ SaidTypeOK'
  <1>1. TypeOK <=> MainTypeOK /\ WorkerTypeOK /\ WorldTypeOK /\ SaidTypeOK
    <2>1. {thread, conn, player} \subseteq {Nobody} \cup Speeches <=>
            /\ thread \in {Nobody} \cup Speeches
            /\ conn \in {Nobody} \cup Speeches /\ player \in {Nobody} \cup Speeches
      OBVIOUS
    <2>2. TypeOK => MainTypeOK /\ WorkerTypeOK /\ WorldTypeOK /\ SaidTypeOK
      BY Groups
    <2>3. MainTypeOK /\ WorkerTypeOK /\ WorldTypeOK /\ SaidTypeOK => TypeOK
      BY <2>1, Zenon DEF TypeOK, MainTypeOK, WorkerTypeOK, WorldTypeOK, SaidTypeOK
    <2> QED BY <2>2, <2>3
  <1> QED BY <1>1, PTL

LEMMA SpeechFacts ==
  ASSUME Typed
  PROVE  /\ MainTypeOK /\ WorkerTypeOK /\ WorldTypeOK /\ SaidTypeOK
         /\ MainShape /\ LookedUp
         /\ MaxSpeeches \in Nat /\ MaxStops \in Nat /\ MaxChunks \in Nat
         /\ 0 \notin Speeches /\ Speeches \subseteq Nat
         /\ speeches \in Nat /\ thread \in Nat
  BY SpeechWorkerAssumption, Groups DEF Typed, MainTypeOK, Nobody, Speeches

LEMMA BeginTyped ==
  ASSUME Typed, NEW w \in Speeches, Begin(w) PROVE Typed'
  <1>1. MainTypeOK'
    BY SpeechFacts DEF MainTypeOK, Begin, mainVars
  <1>2. WorkerTypeOK'
    <2>1. pc' \in [Speeches -> PCs]
      BY SpeechFacts DEF WorkerTypeOK, PCs, workerVars, Begin, Goes, Fails, Says
    <2>2. failed' \in [Speeches -> BOOLEAN]
      BY SpeechFacts DEF WorkerTypeOK, workerVars, Begin, Goes, Fails, Says
    <2>3. uses' \in [Speeches -> {Nobody} \cup Speeches]
      BY SpeechFacts DEF WorkerTypeOK, WorldTypeOK, workerVars, Begin, Goes,
                         Fails, Says
    <2>4. feeds' \in [Speeches -> {Nobody} \cup Speeches]
      BY SpeechFacts DEF WorkerTypeOK, WorldTypeOK, workerVars, Begin, Goes,
                         Fails, Says
    <2> QED BY <2>1, <2>2, <2>3, <2>4 DEF WorkerTypeOK
  <1>3. WorldTypeOK'
    BY SpeechFacts DEF WorkerTypeOK, WorldTypeOK, LookedUp, worldVars, End,
                       Error, Nobody, Begin, Goes, Fails, Says
  <1>4. SaidTypeOK'
    BY SpeechFacts DEF WorkerTypeOK, WorldTypeOK, SaidTypeOK, LookedUp,
                       worldVars, Nobody, Begin, Goes, Fails, Says
  <1>5. MainShape'
    BY SpeechFacts DEF WorkerTypeOK, MainShape, mainVars, workerVars, Begin,
                       Goes, Fails, Says
  <1>6. LookedUp'
    BY SpeechFacts DEF WorkerTypeOK, WorldTypeOK, LookedUp, workerVars, Nobody,
                       Begin, Goes, Fails, Says
  <1> QED BY <1>1, <1>2, <1>3, <1>4, <1>5, <1>6, GroupsNext DEF Typed

LEMMA OpenTyped ==
  ASSUME Typed, NEW w \in Speeches, Open(w) PROVE Typed'
  <1>1. MainTypeOK'
    BY SpeechFacts DEF MainTypeOK, Open, mainVars
  <1>2. WorkerTypeOK'
    <2>1. pc' \in [Speeches -> PCs]
      BY SpeechFacts DEF WorkerTypeOK, PCs, workerVars, Open, Goes, Fails
    <2>2. failed' \in [Speeches -> BOOLEAN]
      BY SpeechFacts DEF WorkerTypeOK, workerVars, Open, Goes, Fails
    <2>3. uses' \in [Speeches -> {Nobody} \cup Speeches]
      BY SpeechFacts DEF WorkerTypeOK, WorldTypeOK, workerVars, Open, Goes,
                         Fails
    <2>4. feeds' \in [Speeches -> {Nobody} \cup Speeches]
      BY SpeechFacts DEF WorkerTypeOK, WorldTypeOK, workerVars, Open, Goes,
                         Fails
    <2> QED BY <2>1, <2>2, <2>3, <2>4 DEF WorkerTypeOK
  <1>3. WorldTypeOK'
    BY SpeechFacts DEF WorkerTypeOK, WorldTypeOK, LookedUp, worldVars, End,
                       Error, Nobody, Open, Goes, Fails
  <1>4. SaidTypeOK'
    BY SpeechFacts DEF WorkerTypeOK, WorldTypeOK, SaidTypeOK, LookedUp,
                       worldVars, Nobody, Open, Goes, Fails
  <1>5. MainShape'
    BY SpeechFacts DEF WorkerTypeOK, MainShape, mainVars, workerVars, Open,
                       Goes, Fails
  <1>6. LookedUp'
    BY SpeechFacts DEF WorkerTypeOK, WorldTypeOK, LookedUp, workerVars, Nobody,
                       Open, Goes, Fails
  <1> QED BY <1>1, <1>2, <1>3, <1>4, <1>5, <1>6, GroupsNext DEF Typed

LEMMA SendTyped ==
  ASSUME Typed, NEW w \in Speeches, Send(w) PROVE Typed'
  <1>1. MainTypeOK'
    BY SpeechFacts DEF MainTypeOK, Send, mainVars
  <1>2. WorkerTypeOK'
    <2>1. pc' \in [Speeches -> PCs]
      BY SpeechFacts DEF WorkerTypeOK, PCs, workerVars, Send, Goes, Fails
    <2>2. failed' \in [Speeches -> BOOLEAN]
      BY SpeechFacts DEF WorkerTypeOK, workerVars, Send, Goes, Fails
    <2>3. uses' \in [Speeches -> {Nobody} \cup Speeches]
      BY SpeechFacts DEF WorkerTypeOK, WorldTypeOK, workerVars, Send, Goes,
                         Fails
    <2>4. feeds' \in [Speeches -> {Nobody} \cup Speeches]
      BY SpeechFacts DEF WorkerTypeOK, WorldTypeOK, workerVars, Send, Goes,
                         Fails
    <2> QED BY <2>1, <2>2, <2>3, <2>4 DEF WorkerTypeOK
  <1>3. WorldTypeOK'
    BY SpeechFacts DEF WorkerTypeOK, WorldTypeOK, LookedUp, worldVars, End,
                       Error, Nobody, Send, Goes, Fails
  <1>4. SaidTypeOK'
    BY SpeechFacts DEF WorkerTypeOK, WorldTypeOK, SaidTypeOK, LookedUp,
                       worldVars, Nobody, Send, Goes, Fails
  <1>5. MainShape'
    BY SpeechFacts DEF WorkerTypeOK, MainShape, mainVars, workerVars, Send,
                       Goes, Fails
  <1>6. LookedUp'
    BY SpeechFacts DEF WorkerTypeOK, WorldTypeOK, LookedUp, workerVars, Nobody,
                       Send, Goes, Fails
  <1> QED BY <1>1, <1>2, <1>3, <1>4, <1>5, <1>6, GroupsNext DEF Typed

LEMMA LookForHeaderTyped ==
  ASSUME Typed, NEW w \in Speeches, LookForHeader(w) PROVE Typed'
  <1>1. MainTypeOK'
    BY SpeechFacts DEF MainTypeOK, LookForHeader, mainVars
  <1>2. WorkerTypeOK'
    <2>1. pc' \in [Speeches -> PCs]
      BY SpeechFacts DEF WorkerTypeOK, PCs, workerVars, LookForHeader, Goes,
                         Fails, Look
    <2>2. failed' \in [Speeches -> BOOLEAN]
      BY SpeechFacts DEF WorkerTypeOK, workerVars, LookForHeader, Goes, Fails,
                         Look
    <2>3. uses' \in [Speeches -> {Nobody} \cup Speeches]
      BY SpeechFacts DEF WorkerTypeOK, WorldTypeOK, workerVars, LookForHeader,
                         Goes, Fails, Look
    <2>4. feeds' \in [Speeches -> {Nobody} \cup Speeches]
      BY SpeechFacts DEF WorkerTypeOK, WorldTypeOK, workerVars, LookForHeader,
                         Goes, Fails, Look
    <2> QED BY <2>1, <2>2, <2>3, <2>4 DEF WorkerTypeOK
  <1>3. WorldTypeOK'
    BY SpeechFacts DEF WorkerTypeOK, WorldTypeOK, LookedUp, worldVars, End,
                       Error, Nobody, LookForHeader, Goes, Fails, Look
  <1>4. SaidTypeOK'
    BY SpeechFacts DEF WorkerTypeOK, WorldTypeOK, SaidTypeOK, LookedUp,
                       worldVars, Nobody, LookForHeader, Goes, Fails, Look
  <1>5. MainShape'
    BY SpeechFacts DEF WorkerTypeOK, MainShape, mainVars, workerVars,
                       LookForHeader, Goes, Fails, Look
  <1>6. LookedUp'
    BY SpeechFacts DEF WorkerTypeOK, WorldTypeOK, LookedUp, workerVars, Nobody,
                       LookForHeader, Goes, Fails, Look
  <1> QED BY <1>1, <1>2, <1>3, <1>4, <1>5, <1>6, GroupsNext DEF Typed

LEMMA ReadHeaderTyped ==
  ASSUME Typed, NEW w \in Speeches, ReadHeader(w) PROVE Typed'
  <1>1. MainTypeOK'
    BY SpeechFacts DEF MainTypeOK, ReadHeader, mainVars
  <1>2. WorkerTypeOK'
    <2>1. pc' \in [Speeches -> PCs]
      BY SpeechFacts DEF WorkerTypeOK, PCs, workerVars, ReadHeader, Goes, Fails,
                         Readable, Took
    <2>2. failed' \in [Speeches -> BOOLEAN]
      BY SpeechFacts DEF WorkerTypeOK, workerVars, ReadHeader, Goes, Fails,
                         Readable, Took
    <2>3. uses' \in [Speeches -> {Nobody} \cup Speeches]
      BY SpeechFacts DEF WorkerTypeOK, WorldTypeOK, workerVars, ReadHeader,
                         Goes, Fails, Readable, Took
    <2>4. feeds' \in [Speeches -> {Nobody} \cup Speeches]
      BY SpeechFacts DEF WorkerTypeOK, WorldTypeOK, workerVars, ReadHeader,
                         Goes, Fails, Readable, Took
    <2> QED BY <2>1, <2>2, <2>3, <2>4 DEF WorkerTypeOK
  <1>3. WorldTypeOK'
    BY SpeechFacts DEF WorkerTypeOK, WorldTypeOK, LookedUp, worldVars, End,
                       Error, Nobody, ReadHeader, Goes, Fails, Readable, Took
  <1>4. SaidTypeOK'
    BY SpeechFacts DEF WorkerTypeOK, WorldTypeOK, SaidTypeOK, LookedUp,
                       worldVars, Nobody, ReadHeader, Goes, Fails, Readable,
                       Took
  <1>5. MainShape'
    BY SpeechFacts DEF WorkerTypeOK, MainShape, mainVars, workerVars,
                       ReadHeader, Goes, Fails, Readable, Took
  <1>6. LookedUp'
    BY SpeechFacts DEF WorkerTypeOK, WorldTypeOK, LookedUp, workerVars, Nobody,
                       ReadHeader, Goes, Fails, Readable, Took
  <1> QED BY <1>1, <1>2, <1>3, <1>4, <1>5, <1>6, GroupsNext DEF Typed

LEMMA LoopTyped ==
  ASSUME Typed, NEW w \in Speeches, Loop(w) PROVE Typed'
  <1>1. MainTypeOK'
    BY SpeechFacts DEF MainTypeOK, Loop, mainVars
  <1>2. WorkerTypeOK'
    <2>1. pc' \in [Speeches -> PCs]
      BY SpeechFacts DEF WorkerTypeOK, PCs, workerVars, Loop, Goes, Fails, Look
    <2>2. failed' \in [Speeches -> BOOLEAN]
      BY SpeechFacts DEF WorkerTypeOK, workerVars, Loop, Goes, Fails, Look
    <2>3. uses' \in [Speeches -> {Nobody} \cup Speeches]
      BY SpeechFacts DEF WorkerTypeOK, WorldTypeOK, workerVars, Loop, Goes,
                         Fails, Look
    <2>4. feeds' \in [Speeches -> {Nobody} \cup Speeches]
      BY SpeechFacts DEF WorkerTypeOK, WorldTypeOK, workerVars, Loop, Goes,
                         Fails, Look
    <2> QED BY <2>1, <2>2, <2>3, <2>4 DEF WorkerTypeOK
  <1>3. WorldTypeOK'
    BY SpeechFacts DEF WorkerTypeOK, WorldTypeOK, LookedUp, worldVars, End,
                       Error, Nobody, Loop, Goes, Fails, Look
  <1>4. SaidTypeOK'
    BY SpeechFacts DEF WorkerTypeOK, WorldTypeOK, SaidTypeOK, LookedUp,
                       worldVars, Nobody, Loop, Goes, Fails, Look
  <1>5. MainShape'
    BY SpeechFacts DEF WorkerTypeOK, MainShape, mainVars, workerVars, Loop,
                       Goes, Fails, Look
  <1>6. LookedUp'
    BY SpeechFacts DEF WorkerTypeOK, WorldTypeOK, LookedUp, workerVars, Nobody,
                       Loop, Goes, Fails, Look
  <1> QED BY <1>1, <1>2, <1>3, <1>4, <1>5, <1>6, GroupsNext DEF Typed

LEMMA RecvTyped ==
  ASSUME Typed, NEW w \in Speeches, Recv(w) PROVE Typed'
  <1>1. MainTypeOK'
    BY SpeechFacts DEF MainTypeOK, Recv, mainVars
  <1>2. WorkerTypeOK'
    <2>1. pc' \in [Speeches -> PCs]
      BY SpeechFacts DEF WorkerTypeOK, PCs, workerVars, Recv, Goes, Fails,
                         Readable, Took
    <2>2. failed' \in [Speeches -> BOOLEAN]
      BY SpeechFacts DEF WorkerTypeOK, workerVars, Recv, Goes, Fails, Readable,
                         Took
    <2>3. uses' \in [Speeches -> {Nobody} \cup Speeches]
      BY SpeechFacts DEF WorkerTypeOK, WorldTypeOK, workerVars, Recv, Goes,
                         Fails, Readable, Took
    <2>4. feeds' \in [Speeches -> {Nobody} \cup Speeches]
      BY SpeechFacts DEF WorkerTypeOK, WorldTypeOK, workerVars, Recv, Goes,
                         Fails, Readable, Took
    <2> QED BY <2>1, <2>2, <2>3, <2>4 DEF WorkerTypeOK
  <1>3. WorldTypeOK'
    <2>1. uses[w] \in Speeches
      BY SpeechFacts DEF LookedUp, WorkerTypeOK, Recv
    <2>2. taken' \in [Speeches -> 0..Error]
      <3>1. taken \in [Speeches -> 0..Error] /\ taken[uses[w]] \in Nat
        BY <2>1, SpeechFacts DEF WorldTypeOK, Error
      <3>2. \/ Took(uses[w], taken[uses[w]] + 1) /\ taken[uses[w]] <= MaxChunks
            \/ Took(uses[w], End) \/ Took(uses[w], Error) \/ taken' = taken
        BY <3>1, SpeechFacts DEF Recv
      <3>3. End \in 0..Error /\ Error \in 0..Error
        BY SpeechFacts DEF End, Error
      <3>4. taken[uses[w]] <= MaxChunks => taken[uses[w]] + 1 \in 0..Error
        BY <3>1, SpeechFacts DEF Error
      <3> QED BY <2>1, <3>1, <3>2, <3>3, <3>4 DEF Took
    <2>3. UNCHANGED <<conn, player, link, asked, playing>>
      BY DEF Recv
    <2> QED BY <2>2, <2>3, SpeechFacts DEF WorldTypeOK
  <1>4. SaidTypeOK'
    <2>1. uses[w] \in Speeches /\ feeds[w] \in Speeches
      BY SpeechFacts DEF LookedUp, WorkerTypeOK, Recv
    <2>2. played \in [Speeches -> Seq(Speeches \X (1..MaxChunks))]
      BY SpeechFacts DEF SaidTypeOK
    <2>3. CASE UNCHANGED played
      BY <2>3, SpeechFacts DEF SaidTypeOK, Recv
    <2>4. CASE taken[uses[w]] \in 1..MaxChunks
               /\ played' = [played EXCEPT ![feeds[w]] =
                              Append(@, <<uses[w], taken[uses[w]]>>)]
      <3>1. <<uses[w], taken[uses[w]]>> \in Speeches \X (1..MaxChunks)
        BY <2>1, <2>4
      <3>2. Append(played[feeds[w]], <<uses[w], taken[uses[w]]>>)
              \in Seq(Speeches \X (1..MaxChunks))
        BY <2>1, <2>2, <3>1
      <3>3. played' \in [Speeches -> Seq(Speeches \X (1..MaxChunks))]
        BY <2>1, <2>2, <2>4, <3>2
      <3> QED BY <3>3, SpeechFacts DEF SaidTypeOK, Recv
    <2> QED BY <2>3, <2>4 DEF Recv
  <1>5. MainShape'
    BY SpeechFacts DEF WorkerTypeOK, MainShape, mainVars, workerVars, Recv,
                       Goes, Fails, Readable, Took
  <1>6. LookedUp'
    <2>1. /\ uses' = [uses EXCEPT ![w] = Nobody] /\ feeds' = feeds
          /\ \E place \in {"loop", "drain", "final"} : pc' = [pc EXCEPT ![w] = place]
      BY DEF Recv, Goes, Fails
    <2>2. feeds[w] # Nobody
      BY SpeechFacts DEF Recv, LookedUp
    <2> QED BY <2>1, <2>2, SpeechFacts DEF WorkerTypeOK, LookedUp, Nobody
  <1> QED BY <1>1, <1>2, <1>3, <1>4, <1>5, <1>6, GroupsNext DEF Typed

LEMMA DrainTyped ==
  ASSUME Typed, NEW w \in Speeches, Drain(w) PROVE Typed'
  <1>1. MainTypeOK'
    BY SpeechFacts DEF MainTypeOK, Drain, mainVars
  <1>2. WorkerTypeOK'
    <2>1. pc' \in [Speeches -> PCs]
      BY SpeechFacts DEF WorkerTypeOK, PCs, workerVars, Drain, Goes, Fails
    <2>2. failed' \in [Speeches -> BOOLEAN]
      BY SpeechFacts DEF WorkerTypeOK, workerVars, Drain, Goes, Fails
    <2>3. uses' \in [Speeches -> {Nobody} \cup Speeches]
      BY SpeechFacts DEF WorkerTypeOK, WorldTypeOK, workerVars, Drain, Goes,
                         Fails
    <2>4. feeds' \in [Speeches -> {Nobody} \cup Speeches]
      BY SpeechFacts DEF WorkerTypeOK, WorldTypeOK, workerVars, Drain, Goes,
                         Fails
    <2> QED BY <2>1, <2>2, <2>3, <2>4 DEF WorkerTypeOK
  <1>3. WorldTypeOK'
    BY SpeechFacts DEF WorkerTypeOK, WorldTypeOK, LookedUp, worldVars, End,
                       Error, Nobody, Drain, Goes, Fails
  <1>4. SaidTypeOK'
    BY SpeechFacts DEF WorkerTypeOK, WorldTypeOK, SaidTypeOK, LookedUp,
                       worldVars, Nobody, Drain, Goes, Fails
  <1>5. MainShape'
    BY SpeechFacts DEF WorkerTypeOK, MainShape, mainVars, workerVars, Drain,
                       Goes, Fails
  <1>6. LookedUp'
    BY SpeechFacts DEF WorkerTypeOK, WorldTypeOK, LookedUp, workerVars, Nobody,
                       Drain, Goes, Fails
  <1> QED BY <1>1, <1>2, <1>3, <1>4, <1>5, <1>6, GroupsNext DEF Typed

LEMMA WaitTyped ==
  ASSUME Typed, NEW w \in Speeches, Wait(w) PROVE Typed'
  <1>1. MainTypeOK'
    BY SpeechFacts DEF MainTypeOK, Wait, mainVars
  <1>2. WorkerTypeOK'
    <2>1. pc' \in [Speeches -> PCs]
      BY SpeechFacts DEF WorkerTypeOK, PCs, workerVars, Wait, Goes, Fails,
                         Terminated
    <2>2. failed' \in [Speeches -> BOOLEAN]
      BY SpeechFacts DEF WorkerTypeOK, workerVars, Wait, Goes, Fails, Terminated
    <2>3. uses' \in [Speeches -> {Nobody} \cup Speeches]
      BY SpeechFacts DEF WorkerTypeOK, WorldTypeOK, workerVars, Wait, Goes,
                         Fails, Terminated
    <2>4. feeds' \in [Speeches -> {Nobody} \cup Speeches]
      BY SpeechFacts DEF WorkerTypeOK, WorldTypeOK, workerVars, Wait, Goes,
                         Fails, Terminated
    <2> QED BY <2>1, <2>2, <2>3, <2>4 DEF WorkerTypeOK
  <1>3. WorldTypeOK'
    BY SpeechFacts DEF WorkerTypeOK, WorldTypeOK, LookedUp, worldVars, End,
                       Error, Nobody, Wait, Goes, Fails, Terminated
  <1>4. SaidTypeOK'
    BY SpeechFacts DEF WorkerTypeOK, WorldTypeOK, SaidTypeOK, LookedUp,
                       worldVars, Nobody, Wait, Goes, Fails, Terminated
  <1>5. MainShape'
    BY SpeechFacts DEF WorkerTypeOK, MainShape, mainVars, workerVars, Wait,
                       Goes, Fails, Terminated
  <1>6. LookedUp'
    BY SpeechFacts DEF WorkerTypeOK, WorldTypeOK, LookedUp, workerVars, Nobody,
                       Wait, Goes, Fails, Terminated
  <1> QED BY <1>1, <1>2, <1>3, <1>4, <1>5, <1>6, GroupsNext DEF Typed

LEMMA FinalTyped ==
  ASSUME Typed, NEW w \in Speeches, Final(w) PROVE Typed'
  <1>1. MainTypeOK'
    BY SpeechFacts DEF MainTypeOK, Final, mainVars
  <1>2. WorkerTypeOK'
    <2>1. pc' \in [Speeches -> PCs]
      BY SpeechFacts DEF WorkerTypeOK, PCs, workerVars, Final, Goes, Fails,
                         Closed
    <2>2. failed' \in [Speeches -> BOOLEAN]
      BY SpeechFacts DEF WorkerTypeOK, workerVars, Final, Goes, Fails, Closed
    <2>3. uses' \in [Speeches -> {Nobody} \cup Speeches]
      BY SpeechFacts DEF WorkerTypeOK, WorldTypeOK, workerVars, Final, Goes,
                         Fails, Closed
    <2>4. feeds' \in [Speeches -> {Nobody} \cup Speeches]
      BY SpeechFacts DEF WorkerTypeOK, WorldTypeOK, workerVars, Final, Goes,
                         Fails, Closed
    <2> QED BY <2>1, <2>2, <2>3, <2>4 DEF WorkerTypeOK
  <1>3. WorldTypeOK'
    BY SpeechFacts DEF WorkerTypeOK, WorldTypeOK, LookedUp, worldVars, End,
                       Error, Nobody, Final, Goes, Fails, Closed
  <1>4. SaidTypeOK'
    BY SpeechFacts DEF WorkerTypeOK, WorldTypeOK, SaidTypeOK, LookedUp,
                       worldVars, Nobody, Final, Goes, Fails, Closed
  <1>5. MainShape'
    BY SpeechFacts DEF WorkerTypeOK, MainShape, mainVars, workerVars, Final,
                       Goes, Fails, Closed
  <1>6. LookedUp'
    BY SpeechFacts DEF WorkerTypeOK, WorldTypeOK, LookedUp, workerVars, Nobody,
                       Final, Goes, Fails, Closed
  <1> QED BY <1>1, <1>2, <1>3, <1>4, <1>5, <1>6, GroupsNext DEF Typed

LEMMA EmitTyped ==
  ASSUME Typed, NEW w \in Speeches, Emit(w) PROVE Typed'
  <1>1. MainTypeOK'
    BY SpeechFacts DEF MainTypeOK, Emit, mainVars
  <1>2. WorkerTypeOK'
    <2>1. pc' \in [Speeches -> PCs]
      BY SpeechFacts DEF WorkerTypeOK, PCs, workerVars, Emit, Goes, Fails, Says
    <2>2. failed' \in [Speeches -> BOOLEAN]
      BY SpeechFacts DEF WorkerTypeOK, workerVars, Emit, Goes, Fails, Says
    <2>3. uses' \in [Speeches -> {Nobody} \cup Speeches]
      BY SpeechFacts DEF WorkerTypeOK, WorldTypeOK, workerVars, Emit, Goes,
                         Fails, Says
    <2>4. feeds' \in [Speeches -> {Nobody} \cup Speeches]
      BY SpeechFacts DEF WorkerTypeOK, WorldTypeOK, workerVars, Emit, Goes,
                         Fails, Says
    <2> QED BY <2>1, <2>2, <2>3, <2>4 DEF WorkerTypeOK
  <1>3. WorldTypeOK'
    BY SpeechFacts DEF WorkerTypeOK, WorldTypeOK, LookedUp, worldVars, End,
                       Error, Nobody, Emit, Goes, Fails, Says
  <1>4. SaidTypeOK'
    BY SpeechFacts DEF WorkerTypeOK, WorldTypeOK, SaidTypeOK, LookedUp,
                       worldVars, Nobody, Emit, Goes, Fails, Says
  <1>5. MainShape'
    BY SpeechFacts DEF WorkerTypeOK, MainShape, mainVars, workerVars, Emit,
                       Goes, Fails, Says
  <1>6. LookedUp'
    BY SpeechFacts DEF WorkerTypeOK, WorldTypeOK, LookedUp, workerVars, Nobody,
                       Emit, Goes, Fails, Says
  <1> QED BY <1>1, <1>2, <1>3, <1>4, <1>5, <1>6, GroupsNext DEF Typed

LEMMA PlayerExitsTyped ==
  ASSUME Typed, NEW w \in Speeches, PlayerExits(w) PROVE Typed'
  <1>1. MainTypeOK'
    BY SpeechFacts DEF MainTypeOK, PlayerExits, mainVars
  <1>2. WorkerTypeOK'
    <2>1. pc' \in [Speeches -> PCs]
      BY SpeechFacts DEF WorkerTypeOK, PCs, workerVars, PlayerExits, Goes, Fails
    <2>2. failed' \in [Speeches -> BOOLEAN]
      BY SpeechFacts DEF WorkerTypeOK, workerVars, PlayerExits, Goes, Fails
    <2>3. uses' \in [Speeches -> {Nobody} \cup Speeches]
      BY SpeechFacts DEF WorkerTypeOK, WorldTypeOK, workerVars, PlayerExits,
                         Goes, Fails
    <2>4. feeds' \in [Speeches -> {Nobody} \cup Speeches]
      BY SpeechFacts DEF WorkerTypeOK, WorldTypeOK, workerVars, PlayerExits,
                         Goes, Fails
    <2> QED BY <2>1, <2>2, <2>3, <2>4 DEF WorkerTypeOK
  <1>3. WorldTypeOK'
    BY SpeechFacts DEF WorkerTypeOK, WorldTypeOK, LookedUp, worldVars, End,
                       Error, Nobody, PlayerExits, Goes, Fails
  <1>4. SaidTypeOK'
    BY SpeechFacts DEF WorkerTypeOK, WorldTypeOK, SaidTypeOK, LookedUp,
                       worldVars, Nobody, PlayerExits, Goes, Fails
  <1>5. MainShape'
    BY SpeechFacts DEF WorkerTypeOK, MainShape, mainVars, workerVars,
                       PlayerExits, Goes, Fails
  <1>6. LookedUp'
    BY SpeechFacts DEF WorkerTypeOK, WorldTypeOK, LookedUp, workerVars, Nobody,
                       PlayerExits, Goes, Fails
  <1> QED BY <1>1, <1>2, <1>3, <1>4, <1>5, <1>6, GroupsNext DEF Typed

(* The main thread's steps.                                                  *)

LEMMA StartThreadTyped ==
  ASSUME Typed, NEW u \in Speeches, StartThread(u), u = thread + 1,
         speeches' = u, stops' \in 0..MaxStops, overlapped' \in BOOLEAN,
         UNCHANGED <<conn, player, uses, feeds, failed, worldVars, events>>
  PROVE  Typed'
  <1>1. MainTypeOK'
    <2>1. u \in 0..MaxSpeeches
      BY SpeechFacts DEF Speeches
    <2>2. stop' \in BOOLEAN /\ main' = "read" /\ next' = Nobody /\ thread' = u
      BY DEF StartThread
    <2> QED BY <2>1, <2>2 DEF MainTypeOK
  <1>2. WorkerTypeOK'
    BY SpeechFacts DEF WorkerTypeOK, StartThread, PCs
  <1>3. WorldTypeOK' /\ SaidTypeOK'
    BY SpeechFacts DEF WorldTypeOK, SaidTypeOK, worldVars
  <1>4. MainShape'
    <2>1. \A w \in Speeches : (w <= u <=> w <= thread \/ w = u) /\ (u < w => thread < w)
      BY SpeechFacts
    <2>2. next' = Nobody /\ thread' = u /\ pc' = [pc EXCEPT ![u] = "begin"]
      BY DEF StartThread
    <2> QED BY <2>1, <2>2, SpeechFacts DEF MainShape, WorkerTypeOK
  <1>5. LookedUp'
    BY SpeechFacts DEF LookedUp, StartThread, WorkerTypeOK
  <1> QED BY <1>1, <1>2, <1>3, <1>4, <1>5, GroupsNext DEF Typed

LEMMA SpeakTyped == ASSUME Typed, Speak PROVE Typed'
  <1>0. /\ speeches' = speeches + 1 /\ speeches + 1 \in Speeches
        /\ next = Nobody /\ thread = speeches
    BY SpeechFacts DEF Speak, Speeches, MainShape
  <1>1. CASE Busy
    <2>1. /\ main' = "stop" /\ next' = speeches + 1 /\ UNCHANGED <<thread, pc, stop>>
          /\ UNCHANGED <<stops, conn, player, uses, feeds, failed, worldVars, events,
                         overlapped>>
      BY <1>0, <1>1 DEF Speak
    <2>2. MainTypeOK'
      BY <1>0, <2>1, SpeechFacts DEF MainTypeOK, Speeches
    <2>3. WorkerTypeOK' /\ WorldTypeOK' /\ SaidTypeOK'
      BY <2>1, SpeechFacts DEF WorkerTypeOK, WorldTypeOK, SaidTypeOK, worldVars
    <2>4. MainShape' /\ LookedUp'
      <3>1. speeches + 1 # Nobody /\ thread = (speeches + 1) - 1
        BY <1>0, SpeechFacts DEF Nobody
      <3> QED BY <1>0, <2>1, <3>1, SpeechFacts DEF MainShape, LookedUp
    <2> QED BY <2>2, <2>3, <2>4, GroupsNext DEF Typed
  <1>2. CASE ~Busy
    <2>1. StartThread(speeches + 1)
      BY <1>0, <1>2 DEF Speak
    <2>2. stops' \in 0..MaxStops /\ overlapped' \in BOOLEAN
      BY SpeechFacts DEF Speak, MainTypeOK
    <2> QED BY <1>0, <2>1, <2>2, StartThreadTyped DEF Speak
  <1> QED BY <1>1, <1>2

LEMMA StopTyped == ASSUME Typed, Stop PROVE Typed'
  <1>1. MainTypeOK'
    <2>1. stops + 1 \in 0..MaxStops
      BY SpeechFacts DEF Stop, MainTypeOK
    <2> QED BY <2>1, SpeechFacts DEF Stop, MainTypeOK
  <1>2. WorkerTypeOK' /\ WorldTypeOK' /\ SaidTypeOK'
    BY SpeechFacts DEF Stop, WorkerTypeOK, WorldTypeOK, SaidTypeOK, worldVars, workerVars
  <1>3. MainShape' /\ LookedUp'
    BY SpeechFacts DEF Stop, MainShape, LookedUp, workerVars
  <1> QED BY <1>1, <1>2, <1>3, GroupsNext DEF Typed

LEMMA StopLockedTyped == ASSUME Typed, StopLocked PROVE Typed'
  <1>1. MainTypeOK'
    BY SpeechFacts DEF StopLocked, MainTypeOK
  <1>2. WorkerTypeOK' /\ SaidTypeOK'
    BY SpeechFacts DEF StopLocked, WorkerTypeOK, SaidTypeOK, workerVars
  <1>3. WorldTypeOK'
    BY SpeechFacts DEF StopLocked, WorldTypeOK, Closed, Terminated
  <1>4. MainShape' /\ LookedUp'
    BY SpeechFacts DEF StopLocked, MainShape, LookedUp, workerVars
  <1> QED BY <1>1, <1>2, <1>3, <1>4, GroupsNext DEF Typed

LEMMA JoinTyped ==
  ASSUME Typed, NEW timedOut \in BOOLEAN, Join(timedOut) PROVE Typed'
  <1>0. overlapped' \in BOOLEAN
    BY SpeechFacts DEF Join, MainTypeOK
  <1>1. CASE next = Nobody
    <2>1. /\ main' = "read" /\ UNCHANGED <<next, thread, pc, stop>>
          /\ UNCHANGED <<speeches, stops, conn, player, uses, feeds, failed, worldVars,
                         events>>
      BY <1>1 DEF Join
    <2>2. MainTypeOK'
      BY <1>0, <2>1, SpeechFacts DEF MainTypeOK
    <2>3. WorkerTypeOK' /\ WorldTypeOK' /\ SaidTypeOK'
      BY <2>1, SpeechFacts DEF WorkerTypeOK, WorldTypeOK, SaidTypeOK, worldVars
    <2>4. MainShape' /\ LookedUp'
      BY <1>1, <2>1, SpeechFacts DEF MainShape, LookedUp
    <2> QED BY <2>2, <2>3, <2>4, GroupsNext DEF Typed
  <1>2. CASE next # Nobody
    <2>1. next \in Speeches /\ next = thread + 1 /\ speeches = next
      BY <1>2, SpeechFacts DEF MainShape, MainTypeOK
    <2>2. StartThread(next) /\ speeches' = next /\ stops' \in 0..MaxStops
      BY <1>2, <2>1, SpeechFacts DEF Join, MainTypeOK
    <2> QED BY <1>0, <2>1, <2>2, StartThreadTyped DEF Join
  <1> QED BY <1>1, <1>2

(* Every variable keeps its type, whatever threads have been left alive.     *)
THEOREM SpeechTypes == Spec => []Typed
  <1>1. ASSUME Init PROVE Typed
    <2>1. MaxSpeeches \in Nat /\ MaxStops \in Nat /\ MaxChunks \in Nat
      BY SpeechWorkerAssumption
    <2>2. TypeOK
      <3>1. 0 \in 0..MaxSpeeches /\ 0 \in 0..MaxStops /\ 0 \in 0..Error
        BY <2>1 DEF Error
      <3>2. {thread, conn, player} \subseteq {Nobody} \cup Speeches
        BY <1>1 DEF Init
      <3>3. stop \in BOOLEAN /\ overlapped \in BOOLEAN
        BY <1>1 DEF Init
      <3>4. /\ pc \in [Speeches -> PCs] /\ failed \in [Speeches -> BOOLEAN]
            /\ uses \in [Speeches -> {Nobody} \cup Speeches]
            /\ feeds \in [Speeches -> {Nobody} \cup Speeches]
        BY <1>1 DEF Init, PCs
      <3>5. /\ link \in [Speeches -> {"none", "open", "closed"}]
            /\ asked \in [Speeches -> BOOLEAN] /\ taken \in [Speeches -> 0..Error]
            /\ playing \in [Speeches -> {"none", "running", "eof", "ended"}]
        BY <1>1, <3>1 DEF Init
      <3>6. /\ played \in [Speeches -> Seq(Speeches \X (1..MaxChunks))]
            /\ events \in Seq({701, 702, 703} \X Speeches)
        BY <1>1 DEF Init
      <3>7. /\ main = "read" /\ next = Nobody /\ speeches = 0 /\ stops = 0
            /\ conn = Nobody /\ player = Nobody
        BY <1>1 DEF Init
      <3> QED BY <3>1, <3>2, <3>3, <3>4, <3>5, <3>6, <3>7 DEF TypeOK
    <2>3. MainShape
      BY <1>1 DEF Init, MainShape, Speeches, Nobody
    <2>4. LookedUp
      BY <1>1 DEF Init, LookedUp
    <2> QED BY <2>2, <2>3, <2>4 DEF Typed
  <1>2. ASSUME Typed, [Next]_vars PROVE Typed'
    <2>1. CASE UNCHANGED vars
      BY <1>2, <2>1 DEF vars, workerVars, worldVars, Typed, TypeOK, MainShape, LookedUp
    <2> QED BY <1>2, <2>1, SpeakTyped, StopTyped, StopLockedTyped, JoinTyped,
               BeginTyped, OpenTyped, SendTyped, LookForHeaderTyped,
               ReadHeaderTyped, LoopTyped, RecvTyped, DrainTyped, WaitTyped,
               FinalTyped, EmitTyped, PlayerExitsTyped DEF Next
  <1> QED BY <1>1, <1>2, PTL DEF Spec

-----------------------------------------------------------------------------
(* While no start() has gone on past a living thread, there is one worker.   *)

LEMMA AliveIsThread ==
  ASSUME Typed, OthersDone, NEW w \in Speeches, pc[w] \notin {"none", "done"}
  PROVE  w = thread /\ thread # Nobody
  BY SpeechFacts DEF MainShape, OthersDone, Nobody

(* The i-th event, for i = 2k - 1 and i = 2k.                                *)
LEMMA Halves ==
  ASSUME NEW k \in Nat \ {0}
  PROVE  /\ ((2 * k - 1) + 1) \div 2 = k /\ (2 * k - 1) % 2 = 1
         /\ (2 * k + 1) \div 2 = k /\ (2 * k) % 2 = 0
  OBVIOUS

LEMMA EvenIsEarlier ==
  ASSUME NEW k \in Nat \ {0}, NEW i \in 1..(2 * k - 1), i % 2 # 1
  PROVE  (i + 1) \div 2 < k
  OBVIOUS

LEMMA EventFacts ==
  ASSUME Typed
  PROVE  /\ events \in Seq({701, 702, 703} \X Speeches) /\ Len(events) \in Nat
         /\ \A i \in 1..Len(events) :
              /\ events[i] \in {701, 702, 703} \X Speeches
              /\ Code(i) \in {701, 702, 703} /\ Speech(i) \in Speeches
  <1>1. events \in Seq({701, 702, 703} \X Speeches)
    BY SpeechFacts DEF SaidTypeOK
  <1>2. \A i \in 1..Len(events) : events[i] \in {701, 702, 703} \X Speeches
    BY <1>1
  <1> QED BY <1>1, <1>2 DEF Code, Speech

(* No 702 has been said of a speech whose worker is not done.                *)
LEMMA EndsAreEarlier ==
  ASSUME Typed, EventsSoFar, thread # Nobody, pc[thread] # "done",
         NEW i \in 1..Len(events), Code(i) = 702
  PROVE  Speech(i) \in Speeches /\ Speech(i) # thread
  <1>1. thread \in Nat \ {0} /\ Len(events) \in Nat
    BY SpeechFacts, EventFacts DEF Nobody
  <1>2. Len(events) <= 2 * thread - 1
    BY <1>1 DEF EventsSoFar, IsDone, HasBegun
  <1>3. i \in 1..(2 * thread - 1)
    BY <1>1, <1>2
  <1>4. i % 2 # 1 /\ Speech(i) = (i + 1) \div 2
    BY DEF EventsSoFar
  <1>5. (i + 1) \div 2 < thread
    BY <1>1, <1>3, <1>4, EvenIsEarlier
  <1>6. Speech(i) \in Speeches /\ Speech(i) \in Nat
    BY EventFacts, SpeechFacts
  <1> QED BY <1>1, <1>4, <1>5, <1>6

Midway == {"open", "send", "header", "loop", "recv", "drain", "wait", "final", "emit"}

(* A step of the worker between its 701 and its last line.                   *)
LEMMA MidwayStep ==
  ASSUME Typed, Alone, NEW w \in Speeches, pc[w] \in Midway, pc'[w] \in Midway,
         \A v \in Speeches \ {w} : pc'[v] = pc[v] /\ taken'[v] = taken[v],
         UNCHANGED <<thread, events>>
  PROVE  OthersDone' /\ EventsSoFar' /\ EndsAreWhole'
  <1>1. w = thread /\ thread # Nobody
    BY AliveIsThread DEF Alone, Midway
  <1>2. OthersDone'
    <2> SUFFICES ASSUME NEW v \in Speeches, v < thread PROVE pc'[v] = "done"
      BY DEF OthersDone
    <2>1. v # w
      BY <1>1, SpeechFacts
    <2> QED BY <2>1 DEF Alone, OthersDone
  <1>3. EventsSoFar'
    <2>1. ~IsDone /\ HasBegun /\ ~IsDone' /\ HasBegun'
      BY <1>1 DEF IsDone, HasBegun, Midway
    <2> QED BY <1>1, <2>1 DEF Alone, EventsSoFar, Speech, Code
  <1>4. EndsAreWhole'
    <2> SUFFICES ASSUME NEW i \in 1..Len(events), Code(i) = 702
                 PROVE  taken'[Speech(i)] = End
      BY DEF EndsAreWhole, Code, Speech
    <2>1. Speech(i) \in Speeches /\ Speech(i) # thread
      BY <1>1, EndsAreEarlier DEF Alone, Midway
    <2> QED BY <1>1, <2>1 DEF Alone, EndsAreWhole
  <1> QED BY <1>2, <1>3, <1>4

(* One more event.                                                           *)
LEMMA OneMoreEvent ==
  ASSUME Typed, EventsSoFar, EndsAreWhole, NEW w \in Speeches, w = thread,
         NEW code \in {701, 702, 703}, events' = Append(events, <<code, w>>),
         UNCHANGED <<thread, taken>>,
         Len(events) + 1 = 2 * thread - (IF IsDone' THEN 0 ELSE IF HasBegun' THEN 1 ELSE 2),
         (code = 701) = ((Len(events) + 1) % 2 = 1),
         w = (Len(events) + 1 + 1) \div 2,
         code = 702 => taken[w] = End
  PROVE  EventsSoFar' /\ EndsAreWhole'
  <1>0. <<code, w>> \in {701, 702, 703} \X Speeches
    OBVIOUS
  <1>1. /\ Len(events') = Len(events) + 1 /\ Len(events) \in Nat
        /\ events'[Len(events) + 1] = <<code, w>>
        /\ \A i \in 1..Len(events) : events'[i] = events[i]
    BY <1>0, EventFacts
  <1>2. \A i \in 1..(Len(events) + 1) : i \in 1..Len(events) \/ i = Len(events) + 1
    BY <1>1
  <1>3. thread' # Nobody
    BY SpeechFacts DEF Nobody
  <1>4. \A i \in 1..Len(events') :
          /\ events'[i][2] = (i + 1) \div 2
          /\ (events'[i][1] = 701) = (i % 2 = 1)
    <2> SUFFICES ASSUME NEW i \in 1..Len(events')
                 PROVE  /\ events'[i][2] = (i + 1) \div 2
                        /\ (events'[i][1] = 701) = (i % 2 = 1)
      OBVIOUS
    <2>1. CASE i \in 1..Len(events)
      BY <1>1, <2>1 DEF EventsSoFar, Speech, Code
    <2>2. CASE i = Len(events) + 1
      BY <1>1, <2>2
    <2> QED BY <1>1, <1>2, <2>1, <2>2
  <1>5. EventsSoFar'
    BY <1>1, <1>3, <1>4 DEF EventsSoFar, Speech, Code
  <1>6. \A i \in 1..Len(events') : events'[i][1] = 702 => taken'[events'[i][2]] = End
    <2> SUFFICES ASSUME NEW i \in 1..Len(events'), events'[i][1] = 702
                 PROVE  taken'[events'[i][2]] = End
      OBVIOUS
    <2>1. CASE i \in 1..Len(events)
      BY <1>1, <2>1 DEF EndsAreWhole, Speech, Code
    <2>2. CASE i = Len(events) + 1
      BY <1>1, <2>2
    <2> QED BY <1>1, <1>2, <2>1, <2>2
  <1> QED BY <1>5, <1>6 DEF EndsAreWhole, Speech, Code

-----------------------------------------------------------------------------
(* The worker's steps, one by one.                                           *)

LEMMA OpenAlone ==
  ASSUME Typed, Alone, NEW w \in Speeches, Open(w) PROVE Alone'
  <1>0. WorkerTypeOK /\ WorldTypeOK /\ 0 \notin Speeches
    BY SpeechFacts
  <1>1. /\ pc[w] \in Midway /\ pc'[w] \in Midway /\ UNCHANGED <<thread, stop, events>>
        /\ \A v \in Speeches \ {w} : pc'[v] = pc[v]
    BY <1>0 DEF WorkerTypeOK, Midway, mainVars, Open, Goes, Fails
  <1>2. w = thread /\ thread # Nobody
    BY <1>1, AliveIsThread DEF Alone, Midway
  <1>3. \A v \in Speeches \ {w} : taken'[v] = taken[v]
    BY <1>0, <1>2 DEF WorldTypeOK, Alone, OwnFields, worldVars, Nobody, Open,
                      Goes, Fails
  <1>4. OwnFields'
    BY <1>0, <1>1, <1>2 DEF WorkerTypeOK, Alone, OwnFields, Nobody, Open, Goes,
                            Fails
  <1>5. WholeOrNot'
    BY <1>0, <1>1, <1>2 DEF WorkerTypeOK, WorldTypeOK, Alone, OwnFields,
                            WholeOrNot,
       worldVars, Nobody, Open, Goes, Fails
  <1>6. StoppedIsQuiet'
    BY <1>0, <1>1, <1>2 DEF WorkerTypeOK, WorldTypeOK, Alone, OwnFields,
       StoppedIsQuiet, worldVars, Nobody, Open, Goes, Fails
  <1> QED BY <1>1, <1>3, <1>4, <1>5, <1>6, MidwayStep DEF Alone

LEMMA SendAlone ==
  ASSUME Typed, Alone, NEW w \in Speeches, Send(w) PROVE Alone'
  <1>0. WorkerTypeOK /\ WorldTypeOK /\ 0 \notin Speeches
    BY SpeechFacts
  <1>1. /\ pc[w] \in Midway /\ pc'[w] \in Midway /\ UNCHANGED <<thread, stop, events>>
        /\ \A v \in Speeches \ {w} : pc'[v] = pc[v]
    BY <1>0 DEF WorkerTypeOK, Midway, mainVars, Send, Goes, Fails
  <1>2. w = thread /\ thread # Nobody
    BY <1>1, AliveIsThread DEF Alone, Midway
  <1>3. \A v \in Speeches \ {w} : taken'[v] = taken[v]
    BY <1>0, <1>2 DEF WorldTypeOK, Alone, OwnFields, worldVars, Nobody, Send,
                      Goes, Fails
  <1>4. OwnFields'
    BY <1>0, <1>1, <1>2 DEF WorkerTypeOK, Alone, OwnFields, Nobody, Send, Goes,
                            Fails
  <1>5. WholeOrNot'
    BY <1>0, <1>1, <1>2 DEF WorkerTypeOK, WorldTypeOK, Alone, OwnFields,
                            WholeOrNot,
       worldVars, Nobody, Send, Goes, Fails
  <1>6. StoppedIsQuiet'
    BY <1>0, <1>1, <1>2 DEF WorkerTypeOK, WorldTypeOK, Alone, OwnFields,
       StoppedIsQuiet, worldVars, Nobody, Send, Goes, Fails
  <1> QED BY <1>1, <1>3, <1>4, <1>5, <1>6, MidwayStep DEF Alone

LEMMA LookForHeaderAlone ==
  ASSUME Typed, Alone, NEW w \in Speeches, LookForHeader(w) PROVE Alone'
  <1>0. WorkerTypeOK /\ WorldTypeOK /\ 0 \notin Speeches
    BY SpeechFacts
  <1>1. /\ pc[w] \in Midway /\ pc'[w] \in Midway /\ UNCHANGED <<thread, stop, events>>
        /\ \A v \in Speeches \ {w} : pc'[v] = pc[v]
    BY <1>0 DEF WorkerTypeOK, Midway, mainVars, LookForHeader, Goes, Fails, Look
  <1>2. w = thread /\ thread # Nobody
    BY <1>1, AliveIsThread DEF Alone, Midway
  <1>3. \A v \in Speeches \ {w} : taken'[v] = taken[v]
    BY <1>0, <1>2 DEF WorldTypeOK, Alone, OwnFields, worldVars, Nobody,
                      LookForHeader, Goes, Fails, Look
  <1>4. OwnFields'
    BY <1>0, <1>1, <1>2 DEF WorkerTypeOK, Alone, OwnFields, Nobody,
                            LookForHeader, Goes, Fails, Look
  <1>5. WholeOrNot'
    BY <1>0, <1>1, <1>2 DEF WorkerTypeOK, WorldTypeOK, Alone, OwnFields,
                            WholeOrNot,
       worldVars, Nobody, LookForHeader, Goes, Fails, Look
  <1>6. StoppedIsQuiet'
    BY <1>0, <1>1, <1>2 DEF WorkerTypeOK, WorldTypeOK, Alone, OwnFields,
       StoppedIsQuiet, worldVars, Nobody, LookForHeader, Goes, Fails, Look
  <1> QED BY <1>1, <1>3, <1>4, <1>5, <1>6, MidwayStep DEF Alone

LEMMA ReadHeaderAlone ==
  ASSUME Typed, Alone, NEW w \in Speeches, ReadHeader(w) PROVE Alone'
  <1>0. WorkerTypeOK /\ WorldTypeOK /\ 0 \notin Speeches
    BY SpeechFacts
  <1>1. /\ pc[w] \in Midway /\ pc'[w] \in Midway /\ UNCHANGED <<thread, stop, events>>
        /\ \A v \in Speeches \ {w} : pc'[v] = pc[v]
    BY <1>0 DEF WorkerTypeOK, Midway, mainVars, ReadHeader, Goes, Fails,
                Readable, Took
  <1>2. w = thread /\ thread # Nobody
    BY <1>1, AliveIsThread DEF Alone, Midway
  <1>3. \A v \in Speeches \ {w} : taken'[v] = taken[v]
    BY <1>0, <1>2 DEF WorldTypeOK, Alone, OwnFields, worldVars, Nobody,
                      ReadHeader, Goes, Fails, Readable, Took
  <1>4. OwnFields'
    BY <1>0, <1>1, <1>2 DEF WorkerTypeOK, Alone, OwnFields, Nobody, ReadHeader,
                            Goes, Fails, Readable, Took
  <1>5. WholeOrNot'
    BY <1>0, <1>1, <1>2 DEF WorkerTypeOK, WorldTypeOK, Alone, OwnFields,
                            WholeOrNot,
       worldVars, Nobody, ReadHeader, Goes, Fails, Readable, Took
  <1>6. StoppedIsQuiet'
    BY <1>0, <1>1, <1>2 DEF WorkerTypeOK, WorldTypeOK, Alone, OwnFields,
       StoppedIsQuiet, worldVars, Nobody, ReadHeader, Goes, Fails, Readable, Took
  <1> QED BY <1>1, <1>3, <1>4, <1>5, <1>6, MidwayStep DEF Alone

LEMMA LoopAlone ==
  ASSUME Typed, Alone, NEW w \in Speeches, Loop(w) PROVE Alone'
  <1>0. WorkerTypeOK /\ WorldTypeOK /\ 0 \notin Speeches
    BY SpeechFacts
  <1>1. /\ pc[w] \in Midway /\ pc'[w] \in Midway /\ UNCHANGED <<thread, stop, events>>
        /\ \A v \in Speeches \ {w} : pc'[v] = pc[v]
    BY <1>0 DEF WorkerTypeOK, Midway, mainVars, Loop, Goes, Fails, Look
  <1>2. w = thread /\ thread # Nobody
    BY <1>1, AliveIsThread DEF Alone, Midway
  <1>3. \A v \in Speeches \ {w} : taken'[v] = taken[v]
    BY <1>0, <1>2 DEF WorldTypeOK, Alone, OwnFields, worldVars, Nobody, Loop,
                      Goes, Fails, Look
  <1>4. OwnFields'
    BY <1>0, <1>1, <1>2 DEF WorkerTypeOK, Alone, OwnFields, Nobody, Loop, Goes,
                            Fails, Look
  <1>5. WholeOrNot'
    BY <1>0, <1>1, <1>2 DEF WorkerTypeOK, WorldTypeOK, Alone, OwnFields,
                            WholeOrNot,
       worldVars, Nobody, Loop, Goes, Fails, Look
  <1>6. StoppedIsQuiet'
    BY <1>0, <1>1, <1>2 DEF WorkerTypeOK, WorldTypeOK, Alone, OwnFields,
       StoppedIsQuiet, worldVars, Nobody, Loop, Goes, Fails, Look
  <1> QED BY <1>1, <1>3, <1>4, <1>5, <1>6, MidwayStep DEF Alone

LEMMA RecvAlone ==
  ASSUME Typed, Alone, NEW w \in Speeches, Recv(w) PROVE Alone'
  <1>0. WorkerTypeOK /\ WorldTypeOK /\ 0 \notin Speeches
    BY SpeechFacts
  <1>1. /\ pc[w] \in Midway /\ pc'[w] \in Midway /\ UNCHANGED <<thread, stop, events>>
        /\ \A v \in Speeches \ {w} : pc'[v] = pc[v]
    BY <1>0 DEF WorkerTypeOK, Midway, mainVars, Recv, Goes, Fails, Readable,
                Took
  <1>2. w = thread /\ thread # Nobody
    BY <1>1, AliveIsThread DEF Alone, Midway
  <1>3. \A v \in Speeches \ {w} : taken'[v] = taken[v]
    BY <1>0, <1>2 DEF WorldTypeOK, Alone, OwnFields, worldVars, Nobody, Recv,
                      Goes, Fails, Readable, Took
  <1>4. OwnFields'
    BY <1>0, <1>1, <1>2 DEF WorkerTypeOK, Alone, OwnFields, Nobody, Recv, Goes,
                            Fails, Readable, Took
  <1>5. WholeOrNot'
    BY <1>0, <1>1, <1>2 DEF WorkerTypeOK, WorldTypeOK, Alone, OwnFields,
                            WholeOrNot,
       worldVars, Nobody, Recv, Goes, Fails, Readable, Took
  <1>6. StoppedIsQuiet'
    BY <1>0, <1>1, <1>2 DEF WorkerTypeOK, WorldTypeOK, Alone, OwnFields,
       StoppedIsQuiet, worldVars, Nobody, Recv, Goes, Fails, Readable, Took
  <1> QED BY <1>1, <1>3, <1>4, <1>5, <1>6, MidwayStep DEF Alone

LEMMA DrainAlone ==
  ASSUME Typed, Alone, NEW w \in Speeches, Drain(w) PROVE Alone'
  <1>0. WorkerTypeOK /\ WorldTypeOK /\ 0 \notin Speeches
    BY SpeechFacts
  <1>1. /\ pc[w] \in Midway /\ pc'[w] \in Midway /\ UNCHANGED <<thread, stop, events>>
        /\ \A v \in Speeches \ {w} : pc'[v] = pc[v]
    BY <1>0 DEF WorkerTypeOK, Midway, mainVars, Drain, Goes, Fails
  <1>2. w = thread /\ thread # Nobody
    BY <1>1, AliveIsThread DEF Alone, Midway
  <1>3. \A v \in Speeches \ {w} : taken'[v] = taken[v]
    BY <1>0, <1>2 DEF WorldTypeOK, Alone, OwnFields, worldVars, Nobody, Drain,
                      Goes, Fails
  <1>4. OwnFields'
    BY <1>0, <1>1, <1>2 DEF WorkerTypeOK, Alone, OwnFields, Nobody, Drain, Goes,
                            Fails
  <1>5. WholeOrNot'
    BY <1>0, <1>1, <1>2 DEF WorkerTypeOK, WorldTypeOK, Alone, OwnFields,
                            WholeOrNot,
       worldVars, Nobody, Drain, Goes, Fails
  <1>6. StoppedIsQuiet'
    BY <1>0, <1>1, <1>2 DEF WorkerTypeOK, WorldTypeOK, Alone, OwnFields,
       StoppedIsQuiet, worldVars, Nobody, Drain, Goes, Fails
  <1> QED BY <1>1, <1>3, <1>4, <1>5, <1>6, MidwayStep DEF Alone

LEMMA WaitAlone ==
  ASSUME Typed, Alone, NEW w \in Speeches, Wait(w) PROVE Alone'
  <1>0. WorkerTypeOK /\ WorldTypeOK /\ 0 \notin Speeches
    BY SpeechFacts
  <1>1. /\ pc[w] \in Midway /\ pc'[w] \in Midway /\ UNCHANGED <<thread, stop, events>>
        /\ \A v \in Speeches \ {w} : pc'[v] = pc[v]
    BY <1>0 DEF WorkerTypeOK, Midway, mainVars, Wait, Goes, Fails, Terminated
  <1>2. w = thread /\ thread # Nobody
    BY <1>1, AliveIsThread DEF Alone, Midway
  <1>3. \A v \in Speeches \ {w} : taken'[v] = taken[v]
    BY <1>0, <1>2 DEF WorldTypeOK, Alone, OwnFields, worldVars, Nobody, Wait,
                      Goes, Fails, Terminated
  <1>4. OwnFields'
    BY <1>0, <1>1, <1>2 DEF WorkerTypeOK, Alone, OwnFields, Nobody, Wait, Goes,
                            Fails, Terminated
  <1>5. WholeOrNot'
    BY <1>0, <1>1, <1>2 DEF WorkerTypeOK, WorldTypeOK, Alone, OwnFields,
                            WholeOrNot,
       worldVars, Nobody, Wait, Goes, Fails, Terminated
  <1>6. StoppedIsQuiet'
    BY <1>0, <1>1, <1>2 DEF WorkerTypeOK, WorldTypeOK, Alone, OwnFields,
       StoppedIsQuiet, worldVars, Nobody, Wait, Goes, Fails, Terminated
  <1> QED BY <1>1, <1>3, <1>4, <1>5, <1>6, MidwayStep DEF Alone

LEMMA FinalAlone ==
  ASSUME Typed, Alone, NEW w \in Speeches, Final(w) PROVE Alone'
  <1>0. WorkerTypeOK /\ WorldTypeOK /\ 0 \notin Speeches
    BY SpeechFacts
  <1>1. /\ pc[w] \in Midway /\ pc'[w] \in Midway /\ UNCHANGED <<thread, stop, events>>
        /\ \A v \in Speeches \ {w} : pc'[v] = pc[v]
    BY <1>0 DEF WorkerTypeOK, Midway, mainVars, Final, Goes, Fails
  <1>2. w = thread /\ thread # Nobody
    BY <1>1, AliveIsThread DEF Alone, Midway
  <1>3. \A v \in Speeches \ {w} : taken'[v] = taken[v]
    BY <1>0, <1>2 DEF WorldTypeOK, Alone, OwnFields, worldVars, Nobody, Final,
                      Goes, Fails
  <1>4. OwnFields'
    BY <1>0, <1>1, <1>2 DEF WorkerTypeOK, Alone, OwnFields, Nobody, Final, Goes,
                            Fails
  <1>5. WholeOrNot'
    BY <1>0, <1>1, <1>2 DEF WorkerTypeOK, WorldTypeOK, Alone, OwnFields,
                            WholeOrNot, worldVars, Nobody, Final, Goes, Fails
  <1>6. StoppedIsQuiet'
    BY <1>0, <1>1, <1>2 DEF WorkerTypeOK, WorldTypeOK, Alone, OwnFields,
       StoppedIsQuiet, worldVars, Nobody, Final, Goes, Fails
  <1> QED BY <1>1, <1>3, <1>4, <1>5, <1>6, MidwayStep DEF Alone

LEMMA BeginAlone ==
  ASSUME Typed, Alone, NEW w \in Speeches, Begin(w) PROVE Alone'
  <1>0. /\ WorkerTypeOK /\ WorldTypeOK /\ 0 \notin Speeches /\ thread \in Nat
        /\ OthersDone /\ EventsSoFar /\ OwnFields /\ EndsAreWhole /\ StoppedIsQuiet
    BY SpeechFacts DEF Alone
  <1>1. /\ pc[w] = "begin" /\ pc' = [pc EXCEPT ![w] = "open"]
        /\ events' = Append(events, <<701, w>>)
        /\ UNCHANGED <<thread, stop, conn, player, uses, feeds, failed, taken, playing>>
    BY DEF Begin, Goes, Says, mainVars, worldVars
  <1>2. w = thread /\ thread # Nobody /\ thread \in Nat \ {0}
    BY <1>0, <1>1, AliveIsThread DEF Nobody
  <1>3. EventsSoFar' /\ EndsAreWhole'
    <2>1. /\ ~IsDone /\ ~HasBegun /\ ~IsDone' /\ HasBegun'
      BY <1>0, <1>1, <1>2 DEF IsDone, HasBegun, WorkerTypeOK
    <2>2. Len(events) = 2 * thread - 2
      BY <1>0, <1>2, <2>1 DEF EventsSoFar
    <2>3. Len(events) + 1 = 2 * thread - 1
      BY <1>2, <2>2
    <2>4. (Len(events) + 1) % 2 = 1 /\ w = (Len(events) + 1 + 1) \div 2
      BY <1>2, <2>3, Halves
    <2>5. Len(events) + 1 =
            2 * thread - (IF IsDone' THEN 0 ELSE IF HasBegun' THEN 1 ELSE 2)
      BY <2>1, <2>3
    <2>6. PICK code \in {701, 702, 703} : code = 701
      OBVIOUS
    <2>7. /\ events' = Append(events, <<code, w>>) /\ UNCHANGED <<thread, taken>>
          /\ w = thread
      BY <1>1, <1>2, <2>6
    <2>8. (code = 701) = ((Len(events) + 1) % 2 = 1) /\ code # 702
      BY <2>4, <2>6
    <2>9. w = (Len(events) + 1 + 1) \div 2
      BY <2>4
    <2> QED BY <1>0, <2>5, <2>7, <2>8, <2>9, OneMoreEvent
  <1>4. OthersDone' /\ OwnFields' /\ WholeOrNot' /\ StoppedIsQuiet'
    BY <1>0, <1>1, <1>2 DEF WorkerTypeOK, OthersDone, OwnFields, WholeOrNot,
                            StoppedIsQuiet
  <1> QED BY <1>3, <1>4 DEF Alone

LEMMA EmitAlone ==
  ASSUME Typed, Alone, NEW w \in Speeches, Emit(w) PROVE Alone'
  <1>0. /\ WorkerTypeOK /\ WorldTypeOK /\ 0 \notin Speeches /\ thread \in Nat
        /\ OthersDone /\ EventsSoFar /\ OwnFields /\ EndsAreWhole /\ WholeOrNot
    BY SpeechFacts DEF Alone
  <1>1. /\ pc[w] = "emit" /\ pc' = [pc EXCEPT ![w] = "done"]
        /\ UNCHANGED <<thread, stop, conn, player, uses, feeds, failed, taken, playing>>
    BY DEF Emit, Goes, mainVars, worldVars
  <1>2. w = thread /\ thread # Nobody /\ thread \in Nat \ {0}
    BY <1>0, <1>1, AliveIsThread DEF Nobody
  <1>3. PICK code \in {702, 703} :
          /\ events' = Append(events, <<code, w>>)
          /\ code = 702 => ~stop /\ ~failed[w]
    BY DEF Emit, Says
  <1>4. code = 702 => taken[w] = End
    BY <1>0, <1>1, <1>2, <1>3 DEF WholeOrNot
  <1>5. EventsSoFar' /\ EndsAreWhole'
    <2>1. /\ ~IsDone /\ HasBegun /\ IsDone'
      BY <1>0, <1>1, <1>2 DEF IsDone, HasBegun, WorkerTypeOK
    <2>2. Len(events) = 2 * thread - 1
      BY <1>0, <1>2, <2>1 DEF EventsSoFar
    <2>3. Len(events) + 1 = 2 * thread /\ Len(events) + 1 + 1 = 2 * thread + 1
      BY <1>2, <2>2
    <2>4. (Len(events) + 1) % 2 = 0 /\ w = (Len(events) + 1 + 1) \div 2
      BY <1>2, <2>3, Halves
    <2>5. Len(events) + 1 =
            2 * thread - (IF IsDone' THEN 0 ELSE IF HasBegun' THEN 1 ELSE 2)
      BY <1>2, <2>1, <2>3
    <2>6. (code = 701) = ((Len(events) + 1) % 2 = 1)
      BY <2>4
    <2> QED BY <1>0, <1>1, <1>2, <1>3, <1>4, <2>4, <2>5, <2>6, OneMoreEvent
  <1>6. OthersDone' /\ OwnFields' /\ WholeOrNot' /\ StoppedIsQuiet'
    BY <1>0, <1>1, <1>2 DEF WorkerTypeOK, OthersDone, OwnFields, WholeOrNot,
                            StoppedIsQuiet
  <1> QED BY <1>5, <1>6 DEF Alone

LEMMA PlayerExitsAlone ==
  ASSUME Typed, Alone, NEW p \in Speeches, PlayerExits(p) PROVE Alone'
  <1>0. WorldTypeOK /\ OthersDone /\ EventsSoFar /\ OwnFields /\ EndsAreWhole
        /\ WholeOrNot /\ StoppedIsQuiet
    BY SpeechFacts DEF Alone
  <1>1. /\ UNCHANGED <<thread, stop, conn, player, pc, uses, feeds, failed, taken, events>>
        /\ playing' = [playing EXCEPT ![p] = "ended"]
    BY DEF PlayerExits, mainVars, workerVars
  <1>2. OthersDone' /\ EventsSoFar' /\ OwnFields' /\ EndsAreWhole' /\ WholeOrNot'
    <2>1. OthersDone' /\ EventsSoFar'
      BY <1>0, <1>1 DEF OthersDone, EventsSoFar, IsDone, HasBegun, Speech, Code
    <2>2. OwnFields'
      BY <1>0, <1>1 DEF OwnFields
    <2>3. EndsAreWhole' /\ WholeOrNot'
      BY <1>0, <1>1 DEF EndsAreWhole, WholeOrNot, Speech, Code
    <2> QED BY <2>1, <2>2, <2>3
  <1>3. StoppedIsQuiet'
    BY <1>0, <1>1 DEF StoppedIsQuiet, WorldTypeOK
  <1> QED BY <1>2, <1>3 DEF Alone

-----------------------------------------------------------------------------
(* The main thread's steps.                                                  *)

LEMMA StillAlone ==
  ASSUME Alone,
         UNCHANGED <<thread, stop, conn, player, pc, uses, feeds, failed, taken,
                     playing, events>>
  PROVE  Alone'
  BY DEF Alone, OthersDone, EventsSoFar, OwnFields, EndsAreWhole, WholeOrNot,
         StoppedIsQuiet, IsDone, HasBegun, Speech, Code

(* A thread is started where the last one is done.                           *)
LEMMA StartThreadAlone ==
  ASSUME Typed, Alone, ~Busy, NEW u \in Speeches, u = thread + 1, StartThread(u),
         UNCHANGED <<conn, player, uses, feeds, failed, worldVars, events>>
  PROVE  Alone'
  <1>0. /\ WorkerTypeOK /\ WorldTypeOK /\ MainTypeOK /\ 0 \notin Speeches
        /\ Speeches \subseteq Nat /\ thread \in Nat /\ MainShape
        /\ OthersDone /\ EventsSoFar /\ OwnFields /\ EndsAreWhole /\ StoppedIsQuiet
    BY SpeechFacts DEF Alone
  <1>1. /\ stop' = FALSE /\ thread' = u /\ pc' = [pc EXCEPT ![u] = "begin"]
        /\ UNCHANGED <<conn, player, uses, feeds, failed, taken, playing, events>>
    BY DEF StartThread, worldVars
  <1>2. thread # Nobody => thread \in Speeches /\ pc[thread] = "done"
    BY <1>0 DEF MainTypeOK, MainShape, Busy, Alive
  <1>3. u # Nobody /\ pc'[u] = "begin" /\ \A v \in Speeches \ {u} : pc'[v] = pc[v]
    BY <1>0, <1>1 DEF WorkerTypeOK, Nobody
  <1>4. conn = Nobody /\ player = Nobody
    BY <1>0, <1>2 DEF OwnFields
  <1>5. OthersDone'
    <2> SUFFICES ASSUME NEW v \in Speeches, v < u PROVE pc'[v] = "done"
      BY <1>1 DEF OthersDone
    <2>1. v # u /\ (v < thread \/ v = thread)
      BY <1>0
    <2> QED BY <1>0, <1>2, <1>3, <2>1 DEF OthersDone, Nobody
  <1>6. EventsSoFar'
    <2>1. ~IsDone' /\ ~HasBegun'
      BY <1>1, <1>3 DEF IsDone, HasBegun
    <2>2. Len(events) = 2 * thread
      BY <1>0, <1>2 DEF EventsSoFar, IsDone, Nobody
    <2>3. Len(events) = 2 * u - 2
      BY <1>0, <2>2
    <2>4. \A i \in 1..Len(events') :
            /\ Speech(i)' = (i + 1) \div 2
            /\ (Code(i)' = 701) = (i % 2 = 1)
      <3>1. events' = events
        BY <1>1
      <3>2. \A i \in 1..Len(events) :
              /\ Speech(i) = (i + 1) \div 2
              /\ (Code(i) = 701) = (i % 2 = 1)
        BY <1>0 DEF EventsSoFar
      <3> QED BY <3>1, <3>2 DEF Speech, Code
    <2>5. thread' = u /\ Len(events') = 2 * u - 2
      BY <1>1, <2>3
    <2> QED BY <1>3, <2>1, <2>4, <2>5 DEF EventsSoFar
  <1>7. OwnFields'
    BY <1>0, <1>1, <1>3, <1>4 DEF OwnFields
  <1>8. EndsAreWhole' /\ WholeOrNot' /\ StoppedIsQuiet'
    BY <1>0, <1>1, <1>3 DEF EndsAreWhole, WholeOrNot, StoppedIsQuiet, Speech, Code
  <1> QED BY <1>5, <1>6, <1>7, <1>8 DEF Alone

LEMMA SpeakAlone == ASSUME Typed, Alone, Speak PROVE Alone'
  <1>0. /\ speeches' = speeches + 1 /\ speeches + 1 \in Speeches
        /\ thread = speeches
    BY SpeechFacts DEF Speak, Speeches, MainShape
  <1>1. CASE Busy
    BY <1>1, StillAlone DEF Speak, worldVars
  <1>2. CASE ~Busy
    BY <1>0, <1>2, StartThreadAlone DEF Speak
  <1> QED BY <1>1, <1>2

LEMMA StopLockedAlone == ASSUME Typed, Alone, StopLocked PROVE Alone'
  <1>0. /\ WorldTypeOK /\ OthersDone /\ EventsSoFar /\ OwnFields /\ EndsAreWhole
        /\ 0 \notin Speeches
    BY SpeechFacts DEF Alone
  <1>1. /\ UNCHANGED <<thread, conn, player, pc, uses, feeds, failed, taken, events>>
        /\ stop' = TRUE /\ playing' = Terminated(player)
    BY DEF StopLocked, workerVars
  <1>2. OthersDone' /\ EventsSoFar' /\ OwnFields' /\ EndsAreWhole' /\ WholeOrNot'
    <2>1. OthersDone' /\ EventsSoFar'
      BY <1>0, <1>1 DEF OthersDone, EventsSoFar, IsDone, HasBegun, Speech, Code
    <2>2. OwnFields'
      BY <1>0, <1>1 DEF OwnFields
    <2>3. EndsAreWhole' /\ WholeOrNot'
      BY <1>0, <1>1 DEF EndsAreWhole, WholeOrNot, Speech, Code
    <2> QED BY <2>1, <2>2, <2>3
  <1>3. StoppedIsQuiet'
    <2> SUFFICES ASSUME thread # Nobody, pc[thread] = "recv"
                 PROVE  playing'[thread] # "running"
      BY <1>1 DEF StoppedIsQuiet
    <2>1. player = thread
      BY <1>0 DEF OwnFields
    <2> QED BY <1>0, <1>1, <2>1 DEF Terminated, WorldTypeOK
  <1> QED BY <1>2, <1>3 DEF Alone

LEMMA JoinAlone ==
  ASSUME Typed, Alone, NEW timedOut \in BOOLEAN, Join(timedOut), ~overlapped'
  PROVE  Alone'
  <1>1. CASE next = Nobody
    BY <1>1, StillAlone DEF Join, worldVars
  <1>2. CASE next # Nobody
    <2>1. next \in Speeches /\ next = thread + 1
      BY <1>2, SpeechFacts DEF MainShape, MainTypeOK
    <2>2. ~Busy
      BY <1>2 DEF Join
    <2> QED BY <1>2, <2>1, <2>2, StartThreadAlone DEF Join
  <1> QED BY <1>1, <1>2

-----------------------------------------------------------------------------
LEMMA WorkerNext ==
  ASSUME WInv, [Next]_vars PROVE WInv'
  <1>0. Typed /\ (~overlapped => Alone)
    BY DEF WInv
  <1>1. Typed'
    <2>1. CASE UNCHANGED vars
      BY <1>0, <2>1 DEF vars, workerVars, worldVars, Typed, TypeOK, MainShape, LookedUp
    <2> QED BY <1>0, <2>1, SpeakTyped, StopTyped, StopLockedTyped, JoinTyped,
               BeginTyped, OpenTyped, SendTyped, LookForHeaderTyped,
               ReadHeaderTyped, LoopTyped, RecvTyped, DrainTyped, WaitTyped,
               FinalTyped, EmitTyped, PlayerExitsTyped DEF Next
  <1>2. ASSUME ~overlapped' PROVE Alone'
    <2>1. CASE UNCHANGED vars
      BY <1>0, <1>2, <2>1, StillAlone DEF vars, workerVars, worldVars
    <2>2. CASE \E timedOut \in BOOLEAN : Join(timedOut)
      <3>1. ~overlapped
        BY <1>2, <2>2 DEF Join
      <3> QED BY <1>0, <1>2, <2>2, <3>1, JoinAlone
    <2>3. CASE Speak \/ Stop \/ StopLocked
      <3>1. ~overlapped
        BY <1>2, <2>3 DEF Speak, Stop, StopLocked
      <3>2. Stop => Alone'
        BY <1>0, <3>1, StillAlone DEF Stop, workerVars, worldVars
      <3> QED BY <1>0, <2>3, <3>1, <3>2, SpeakAlone, StopLockedAlone
    <2>4. ASSUME NEW w \in Speeches, Run(w) \/ PlayerExits(w) PROVE Alone'
      <3>1. ~overlapped
        BY <1>2, <2>4 DEF Run, Begin, Open, Send, LookForHeader, ReadHeader, Loop,
           Recv, Drain, Wait, Final, Emit, PlayerExits, mainVars
      <3> QED BY <1>0, <2>4, <3>1, BeginAlone, OpenAlone, SendAlone,
                 LookForHeaderAlone, ReadHeaderAlone, LoopAlone, RecvAlone,
                 DrainAlone, WaitAlone, FinalAlone, EmitAlone, PlayerExitsAlone
                 DEF Run
    <2>5. [Next]_vars =>
            \/ UNCHANGED vars \/ (\E timedOut \in BOOLEAN : Join(timedOut))
            \/ Speak \/ Stop \/ StopLocked
            \/ \E w \in Speeches : Run(w) \/ PlayerExits(w)
      BY DEF Next, Run
    <2> QED BY <2>1, <2>2, <2>3, <2>4, <2>5
  <1> QED BY <1>1, <1>2 DEF WInv

(* The inductive invariant of the module's threads.                          *)
THEOREM WorkerInvariant == Spec => []WInv
  <1>1. ASSUME Init PROVE Alone
    BY <1>1 DEF Init, Alone, OthersDone, EventsSoFar, OwnFields, EndsAreWhole,
                WholeOrNot, StoppedIsQuiet, Nobody
  <1>2. Init /\ Typed => WInv
    BY <1>1 DEF WInv
  <1> QED BY <1>2, WorkerNext, SpeechTypes, PTL DEF Spec

(* speech-dispatcher is told of one speech after the other: 701, then one of *)
(* 702 and 703.                                                              *)
THEOREM SpeechesInTurn == Spec => []EventsInTurn
  <1>1. WInv => EventsInTurn
    BY DEF WInv, Alone, EventsSoFar, EventsInTurn
  <1> QED BY <1>1, WorkerInvariant, PTL

(* 702 is said of a reply that was read to its end.                          *)
THEOREM EndIsWhole == Spec => []EndMeansWhole
  <1>1. WInv => EndMeansWhole
    BY DEF WInv, Alone, EndsAreWhole, EndMeansWhole
  <1> QED BY <1>1, WorkerInvariant, PTL

(* A speech that has been stopped plays no more.                             *)
THEOREM StopSilences == Spec => SilentAfterStop
  <1>1. ASSUME WInv, [Next]_vars
        PROVE  [(stop /\ ~overlapped) => played' = played]_vars
    <2> SUFFICES ASSUME stop, ~overlapped, Next PROVE played' = played
      BY <1>1 DEF vars, worldVars
    <2>0. Typed /\ Alone /\ WorkerTypeOK
      BY <1>1, SpeechFacts DEF WInv
    <2>1. CASE Speak \/ Stop \/ StopLocked \/ \E timedOut \in BOOLEAN : Join(timedOut)
      BY <2>1 DEF Speak, Stop, StopLocked, Join, worldVars
    <2>2. ASSUME NEW w \in Speeches, Recv(w) PROVE played' = played
      <3>1. w = thread /\ thread # Nobody /\ pc[w] = "recv"
        BY <2>0, <2>2, AliveIsThread DEF Recv, Alone
      <3>2. feeds[w] = w /\ playing[w] # "running"
        BY <2>0, <3>1 DEF Alone, OwnFields, StoppedIsQuiet
      <3> QED BY <2>2, <3>2 DEF Recv
    <2>3. ASSUME NEW w \in Speeches, Run(w) \/ PlayerExits(w), ~Recv(w)
          PROVE  played' = played
      BY <2>3 DEF Run, Begin, Open, Send, LookForHeader, ReadHeader, Loop, Drain,
                  Wait, Final, Emit, PlayerExits, worldVars
    <2> QED BY <2>1, <2>2, <2>3 DEF Next, Run
  <1> QED BY <1>1, WorkerInvariant, PTL DEF Spec, SilentAfterStop

(* A stopped speech is not reported as ended.                                *)
THEOREM StopIsReported == Spec => StoppedIsReported
  <1>1. ASSUME WInv, [Next]_vars
        PROVE  [(stop /\ ~overlapped /\ events' # events) =>
                  Code(Len(events))' # 702]_vars
    <2> SUFFICES ASSUME stop, events' # events, Next
                 PROVE  events'[Len(events')][1] # 702
      BY <1>1 DEF vars, Code
    <2>0. Typed /\ events \in Seq({701, 702, 703} \X Speeches)
      BY <1>1, EventFacts DEF WInv
    <2>1. ~(Speak \/ Stop \/ StopLocked \/ \E timedOut \in BOOLEAN : Join(timedOut))
      BY DEF Speak, Stop, StopLocked, Join
    <2>2. PICK w \in Speeches : Run(w) \/ PlayerExits(w)
      BY <2>1 DEF Next, Run
    <2>3. Begin(w) \/ Emit(w)
      BY <2>2 DEF Run, Open, Send, LookForHeader, ReadHeader, Loop, Recv, Drain,
                  Wait, Final, PlayerExits, worldVars
    <2>4. PICK code \in {701, 703} : events' = Append(events, <<code, w>>)
      <3>1. Begin(w) => events' = Append(events, <<701, w>>)
        BY DEF Begin, Says
      <3>2. Emit(w) => events' = Append(events, <<703, w>>)
        BY DEF Emit, Says
      <3> QED BY <2>3, <3>1, <3>2
    <2>5. <<code, w>> \in {701, 702, 703} \X Speeches
      OBVIOUS
    <2>6. events'[Len(events')] = <<code, w>>
      BY <2>0, <2>4, <2>5
    <2> QED BY <2>6
  <1> QED BY <1>1, WorkerInvariant, PTL DEF Spec, StoppedIsReported
================================================================================
