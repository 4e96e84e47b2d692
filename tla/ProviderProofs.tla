---------------------------- MODULE ProviderProofs ----------------------------
(***************************************************************************)
(* That a provider of any kind keeps AudioStream's promise, whatever the   *)
(* numbers of frames, pieces, requests and processes: the listener is      *)
(* given the model's frames in their order, without a gap, and the stream  *)
(* counts as whole only when all of them were given.  Then that no request *)
(* speaks with a prompt older than the clip its process found, whatever    *)
(* the user does to the clip and whichever save fails, and that Provider's *)
(* variables keep their types.  Last, that the chunkers cut a text of any  *)
(* length as they promise: by induction over its characters, sentences and *)
(* pieces, one loop of the code at a time.                                 *)
(***************************************************************************)
EXTENDS Provider, Chunker, SubsequenceProofs

(* The numbers after a up to b, in their order.                              *)
Runs(s, a, b) ==
  /\ a \in Nat /\ b \in Nat /\ b = a + Len(s)
  /\ \A i \in 1..Len(s) : s[i] = a + i

(* The batches of the queue q, one after the other, hold the numbers after a *)
(* up to b, none above top: m[i] is where the i-th batch begins.             *)
Chain(q, a, b, top) ==
  \E m \in [1..(Len(q) + 1) -> 0..top] :
    /\ m[1] = a /\ m[Len(q) + 1] = b
    /\ \A i \in 1..Len(q) : Runs(q[i].frames, m[i], m[i + 1])

(* A piece is being spoken, or was to its end.                               *)
Speaking == stream \in {"get", "yield"} \/ (stream = "finally" /\ last = "done")

Raised == queue # <<>> /\ queue[Len(queue)].type = "exception"

(* Where the frames of the request are: given, about to be yielded, held     *)
(* back, in the queue, or generated and not decoded; none is lost or twice   *)
(* there while the piece is spoken.                                          *)
InOrder(a, b, c, d) ==
  /\ Runs(given, 0, a) /\ Runs(out, a, b) /\ Runs(held, b, c)
  /\ Chain(queue, c, d, made)
  /\ thread = "working" => Runs(pending, d, made)
  /\ thread # "working" /\ ~Raised => d = made

FramesInOrder ==
  Speaking => \E a, b, c, d \in 0..made : InOrder(a, b, c, d)

(* Between two pieces, and at the end, all frames have been given.           *)
AllGiven == stream \in {"piece", "whole"} => Runs(given, 0, made)

(* The sentinel or the exception is the queue's last item, and is there once *)
(* the thread has nothing more to put.                                       *)
QueueEnds ==
  Speaking =>
    /\ \A i \in 1..Len(queue) :
         /\ queue[i].type # "audio" => i = Len(queue) /\ thread # "working"
         /\ queue[i].type = "audio" => queue[i].frames # <<>>
    /\ thread = "working" => last = "none" /\ ~cancel
    /\ thread # "working" /\ last = "none" =>
         queue # <<>> /\ queue[Len(queue)].type # "audio"
    /\ last = "done" => queue = <<>> /\ held = <<>>
    /\ thread = "working" /\ kind \notin Bridged => queue = <<>>

(* What the generator's place tells of the rest.                             *)
StreamShape ==
  /\ stream = "yield" <=> out # <<>>
  /\ stream \in {"get", "yield", "finally"} => pieces > 0
  /\ stream \in {"get", "yield"} /\ passing => held = <<>>
  /\ stream = "get" => last = "none"
  /\ stream = "yield" => last \in {"none", "done"}
  /\ stream = "finally" => last # "none"
  /\ stream \in {"idle", "piece", "whole", "broken"} => thread = "none"
  /\ kind # "moss" => pending = <<>>

(* A request begins when no stream is there any more: one that a broken link *)
(* left behind is finalized in a process that asks for nothing new.          *)
ServingShape ==
  /\ life = "down" => phase = "ready" /\ stream = "idle"
  /\ phase # "ready" => life = "up"
  /\ phase \in {"load", "prompt"} \/ (phase = "ready" /\ link = "open") =>
       stream \in {"idle", "whole", "broken"}

-----------------------------------------------------------------------------
(* Sequences of consecutive numbers.                                         *)

LEMMA SubSeqFacts ==
  ASSUME NEW S, NEW s \in Seq(S), NEW n \in 0..Len(s)
  PROVE  /\ SubSeq(s, 1, n) \in Seq(S) /\ Len(SubSeq(s, 1, n)) = n
         /\ \A i \in 1..n : SubSeq(s, 1, n)[i] = s[i]
         /\ SubSeq(s, n + 1, Len(s)) \in Seq(S)
         /\ Len(SubSeq(s, n + 1, Len(s))) = Len(s) - n
         /\ \A i \in 1..(Len(s) - n) : SubSeq(s, n + 1, Len(s))[i] = s[n + i]
  OBVIOUS

LEMMA TailFacts ==
  ASSUME NEW S, NEW s \in Seq(S), s # <<>>
  PROVE  /\ Head(s) = s[1] /\ Head(s) \in S /\ Len(s) \in Nat \ {0}
         /\ Tail(s) \in Seq(S) /\ Len(Tail(s)) = Len(s) - 1
         /\ \A i \in 1..(Len(s) - 1) : Tail(s)[i] = s[i + 1]
  OBVIOUS

LEMMA ConcatFacts ==
  ASSUME NEW S, NEW s \in Seq(S), NEW t \in Seq(S)
  PROVE  /\ s \o t \in Seq(S) /\ Len(s \o t) = Len(s) + Len(t)
         /\ \A i \in 1..Len(s) : (s \o t)[i] = s[i]
         /\ \A i \in 1..Len(t) : (s \o t)[Len(s) + i] = t[i]
  OBVIOUS

LEMMA EmptyFacts ==
  ASSUME NEW S, NEW s \in Seq(S)
  PROVE  /\ Len(s) \in Nat /\ (Len(s) = 0 <=> s = <<>>)
         /\ <<>> \in Seq(S) /\ Len(<<>>) = 0
  OBVIOUS

LEMMA OneFacts ==
  ASSUME NEW S, NEW x \in S
  PROVE  /\ <<x>> \in Seq(S) /\ Len(<<x>>) = 1 /\ <<x>>[1] = x /\ <<x>> # <<>>
         /\ Append(<<>>, x) = <<x>>
  OBVIOUS

(* No numbers, one more number, two runs end to end, and one cut in two.     *)
LEMMA RunsNone == ASSUME NEW a \in Nat PROVE Runs(<<>>, a, a)
  BY DEF Runs

LEMMA RunsEmpty == ASSUME NEW a, NEW b, Runs(<<>>, a, b) PROVE a = b
  BY DEF Runs

LEMMA RunsMore ==
  ASSUME NEW S, NEW s \in Seq(S), NEW a, NEW b, Runs(s, a, b), b + 1 \in S
  PROVE  Runs(Append(s, b + 1), a, b + 1)
  <1>1. /\ Len(Append(s, b + 1)) = Len(s) + 1
        /\ Append(s, b + 1)[Len(s) + 1] = b + 1
        /\ \A i \in 1..Len(s) : Append(s, b + 1)[i] = s[i]
        /\ Len(s) \in Nat
    BY AppendFacts, EmptyFacts
  <1>2. a \in Nat /\ b = a + Len(s) /\ \A i \in 1..Len(s) : s[i] = a + i
    BY DEF Runs
  <1>3. \A i \in 1..(Len(s) + 1) : Append(s, b + 1)[i] = a + i
    <2> TAKE i \in 1..(Len(s) + 1)
    <2>1. i \in 1..Len(s) \/ i = Len(s) + 1
      BY <1>1
    <2>2. a + (Len(s) + 1) = b + 1
      BY <1>1, <1>2
    <2> QED BY <1>1, <1>2, <2>1, <2>2
  <1>4. b + 1 \in Nat /\ b + 1 = a + (Len(s) + 1)
    BY <1>1, <1>2
  <1> QED BY <1>1, <1>2, <1>3, <1>4 DEF Runs

LEMMA RunsJoin ==
  ASSUME NEW S, NEW s \in Seq(S), NEW t \in Seq(S), NEW a, NEW b, NEW c,
         Runs(s, a, b), Runs(t, b, c)
  PROVE  Runs(s \o t, a, c)
  <1>1. /\ Len(s \o t) = Len(s) + Len(t)
        /\ \A i \in 1..Len(s) : (s \o t)[i] = s[i]
        /\ \A i \in 1..Len(t) : (s \o t)[Len(s) + i] = t[i]
        /\ Len(s) \in Nat /\ Len(t) \in Nat
    BY ConcatFacts, EmptyFacts
  <1>2. \A i \in 1..(Len(s) + Len(t)) : (s \o t)[i] = a + i
    <2> TAKE i \in 1..(Len(s) + Len(t))
    <2>1. CASE i \in 1..Len(s)
      BY <1>1, <2>1 DEF Runs
    <2>2. CASE i \notin 1..Len(s)
      <3>1. /\ i - Len(s) \in 1..Len(t) /\ i = Len(s) + (i - Len(s))
            /\ t[i - Len(s)] = b + (i - Len(s)) /\ b = a + Len(s) /\ a \in Nat
        BY <1>1, <2>2 DEF Runs
      <3> QED BY <1>1, <3>1
    <2> QED BY <2>1, <2>2
  <1> QED BY <1>1, <1>2 DEF Runs

LEMMA RunsCut ==
  ASSUME NEW S, NEW s \in Seq(S), NEW n \in 0..Len(s), NEW a, NEW b, Runs(s, a, b)
  PROVE  /\ Runs(SubSeq(s, 1, n), a, a + n)
         /\ Runs(SubSeq(s, n + 1, Len(s)), a + n, b)
  <1>1. /\ Len(SubSeq(s, 1, n)) = n
        /\ \A i \in 1..n : SubSeq(s, 1, n)[i] = s[i]
        /\ Len(SubSeq(s, n + 1, Len(s))) = Len(s) - n
        /\ \A i \in 1..(Len(s) - n) : SubSeq(s, n + 1, Len(s))[i] = s[n + i]
        /\ Len(s) \in Nat
    BY SubSeqFacts, EmptyFacts
  <1>2. /\ a \in Nat /\ b \in Nat /\ b = a + Len(s) /\ n \in Nat /\ n <= Len(s)
        /\ \A i \in 1..Len(s) : s[i] = a + i
    BY <1>1 DEF Runs
  <1>3. Runs(SubSeq(s, 1, n), a, a + n)
    <2>1. a + n \in Nat /\ \A i \in 1..n : i \in 1..Len(s)
      BY <1>1, <1>2
    <2> QED BY <1>1, <1>2, <2>1 DEF Runs
  <1>4. Runs(SubSeq(s, n + 1, Len(s)), a + n, b)
    <2>1. a + n \in Nat /\ b = (a + n) + (Len(s) - n)
      BY <1>1, <1>2
    <2>2. \A i \in 1..(Len(s) - n) : n + i \in 1..Len(s) /\ a + (n + i) = (a + n) + i
      BY <1>1, <1>2
    <2>3. \A i \in 1..(Len(s) - n) : SubSeq(s, n + 1, Len(s))[i] = (a + n) + i
      BY <1>1, <1>2, <2>2
    <2> QED BY <1>1, <1>2, <2>1, <2>3 DEF Runs
  <1> QED BY <1>3, <1>4

(* A run from the beginning is what AudioStream gives.                       *)
LEMMA RunsWhole ==
  ASSUME NEW S, NEW s \in Seq(S), NEW n, Runs(s, 0, n)
  PROVE  s = [i \in 1..n |-> i] /\ Len(s) = n
  <1>1. Len(s) = n /\ \A i \in 1..n : s[i] = i
    BY EmptyFacts DEF Runs
  <1>2. s = [i \in 1..Len(s) |-> s[i]]
    OBVIOUS
  <1> QED BY <1>1, <1>2

-----------------------------------------------------------------------------
(* The queue's batches.                                                      *)

LEMMA ChainNone ==
  ASSUME NEW top \in Nat, NEW a \in 0..top
  PROVE  Chain(<<>>, a, a, top)
  <1> DEFINE m == [i \in 1..1 |-> a]
  <1>1. m \in [1..1 -> 0..top] /\ m[1] = a
    OBVIOUS
  <1>2. Len(<<>>) = 0 /\ 0 + 1 = 1
    OBVIOUS
  <1> HIDE DEF m
  <1> QED BY <1>1, <1>2 DEF Chain

LEMMA ChainEmpty ==
  ASSUME NEW a, NEW b, NEW top, Chain(<<>>, a, b, top)
  PROVE  a = b
  BY DEF Chain

LEMMA ChainRange ==
  ASSUME NEW S, NEW q \in Seq(S), NEW a, NEW b, NEW top \in Nat, Chain(q, a, b, top)
  PROVE  a \in 0..top /\ b \in 0..top
  BY EmptyFacts DEF Chain

(* More frames have been made than the chain goes to.                        *)
LEMMA ChainTop ==
  ASSUME NEW S, NEW q \in Seq(S), NEW a, NEW b, NEW top \in Nat, Chain(q, a, b, top)
  PROVE  Chain(q, a, b, top + 1)
  <1>1. PICK m \in [1..(Len(q) + 1) -> 0..top] :
          /\ m[1] = a /\ m[Len(q) + 1] = b
          /\ \A i \in 1..Len(q) : Runs(q[i].frames, m[i], m[i + 1])
    BY DEF Chain
  <1>2. m \in [1..(Len(q) + 1) -> 0..(top + 1)]
    OBVIOUS
  <1> QED BY <1>1, <1>2 DEF Chain

(* A batch is put.                                                           *)
LEMMA ChainPut ==
  ASSUME NEW S, NEW q \in Seq(S), NEW x \in S, NEW a, NEW b, NEW c,
         NEW top \in Nat, Chain(q, a, b, top), Runs(x.frames, b, c), c \in 0..top
  PROVE  Chain(Append(q, x), a, c, top)
  <1>1. PICK m \in [1..(Len(q) + 1) -> 0..top] :
          /\ m[1] = a /\ m[Len(q) + 1] = b
          /\ \A i \in 1..Len(q) : Runs(q[i].frames, m[i], m[i + 1])
    BY DEF Chain
  <1>2. /\ Len(Append(q, x)) = Len(q) + 1 /\ Append(q, x)[Len(q) + 1] = x
        /\ \A i \in 1..Len(q) : Append(q, x)[i] = q[i]
        /\ Len(q) \in Nat
    BY AppendFacts, EmptyFacts
  <1> DEFINE w == [i \in 1..(Len(q) + 2) |-> IF i = Len(q) + 2 THEN c ELSE m[i]]
  <1>3. w \in [1..(Len(q) + 2) -> 0..top] /\ w[1] = a /\ w[Len(q) + 2] = c
        /\ w[Len(q) + 1] = b /\ \A i \in 1..(Len(q) + 1) : w[i] = m[i]
    BY <1>1, <1>2
  <1> HIDE DEF w
  <1>4. \A i \in 1..(Len(q) + 1) : Runs(Append(q, x)[i].frames, w[i], w[i + 1])
    <2> TAKE i \in 1..(Len(q) + 1)
    <2>1. CASE i = Len(q) + 1
      <3>1. i + 1 = Len(q) + 2
        BY <1>2, <2>1
      <3> QED BY <1>2, <1>3, <2>1, <3>1
    <2>2. CASE i # Len(q) + 1
      <3>1. i \in 1..Len(q) /\ i + 1 \in 1..(Len(q) + 1)
        BY <1>2, <2>2
      <3> QED BY <1>1, <1>2, <1>3, <3>1
    <2> QED BY <2>1, <2>2
  <1>5. Len(q) + 1 + 1 = Len(q) + 2
    BY <1>2
  <1> QED BY <1>2, <1>3, <1>4, <1>5 DEF Chain

(* A batch is got.                                                           *)
LEMMA ChainGet ==
  ASSUME NEW S, NEW q \in Seq(S), q # <<>>, NEW a, NEW b, NEW top \in Nat,
         Chain(q, a, b, top)
  PROVE  \E c \in 0..top : Runs(Head(q).frames, a, c) /\ Chain(Tail(q), c, b, top)
  <1>1. PICK m \in [1..(Len(q) + 1) -> 0..top] :
          /\ m[1] = a /\ m[Len(q) + 1] = b
          /\ \A i \in 1..Len(q) : Runs(q[i].frames, m[i], m[i + 1])
    BY DEF Chain
  <1>2. /\ Head(q) = q[1] /\ Len(q) \in Nat \ {0} /\ Len(Tail(q)) = Len(q) - 1
        /\ \A i \in 1..(Len(q) - 1) : Tail(q)[i] = q[i + 1]
    BY TailFacts
  <1> DEFINE w == [i \in 1..Len(q) |-> m[i + 1]]
  <1>3. w \in [1..Len(q) -> 0..top] /\ w[1] = m[2] /\ w[Len(q)] = b
        /\ \A i \in 1..Len(q) : w[i] = m[i + 1]
    BY <1>1, <1>2
  <1> HIDE DEF w
  <1>4. \A i \in 1..(Len(q) - 1) : Runs(Tail(q)[i].frames, w[i], w[i + 1])
    <2> TAKE i \in 1..(Len(q) - 1)
    <2>1. i + 1 \in 1..Len(q) /\ i \in 1..Len(q)
      BY <1>2
    <2>2. Runs(q[i + 1].frames, m[i + 1], m[i + 1 + 1])
      BY <1>1, <2>1
    <2> QED BY <1>2, <1>3, <2>1, <2>2
  <1>5. Len(q) - 1 + 1 = Len(q)
    BY <1>2
  <1>6. Chain(Tail(q), m[2], b, top)
    BY <1>2, <1>3, <1>4, <1>5 DEF Chain
  <1>7. Runs(Head(q).frames, a, m[2]) /\ m[2] \in 0..top
    BY <1>1, <1>2
  <1> QED BY <1>6, <1>7

-----------------------------------------------------------------------------
(* The bridge's invariant is kept by every step of the bridge.               *)

BInv == BridgeTypeOK /\ FramesInOrder /\ AllGiven /\ QueueEnds /\ StreamShape

Frames == Seq(1..MaxFrames)

(* The types, in the form the steps need.                                    *)
LEMMA BridgeTypes ==
  ASSUME BridgeTypeOK
  PROVE  /\ out \in Frames /\ pending \in Frames /\ held \in Frames
         /\ given \in Frames /\ queue \in Seq(Items)
         /\ made \in Nat /\ made <= MaxFrames /\ MaxFrames \in Nat
         /\ pieces \in 0..MaxPieces /\ cancel \in BOOLEAN /\ passing \in BOOLEAN
         /\ MaxPieces \in Nat
  BY ProviderAssumption DEF BridgeTypeOK, Frames

LEMMA BridgeTypesNext ==
  ASSUME out' \in Frames, pending' \in Frames, held' \in Frames, given' \in Frames,
         queue' \in Seq(Items), made' \in 0..MaxFrames, pieces' \in 0..MaxPieces,
         cancel' \in BOOLEAN, passing' \in BOOLEAN,
         stream' \in {"idle", "piece", "get", "yield", "finally", "whole", "broken"},
         last' \in {"none", "done", "failed", "closed"},
         thread' \in {"none", "working", "settling"}
  PROVE  BridgeTypeOK'
  BY DEF BridgeTypeOK, Frames

(* What the thread may put: frames, the sentinel, an exception.              *)
LEMMA ItemsFacts ==
  /\ \A s \in Frames : [type |-> "audio", frames |-> s] \in Items
  /\ [type |-> "sentinel", frames |-> <<>>] \in Items
  /\ [type |-> "exception", frames |-> <<>>] \in Items
  /\ \A x \in Items : /\ x.frames \in Frames
                      /\ x.type # "audio" => x.frames = <<>>
                      /\ x.type \in {"audio", "sentinel", "exception"}
  <1>1. \A s \in Frames : [type |-> "audio", frames |-> s] \in Items
    BY DEF Items, Frames
  <1>2. /\ [type |-> "sentinel", frames |-> <<>>] \in Items
        /\ [type |-> "exception", frames |-> <<>>] \in Items
    BY DEF Items
  <1>3. ASSUME NEW x \in Items
        PROVE  /\ x.frames \in Frames
               /\ x.type # "audio" => x.frames = <<>>
               /\ x.type \in {"audio", "sentinel", "exception"}
    <2>1. CASE x \in [type : {"audio"}, frames : Seq(1..MaxFrames)]
      BY <2>1 DEF Frames
    <2>2. CASE x \in [type : {"sentinel", "exception"}, frames : {<<>>}]
      <3>1. <<>> \in Frames
        BY DEF Frames
      <3> QED BY <2>2, <3>1
    <2> QED BY <1>3, <2>1, <2>2 DEF Items
  <1> QED BY <1>1, <1>2, <1>3

(* The frames in order, for the state that a step leads to.                  *)
LEMMA OrderNext ==
  ASSUME NEW n \in Nat, made' = n,
         NEW a \in 0..n, NEW b \in 0..n, NEW c \in 0..n, NEW d \in 0..n,
         Runs(given', 0, a), Runs(out', a, b), Runs(held', b, c),
         Chain(queue', c, d, n),
         thread' = "working" => Runs(pending', d, n),
         thread' # "working" /\ ~Raised' => d = n
  PROVE  FramesInOrder'
  <1>1. InOrder(a, b, c, d)'
    BY DEF InOrder
  <1>2. \E x, y, z, w \in 0..made' : InOrder(x, y, z, w)'
    BY <1>1
  <1> QED BY <1>2 DEF FramesInOrder

(* The thread makes a frame, and puts what it has to put; it works on.       *)
LEMMA WorkOnBInv ==
  ASSUME BInv, UNCHANGED kind, kind \in Bridged, thread = "working",
         UNCHANGED <<thread, streamVars>>,
         NEW n \in Nat, n = made + 1, made' = n, n <= MaxFrames,
         pending' \in Frames, kind # "moss" => pending' = <<>>,
         queue' \in Seq(Items),
         \A i \in 1..Len(queue') :
           \/ queue'[i].type = "audio" /\ queue'[i].frames # <<>>
           \/ i \in 1..Len(queue) /\ queue'[i] = queue[i],
         \A c, d : Chain(queue, c, d, n) /\ Runs(pending, d, made) =>
           \E e \in 0..n : Chain(queue', c, e, n) /\ Runs(pending', e, n)
  PROVE  BInv'
  <1>0. /\ out \in Frames /\ held \in Frames /\ given \in Frames
        /\ queue \in Seq(Items) /\ made \in Nat
        /\ FramesInOrder /\ AllGiven /\ QueueEnds /\ StreamShape
    BY BridgeTypes DEF BInv
  <1>1. UNCHANGED <<pieces, stream, out, last, cancel, held, passing, given>>
    BY DEF streamVars
  <1>2. BridgeTypeOK'
    BY <1>0, <1>1, BridgeTypesNext, BridgeTypes DEF BInv, BridgeTypeOK
  <1>3. FramesInOrder'
    <2>1. CASE ~Speaking
      BY <1>1, <2>1 DEF FramesInOrder, Speaking
    <2>2. CASE Speaking
      <3>1. PICK a, b, c, d \in 0..made : InOrder(a, b, c, d)
        BY <1>0, <2>2 DEF FramesInOrder
      <3>2. Chain(queue, c, d, n)
        BY <1>0, <3>1, ChainTop DEF InOrder
      <3>3. PICK e \in 0..n : Chain(queue', c, e, n) /\ Runs(pending', e, n)
        BY <3>1, <3>2 DEF InOrder
      <3>4. a \in 0..n /\ b \in 0..n /\ c \in 0..n
        BY <1>0
      <3> QED BY <1>1, <3>1, <3>3, <3>4, OrderNext DEF InOrder
    <2> QED BY <2>1, <2>2
  <1>4. AllGiven'
    BY <1>0, <1>1 DEF AllGiven, StreamShape
  <1>5. QueueEnds'
    <2> SUFFICES ASSUME Speaking PROVE QueueEnds'
      BY <1>1 DEF QueueEnds, Speaking
    <2>1. /\ last = "none" /\ ~cancel
          /\ \A i \in 1..Len(queue) : queue[i].type = "audio"
                                     /\ queue[i].frames # <<>>
      BY <1>0, ItemsFacts DEF QueueEnds
    <2> QED BY <1>1, <2>1 DEF QueueEnds
  <1>6. StreamShape'
    BY <1>0, <1>1 DEF StreamShape
  <1> QED BY <1>2, <1>3, <1>4, <1>5, <1>6 DEF BInv

(* The thread puts its last item: only an exception may leave frames behind. *)
LEMMA WorkDoneBInv ==
  ASSUME BInv, UNCHANGED kind, thread = "working", thread' = "settling",
         UNCHANGED streamVars,
         NEW n \in Nat, made' = n, n \in {made, made + 1}, n <= MaxFrames,
         pending' = <<>>, queue' \in Seq(Items), queue' # <<>>,
         queue'[Len(queue')].type # "audio",
         Speaking =>
           \A i \in 1..Len(queue') : i # Len(queue') =>
             queue'[i].type = "audio" /\ queue'[i].frames # <<>>,
         Speaking =>
           \A c, d : Chain(queue, c, d, n) /\ Runs(pending, d, made) =>
             \E e \in 0..n : /\ Chain(queue', c, e, n)
                             /\ queue'[Len(queue')].type = "exception" \/ e = n
  PROVE  BInv'
  <1>0. /\ out \in Frames /\ held \in Frames /\ given \in Frames
        /\ queue \in Seq(Items) /\ made \in Nat /\ <<>> \in Frames
        /\ FramesInOrder /\ AllGiven /\ QueueEnds /\ StreamShape
    BY BridgeTypes DEF BInv, Frames
  <1>1. UNCHANGED <<pieces, stream, out, last, cancel, held, passing, given>>
    BY DEF streamVars
  <1>2. BridgeTypeOK'
    BY <1>0, <1>1, BridgeTypesNext, BridgeTypes DEF BInv, BridgeTypeOK
  <1>3. FramesInOrder'
    <2>1. CASE ~Speaking
      BY <1>1, <2>1 DEF FramesInOrder, Speaking
    <2>2. CASE Speaking
      <3>1. PICK a, b, c, d \in 0..made : InOrder(a, b, c, d)
        BY <1>0, <2>2 DEF FramesInOrder
      <3>2. Chain(queue, c, d, n)
        BY <1>0, <3>1, ChainTop DEF InOrder
      <3>3. PICK e \in 0..n : /\ Chain(queue', c, e, n)
                              /\ queue'[Len(queue')].type = "exception" \/ e = n
        BY <2>2, <3>1, <3>2 DEF InOrder
      <3>4. a \in 0..n /\ b \in 0..n /\ c \in 0..n
        BY <1>0
      <3> QED BY <1>1, <3>1, <3>3, <3>4, OrderNext DEF InOrder, Raised
    <2> QED BY <2>1, <2>2
  <1>4. AllGiven'
    BY <1>0, <1>1 DEF AllGiven, StreamShape
  <1>5. QueueEnds'
    <2> SUFFICES ASSUME Speaking PROVE QueueEnds'
      BY <1>1 DEF QueueEnds, Speaking
    <2>1. last = "none"
      BY <1>0 DEF QueueEnds
    <2> QED BY <1>1, <2>1 DEF QueueEnds
  <1>6. StreamShape'
    BY <1>0, <1>1 DEF StreamShape
  <1> QED BY <1>2, <1>3, <1>4, <1>5, <1>6 DEF BInv

(* The queue with one more item.                                             *)
LEMMA QueueMore ==
  ASSUME NEW q \in Seq(Items), NEW x \in Items
  PROVE  /\ Append(q, x) \in Seq(Items) /\ Append(q, x) # <<>>
         /\ Append(q, x)[Len(Append(q, x))] = x
         /\ \A i \in 1..Len(Append(q, x)) :
              IF i \in 1..Len(q) THEN Append(q, x)[i] = q[i]
              ELSE i = Len(Append(q, x)) /\ Append(q, x)[i] = x
  <1>1. /\ Append(q, x) \in Seq(Items) /\ Len(Append(q, x)) = Len(q) + 1
        /\ Append(q, x)[Len(q) + 1] = x /\ Append(q, x) # <<>>
        /\ \A i \in 1..Len(q) : Append(q, x)[i] = q[i]
        /\ Len(q) \in Nat
    BY AppendFacts, EmptyFacts
  <1>2. \A i \in 1..(Len(q) + 1) : i \in 1..Len(q) \/ i = Len(q) + 1
    BY <1>1
  <1> QED BY <1>1, <1>2

(* qwen3-tts and pocket-tts put each frame by itself.                        *)
LEMMA OneFrameBInv ==
  ASSUME BInv, UNCHANGED kind, kind \in Bridged, kind # "moss",
         Makes, Puts("audio", <<made'>>),
         UNCHANGED <<thread, pending, streamVars>>
  PROVE  BInv'
  <1>0. /\ pending \in Frames /\ queue \in Seq(Items) /\ made \in Nat
        /\ made <= MaxFrames /\ MaxFrames \in Nat /\ StreamShape
    BY BridgeTypes DEF BInv
  <1>1. PICK n \in Nat : n = made + 1 /\ made' = n /\ n <= MaxFrames
    BY <1>0 DEF Makes
  <1>2. PICK x : /\ x = [type |-> "audio", frames |-> <<n>>] /\ x \in Items
                 /\ <<n>> \in Frames /\ x.frames = <<n>> /\ x.type = "audio"
                 /\ <<n>> # <<>> /\ Append(<<>>, n) = <<n>>
    <2>1. n \in 1..MaxFrames
      BY <1>0, <1>1
    <2>2. <<n>> \in Frames /\ <<n>> # <<>> /\ Append(<<>>, n) = <<n>>
      BY <2>1, OneFacts DEF Frames
    <2> QED BY <2>2, ItemsFacts
  <1>3. queue' = Append(queue, x) /\ thread = "working"
    BY <1>1, <1>2 DEF Makes, Puts
  <1>4. pending = <<>> /\ pending' = <<>>
    BY <1>0 DEF StreamShape
  <1>5. ASSUME NEW c, NEW d, Chain(queue, c, d, n), Runs(pending, d, made)
        PROVE  \E e \in 0..n : Chain(queue', c, e, n) /\ Runs(pending', e, n)
    <2>1. d = made
      BY <1>0, <1>4, <1>5, EmptyFacts DEF Runs
    <2>2. Runs(<<>>, made, made) /\ <<>> \in Seq(Nat)
      BY <1>0, RunsNone
    <2>3. Runs(<<n>>, d, n)
      BY <1>1, <1>2, <2>1, <2>2, RunsMore
    <2>4. n \in 0..n
      OBVIOUS
    <2>5. Chain(Append(queue, x), c, n, n)
      BY <1>0, <1>2, <1>5, <2>3, <2>4, ChainPut
    <2>6. Runs(pending', n, n)
      BY <1>4, RunsNone
    <2> QED BY <1>3, <2>4, <2>5, <2>6
  <1>6. /\ queue' \in Seq(Items)
        /\ \A i \in 1..Len(queue') :
             \/ queue'[i].type = "audio" /\ queue'[i].frames # <<>>
             \/ i \in 1..Len(queue) /\ queue'[i] = queue[i]
    BY <1>0, <1>2, <1>3, QueueMore
  <1> QED BY <1>0, <1>1, <1>3, <1>4, <1>5, <1>6, WorkOnBInv

(* moss-tts-nano puts the frames that it has decoded, if any.                *)
LEMMA MossFrameBInv ==
  ASSUME BInv, UNCHANGED kind, MossFrame
  PROVE  BInv'
  <1>0. /\ pending \in Frames /\ queue \in Seq(Items) /\ made \in Nat
        /\ made <= MaxFrames /\ MaxFrames \in Nat /\ kind = "moss"
    BY BridgeTypes DEF BInv, MossFrame
  <1>1. PICK n \in Nat : n = made + 1 /\ made' = n /\ n <= MaxFrames
    BY <1>0 DEF MossFrame, Makes
  <1>2. PICK frames : frames = Append(pending, n)
    OBVIOUS
  <1>3. frames \in Frames /\ Len(frames) \in Nat
    <2>1. n \in 1..MaxFrames
      BY <1>0, <1>1
    <2> QED BY <1>0, <1>2, <2>1, AppendFacts, EmptyFacts DEF Frames
  <1>4. PICK k \in 0..Len(frames) :
          /\ pending' = SubSeq(frames, k + 1, Len(frames))
          /\ IF k = 0 THEN UNCHANGED queue
             ELSE Puts("audio", SubSeq(frames, 1, k))
    BY <1>1, <1>2 DEF MossFrame
  <1>5. PICK s : s = SubSeq(frames, 1, k)
    OBVIOUS
  <1>6. s \in Frames /\ Len(s) = k /\ pending' \in Frames
    BY <1>3, <1>4, <1>5, SubSeqFacts DEF Frames
  <1>7. PICK x : /\ x = [type |-> "audio", frames |-> s] /\ x \in Items
                 /\ x.frames = s /\ x.type = "audio"
    BY <1>6, ItemsFacts
  <1>8. /\ k = 0 => queue' = queue
        /\ k # 0 => queue' = Append(queue, x) /\ s # <<>>
    BY <1>4, <1>5, <1>6, <1>7, EmptyFacts DEF Puts
  <1>9. ASSUME NEW c, NEW d, Chain(queue, c, d, n), Runs(pending, d, made)
        PROVE  \E e \in 0..n : Chain(queue', c, e, n) /\ Runs(pending', e, n)
    <2>1. Runs(frames, d, n)
      <3>1. n \in 1..MaxFrames
        BY <1>0, <1>1
      <3> QED BY <1>0, <1>1, <1>2, <1>9, <3>1, RunsMore DEF Frames
    <2>2. Runs(s, d, d + k) /\ Runs(pending', d + k, n)
      BY <1>3, <1>4, <1>5, <2>1, RunsCut DEF Frames
    <2>3. d \in Nat /\ d + k \in 0..n /\ k \in Nat
      BY <1>3, <1>6, <2>1, <2>2, EmptyFacts DEF Runs
    <2>4. CASE k = 0
      BY <1>8, <1>9, <2>2, <2>3, <2>4
    <2>5. CASE k # 0
      <3>1. Chain(Append(queue, x), c, d + k, n)
        BY <1>0, <1>7, <1>9, <2>2, <2>3, ChainPut
      <3> QED BY <1>8, <2>2, <2>3, <2>5, <3>1
    <2> QED BY <2>4, <2>5
  <1>10. /\ queue' \in Seq(Items)
         /\ \A i \in 1..Len(queue') :
              \/ queue'[i].type = "audio" /\ queue'[i].frames # <<>>
              \/ i \in 1..Len(queue) /\ queue'[i] = queue[i]
    <2>1. CASE k = 0
      BY <1>0, <1>8, <2>1
    <2>2. CASE k # 0
      <3>1. queue' = Append(queue, x) /\ s # <<>>
        BY <1>8, <2>2
      <3> QED BY <1>0, <1>7, <3>1, QueueMore
    <2> QED BY <2>1, <2>2
  <1>11. kind \in Bridged /\ thread = "working" /\ UNCHANGED <<thread, streamVars>>
    BY <1>0 DEF MossFrame, Makes, Bridged
  <1> QED BY <1>0, <1>1, <1>6, <1>9, <1>10, <1>11, WorkOnBInv

LEMMA BInvFacts ==
  ASSUME BInv
  PROVE  /\ out \in Frames /\ pending \in Frames /\ held \in Frames
         /\ given \in Frames /\ queue \in Seq(Items) /\ <<>> \in Frames
         /\ made \in Nat /\ made <= MaxFrames /\ MaxFrames \in Nat
         /\ made \in 0..MaxFrames /\ made \in 0..made
         /\ pieces \in 0..MaxPieces /\ cancel \in BOOLEAN /\ passing \in BOOLEAN
         /\ stream \in {"idle", "piece", "get", "yield", "finally", "whole",
                        "broken"}
         /\ last \in {"none", "done", "failed", "closed"}
         /\ thread \in {"none", "working", "settling"}
         /\ FramesInOrder /\ AllGiven /\ QueueEnds /\ StreamShape
  <1>1. BridgeTypeOK /\ FramesInOrder /\ AllGiven /\ QueueEnds /\ StreamShape
    BY DEF BInv
  <1>2. <<>> \in Frames
    BY DEF Frames
  <1>3. /\ stream \in {"idle", "piece", "get", "yield", "finally", "whole",
                       "broken"}
        /\ last \in {"none", "done", "failed", "closed"}
        /\ thread \in {"none", "working", "settling"}
    BY <1>1 DEF BridgeTypeOK
  <1> QED BY <1>1, <1>2, <1>3, BridgeTypes

(* The sentinel or an exception alone is put last.                           *)
LEMMA PutLastBInv ==
  ASSUME BInv, UNCHANGED kind, thread = "working", thread' = "settling",
         UNCHANGED <<streamVars, made>>, pending' = <<>>,
         NEW t \in {"sentinel", "exception"}, Puts(t, <<>>),
         t = "sentinel" => pending = <<>>
  PROVE  BInv'
  <1>0. /\ queue \in Seq(Items) /\ made \in Nat /\ made <= MaxFrames
        /\ made \in 0..made /\ QueueEnds
    BY BInvFacts
  <1>1. PICK x \in Items : /\ x = [type |-> t, frames |-> <<>>]
                           /\ x.type = t /\ x.frames = <<>>
    BY ItemsFacts
  <1>2. queue' = Append(queue, x)
    BY <1>1 DEF Puts
  <1>3. /\ queue' \in Seq(Items) /\ queue' # <<>> /\ queue'[Len(queue')] = x
        /\ \A i \in 1..Len(queue') :
             i # Len(queue') => i \in 1..Len(queue) /\ queue'[i] = queue[i]
    BY <1>0, <1>2, QueueMore
  <1>4. Speaking =>
          \A i \in 1..Len(queue') : i # Len(queue') =>
            queue'[i].type = "audio" /\ queue'[i].frames # <<>>
    BY <1>0, <1>3 DEF QueueEnds
  <1>5. ASSUME NEW c, NEW d, Chain(queue, c, d, made), Runs(pending, d, made)
        PROVE  \E e \in 0..made : /\ Chain(queue', c, e, made)
                                  /\ queue'[Len(queue')].type = "exception" \/ e = made
    <2>1. d \in 0..made /\ d \in Nat
      BY <1>0, <1>5, ChainRange
    <2>2. Chain(queue', c, d, made)
      BY <1>0, <1>1, <1>2, <1>5, <2>1, RunsNone, ChainPut
    <2>3. pending = <<>> => d = made
      BY <1>5, <2>1, EmptyFacts DEF Runs
    <2> QED BY <1>1, <1>3, <2>1, <2>2, <2>3
  <1>6. made' = made /\ UNCHANGED streamVars
    OBVIOUS
  <1>7. queue'[Len(queue')].type # "audio"
    BY <1>1, <1>3
  <1> QED BY <1>0, <1>3, <1>4, <1>5, <1>6, <1>7, WorkDoneBInv

(* Frames and then the sentinel are put.                                     *)
LEMMA PutBothBInv ==
  ASSUME BInv, UNCHANGED kind, thread = "working", thread' = "settling",
         UNCHANGED streamVars, pending' = <<>>,
         NEW n \in Nat, made' = n, n \in {made, made + 1}, n <= MaxFrames,
         NEW q \in Seq(Items), Speaking => q = queue,
         NEW s \in Frames, s # <<>>,
         \A d : Runs(pending, d, made) => Runs(s, d, n),
         queue' = Append(Append(q, [type |-> "audio", frames |-> s]),
                         [type |-> "sentinel", frames |-> <<>>])
  PROVE  BInv'
  <1>0. queue \in Seq(Items) /\ made \in Nat /\ QueueEnds
    BY BInvFacts
  <1>1. PICK x \in Items : /\ x = [type |-> "audio", frames |-> s]
                           /\ x.type = "audio" /\ x.frames = s
    BY ItemsFacts
  <1>2. PICK y \in Items : /\ y = [type |-> "sentinel", frames |-> <<>>]
                           /\ y.type = "sentinel" /\ y.frames = <<>>
    BY ItemsFacts
  <1>3. PICK r : r = Append(q, x)
    OBVIOUS
  <1>4. /\ r \in Seq(Items) /\ queue' = Append(r, y)
        /\ \A i \in 1..Len(r) : IF i \in 1..Len(q) THEN r[i] = q[i] ELSE r[i] = x
    BY <1>1, <1>2, <1>3, QueueMore
  <1>5. /\ queue' \in Seq(Items) /\ queue' # <<>> /\ queue'[Len(queue')] = y
        /\ \A i \in 1..Len(queue') :
             i # Len(queue') => i \in 1..Len(r) /\ queue'[i] = r[i]
    BY <1>2, <1>4, QueueMore
  <1>6. Speaking =>
          \A i \in 1..Len(queue') : i # Len(queue') =>
            queue'[i].type = "audio" /\ queue'[i].frames # <<>>
    BY <1>0, <1>1, <1>4, <1>5 DEF QueueEnds
  <1>7. ASSUME NEW c, NEW d, Chain(q, c, d, n), Runs(pending, d, made)
        PROVE  Chain(queue', c, n, n)
    <2>1. n \in 0..n /\ Runs(<<>>, n, n) /\ Runs(s, d, n)
      BY <1>7, RunsNone
    <2>2. Chain(r, c, n, n)
      BY <1>1, <1>3, <1>7, <2>1, ChainPut
    <2> QED BY <1>2, <1>4, <2>1, <2>2, ChainPut
  <1>8. Speaking =>
           \A c, d : Chain(queue, c, d, n) /\ Runs(pending, d, made) =>
             \E e \in 0..n : /\ Chain(queue', c, e, n)
                             /\ queue'[Len(queue')].type = "exception" \/ e = n
    <2> SUFFICES ASSUME Speaking, NEW c, NEW d, Chain(queue, c, d, n),
                        Runs(pending, d, made)
                 PROVE  \E e \in 0..n : Chain(queue', c, e, n) /\ e = n
      OBVIOUS
    <2>1. Chain(queue', c, n, n) /\ n \in 0..n
      BY <1>7
    <2> QED BY <2>1
  <1>9. queue'[Len(queue')].type # "audio"
    BY <1>2, <1>5
  <1> QED BY <1>0, <1>5, <1>6, <1>8, <1>9, WorkDoneBInv

LEMMA ThreadEndsBInv == ASSUME BInv, UNCHANGED kind, ThreadEnds PROVE BInv'
  <1>0. /\ queue \in Seq(Items) /\ made \in Nat /\ made <= MaxFrames
        /\ pending \in Frames
    BY BInvFacts
  <1>1. /\ thread = "working" /\ thread' = "settling" /\ pending' = <<>>
        /\ UNCHANGED <<streamVars, made>>
    BY DEF ThreadEnds
  <1>2. PICK y \in Items : y = [type |-> "sentinel", frames |-> <<>>]
    BY ItemsFacts
  <1>3. CASE pending = <<>>
    <2>1. queue' = (queue \o <<>>) \o <<y>>
      BY <1>2, <1>3 DEF ThreadEnds
    <2>2. queue' = Append(queue, y)
      BY <1>0, <2>1
    <2>3. Puts("sentinel", <<>>)
      BY <1>2, <2>2 DEF Puts
    <2> QED BY <1>1, <1>3, <2>3, PutLastBInv
  <1>4. CASE pending # <<>>
    <2>1. PICK x \in Items : x = [type |-> "audio", frames |-> pending]
      BY <1>0, ItemsFacts
    <2>2. queue' = (queue \o <<x>>) \o <<y>>
      BY <1>2, <1>4, <2>1 DEF ThreadEnds
    <2>3. queue' = Append(Append(queue, x), y)
      BY <1>0, <2>2
    <2>4. made' = made /\ UNCHANGED streamVars
      BY <1>1
    <2> QED BY <1>0, <1>1, <1>2, <1>4, <2>1, <2>3, <2>4, PutBothBInv
  <1> QED BY <1>3, <1>4

LEMMA PieceComputedBInv == ASSUME BInv, UNCHANGED kind, PieceComputed PROVE BInv'
  <1>0. /\ made \in Nat /\ made <= MaxFrames /\ MaxFrames \in Nat
        /\ QueueEnds /\ StreamShape
    BY BInvFacts
  <1>1. /\ kind \notin Bridged /\ thread = "working" /\ thread' = "settling"
        /\ pending' = pending /\ UNCHANGED streamVars
    BY DEF PieceComputed
  <1>2. pending = <<>>
    BY <1>0, <1>1 DEF StreamShape, Bridged
  <1>3. CASE Puts("sentinel", <<>>) /\ UNCHANGED made
    BY <1>1, <1>2, <1>3, PutLastBInv
  <1>4. CASE Makes /\ queue' = <<[type |-> "audio", frames |-> <<made'>>],
                                 [type |-> "sentinel", frames |-> <<>>]>>
    <2>1. PICK n \in Nat : n = made + 1 /\ made' = n /\ n <= MaxFrames
      BY <1>0, <1>4 DEF Makes
    <2>2. /\ <<n>> \in Frames /\ <<n>> # <<>> /\ Append(<<>>, n) = <<n>>
      <3>1. n \in 1..MaxFrames
        BY <1>0, <2>1
      <3> QED BY <3>1, OneFacts DEF Frames
    <2>3. Speaking => queue = <<>>
      BY <1>0, <1>1 DEF QueueEnds
    <2>4. \A d : Runs(pending, d, made) => Runs(<<n>>, d, n)
      <3> SUFFICES ASSUME NEW d, Runs(pending, d, made) PROVE Runs(<<n>>, d, n)
        OBVIOUS
      <3>1. Runs(<<>>, d, made) /\ <<>> \in Seq(Nat)
        BY <1>2
      <3> QED BY <2>1, <2>2, <3>1, RunsMore
    <2>5. queue' = Append(Append(<<>>, [type |-> "audio", frames |-> <<n>>]),
                          [type |-> "sentinel", frames |-> <<>>])
      BY <1>4, <2>1
    <2>6. <<>> \in Seq(Items)
      OBVIOUS
    <2> QED BY <1>1, <1>2, <2>1, <2>2, <2>3, <2>4, <2>5, <2>6, PutBothBInv
  <1> QED BY <1>3, <1>4 DEF PieceComputed

LEMMA ThreadSettlesBInv == ASSUME BInv, UNCHANGED kind, ThreadSettles PROVE BInv'
  <1>0. /\ made \in Nat /\ FramesInOrder /\ AllGiven /\ QueueEnds /\ StreamShape
        /\ BridgeTypeOK
    BY BInvFacts DEF BInv
  <1>1. /\ thread = "settling" /\ thread' = "none"
        /\ UNCHANGED <<queue, pending, pieces, stream, out, last, cancel, held,
                       passing, given, made>>
    BY DEF ThreadSettles, streamVars
  <1>2. BridgeTypeOK'
    BY <1>0, <1>1 DEF BridgeTypeOK
  <1>3. FramesInOrder'
    BY <1>0, <1>1 DEF FramesInOrder, InOrder, Speaking, Raised
  <1>4. AllGiven' /\ StreamShape'
    BY <1>0, <1>1 DEF AllGiven, StreamShape
  <1>5. QueueEnds'
    BY <1>0, <1>1 DEF QueueEnds, Speaking
  <1> QED BY <1>2, <1>3, <1>4, <1>5 DEF BInv

LEMMA ThreadStepBInv == ASSUME BInv, UNCHANGED kind, ThreadStep PROVE BInv'
  <1>1. CASE Qwen3Yields
    <2>1. kind \in Bridged /\ kind # "moss"
      BY <1>1 DEF Qwen3Yields, Qwen3, Bridged
    <2> QED BY <1>1, <2>1, OneFrameBInv DEF Qwen3Yields
  <1>2. CASE PocketYields
    <2>1. kind \in Bridged /\ kind # "moss"
      BY <1>2 DEF PocketYields, Bridged
    <2> QED BY <1>2, <2>1, OneFrameBInv DEF PocketYields
  <1>3. CASE Qwen3Cancelled
    <2>1. StreamShape
      BY BInvFacts
    <2>2. pending = <<>>
      BY <1>3, <2>1 DEF StreamShape, Qwen3Cancelled, Qwen3
    <2>3. pending' = <<>> /\ UNCHANGED <<streamVars, made>>
      BY <1>3, <2>2 DEF Qwen3Cancelled
    <2> QED BY <1>3, <2>2, <2>3, PutLastBInv DEF Qwen3Cancelled
  <1>4. CASE ThreadRaises
    BY <1>4, PutLastBInv DEF ThreadRaises
  <1> QED BY <1>1, <1>2, <1>3, <1>4, MossFrameBInv, ThreadEndsBInv,
             PieceComputedBInv, ThreadSettlesBInv DEF ThreadStep

-----------------------------------------------------------------------------
(* The generator's steps keep it too.                                        *)

LEMMA StartPieceBInv == ASSUME BInv, UNCHANGED kind, StartPiece PROVE BInv'
  <1>0. /\ made \in Nat /\ made \in 0..made /\ given \in Frames /\ out \in Frames
        /\ made \in 0..MaxFrames /\ pieces \in 0..MaxPieces /\ <<>> \in Frames
        /\ AllGiven /\ StreamShape
    BY BInvFacts
  <1>1. /\ stream = "piece" /\ pieces > 0 /\ thread' = "working" /\ queue' = <<>>
        /\ pending' = <<>> /\ cancel' = FALSE /\ held' = <<>> /\ last' = "none"
        /\ stream' = "get" /\ UNCHANGED <<pieces, out, given, made>>
    BY DEF StartPiece
  <1>2. passing' \in BOOLEAN
    BY DEF StartPiece, HoldsBack
  <1>3. BridgeTypeOK'
    <2>1. queue' \in Seq(Items)
      BY <1>1
    <2> QED BY <1>0, <1>1, <1>2, <2>1, BridgeTypesNext
  <1>4. FramesInOrder'
    <2>1. Runs(given', 0, made)
      BY <1>0, <1>1 DEF AllGiven
    <2>2. out' = <<>>
      BY <1>0, <1>1 DEF StreamShape
    <2>3. Runs(<<>>, made, made) /\ Chain(<<>>, made, made, made)
      BY <1>0, RunsNone, ChainNone
    <2>4. made' = made
      BY <1>1
    <2> QED BY <1>0, <1>1, <2>1, <2>2, <2>3, <2>4, OrderNext
  <1>5. AllGiven' /\ StreamShape'
    BY <1>0, <1>1 DEF AllGiven, StreamShape
  <1>6. QueueEnds'
    BY <1>1, EmptyFacts DEF QueueEnds
  <1> QED BY <1>3, <1>4, <1>5, <1>6 DEF BInv

(* No piece is being spoken after these.                                     *)
LEMMA QuietBInv ==
  ASSUME BInv, UNCHANGED <<kind, given, made, pending>>,
         held' \in Frames, queue' \in Seq(Items),
         last' \in {"none", "done", "failed", "closed"}, cancel' \in BOOLEAN,
         pieces' = pieces, passing' = passing, thread' = thread,
         \/ stream = "piece" /\ stream' = "whole" /\ out' = out
         \/ /\ stream \in {"get", "yield"} /\ stream' = "finally" /\ out' = <<>>
            /\ last' \in {"failed", "closed"}
  PROVE  BInv'
  <1>0. /\ made \in 0..MaxFrames /\ pieces \in 0..MaxPieces /\ <<>> \in Frames
        /\ given \in Frames /\ out \in Frames /\ pending \in Frames
        /\ passing \in BOOLEAN /\ thread \in {"none", "working", "settling"}
        /\ AllGiven /\ StreamShape
    BY BInvFacts
  <1>1. BridgeTypeOK'
    BY <1>0, BridgeTypesNext
  <1>2. ~Speaking'
    BY DEF Speaking
  <1>3. AllGiven'
    BY <1>0 DEF AllGiven
  <1>4. StreamShape'
    BY <1>0 DEF StreamShape
  <1> QED BY <1>1, <1>2, <1>3, <1>4 DEF BInv, FramesInOrder, QueueEnds

LEMMA EndOfTextBInv == ASSUME BInv, UNCHANGED kind, EndOfText PROVE BInv'
  BY BInvFacts, QuietBInv DEF EndOfText, threadVars

LEMMA CloseStreamBInv == ASSUME BInv, UNCHANGED kind, CloseStream PROVE BInv'
  BY BInvFacts, QuietBInv DEF CloseStream, threadVars

LEMMA GetExceptionBInv == ASSUME BInv, UNCHANGED kind, GetException PROVE BInv'
  <1>0. out = <<>> /\ queue' \in Seq(Items)
    BY BInvFacts, TailFacts DEF StreamShape, GetException, Gets
  <1> QED BY <1>0, BInvFacts, QuietBInv DEF GetException, Gets

LEMMA CancelOnCloseBInv == ASSUME BInv, UNCHANGED kind, CancelOnClose PROVE BInv'
  <1>0. /\ made \in Nat /\ FramesInOrder /\ AllGiven /\ QueueEnds /\ StreamShape
        /\ BridgeTypeOK
    BY BInvFacts DEF BInv
  <1>1. /\ stream = "finally" /\ cancel' = TRUE
        /\ UNCHANGED <<pieces, stream, out, last, held, passing, given, thread,
                       queue, pending, made>>
    BY DEF CancelOnClose, threadVars
  <1>2. BridgeTypeOK'
    BY <1>0, <1>1 DEF BridgeTypeOK
  <1>3. FramesInOrder'
    BY <1>0, <1>1 DEF FramesInOrder, InOrder, Speaking, Raised
  <1>4. AllGiven' /\ StreamShape'
    BY <1>0, <1>1 DEF AllGiven, StreamShape
  <1>5. QueueEnds'
    BY <1>0, <1>1 DEF QueueEnds, Speaking
  <1> QED BY <1>2, <1>3, <1>4, <1>5 DEF BInv

LEMMA FinallyBInv == ASSUME BInv, UNCHANGED kind, Finally PROVE BInv'
  <1>0. /\ made \in Nat /\ FramesInOrder /\ AllGiven /\ QueueEnds /\ StreamShape
        /\ BridgeTypeOK /\ pieces \in 0..MaxPieces
    BY BInvFacts DEF BInv
  <1>1. /\ stream = "finally" /\ thread = "none"
        /\ IF last = "done" THEN stream' = "piece" /\ pieces' = pieces - 1
           ELSE stream' = "broken" /\ pieces' = pieces
        /\ UNCHANGED <<out, last, cancel, held, passing, given, thread,
                       queue, pending, made>>
    BY DEF Finally, threadVars
  <1>2. pieces > 0
    BY <1>0, <1>1 DEF StreamShape
  <1>3. BridgeTypeOK'
    <2>1. pieces - 1 \in 0..MaxPieces
      BY <1>0, <1>2, ProviderAssumption
    <2> QED BY <1>0, <1>1, <2>1 DEF BridgeTypeOK
  <1>4. ~Speaking'
    BY <1>1 DEF Speaking
  <1>5. AllGiven'
    <2> SUFFICES ASSUME last = "done" PROVE Runs(given, 0, made)
      BY <1>1 DEF AllGiven
    <2>1. Speaking
      BY <1>1 DEF Speaking
    <2>2. PICK a, b, c, d \in 0..made : InOrder(a, b, c, d)
      BY <1>0, <2>1 DEF FramesInOrder
    <2>3. queue = <<>> /\ held = <<>> /\ out = <<>>
      BY <1>0, <1>1, <2>1 DEF QueueEnds, StreamShape
    <2>4. a = b /\ b = c
      BY <2>2, <2>3, EmptyFacts DEF InOrder, Runs
    <2>5. c = d
      BY <2>2, <2>3, ChainEmpty DEF InOrder
    <2>6. d = made
      BY <1>1, <2>2, <2>3 DEF InOrder, Raised
    <2> QED BY <2>2, <2>4, <2>5, <2>6 DEF InOrder
  <1>6. StreamShape'
    BY <1>0, <1>1 DEF StreamShape
  <1> QED BY <1>3, <1>4, <1>5, <1>6 DEF BInv, FramesInOrder, QueueEnds

(* The first item is got: the last stays the last.                           *)
LEMMA QueueLess ==
  ASSUME NEW q \in Seq(Items), q # <<>>
  PROVE  /\ Head(q) \in Items /\ Head(q) = q[1] /\ Len(q) \in Nat \ {0}
         /\ Tail(q) \in Seq(Items) /\ Len(Tail(q)) = Len(q) - 1
         /\ \A i \in 1..Len(Tail(q)) : i + 1 \in 1..Len(q) /\ Tail(q)[i] = q[i + 1]
         /\ Tail(q) = <<>> => Len(q) = 1
         /\ Tail(q) # <<>> => Tail(q)[Len(Tail(q))] = q[Len(q)]
  <1>1. /\ Head(q) = q[1] /\ Head(q) \in Items /\ Len(q) \in Nat \ {0}
        /\ Tail(q) \in Seq(Items) /\ Len(Tail(q)) = Len(q) - 1
        /\ \A i \in 1..(Len(q) - 1) : Tail(q)[i] = q[i + 1]
    BY TailFacts
  <1>2. Tail(q) = <<>> <=> Len(q) = 1
    <2>1. Len(Tail(q)) = 0 <=> Tail(q) = <<>>
      BY <1>1, EmptyFacts
    <2>2. Len(Tail(q)) = 0 <=> Len(q) = 1
      BY <1>1
    <2> QED BY <2>1, <2>2
  <1>3. Tail(q) # <<>> => Tail(q)[Len(q) - 1] = q[Len(q)]
    <2> SUFFICES ASSUME Tail(q) # <<>> PROVE Tail(q)[Len(q) - 1] = q[Len(q)]
      OBVIOUS
    <2>1. Len(q) - 1 \in 1..(Len(q) - 1) /\ (Len(q) - 1) + 1 = Len(q)
      BY <1>1, <1>2
    <2>2. Tail(q)[Len(q) - 1] = q[(Len(q) - 1) + 1]
      BY <1>1, <2>1
    <2> QED BY <2>1, <2>2
  <1>4. \A i \in 1..(Len(q) - 1) : i + 1 \in 1..Len(q)
    BY <1>1
  <1> QED BY <1>1, <1>2, <1>3, <1>4

LEMMA GetAudioBInv == ASSUME BInv, UNCHANGED kind, GetAudio PROVE BInv'
  <1>0. /\ made \in Nat /\ made \in 0..MaxFrames /\ pieces \in 0..MaxPieces
        /\ <<>> \in Frames /\ out \in Frames /\ held \in Frames
        /\ given \in Frames /\ pending \in Frames /\ queue \in Seq(Items)
        /\ cancel \in BOOLEAN /\ passing \in BOOLEAN
        /\ last \in {"none", "done", "failed", "closed"}
        /\ thread \in {"none", "working", "settling"}
        /\ FramesInOrder /\ AllGiven /\ QueueEnds /\ StreamShape
    BY BInvFacts
  <1>1. /\ stream = "get" /\ queue # <<>> /\ Head(queue).type = "audio"
        /\ queue' = Tail(queue)
        /\ UNCHANGED <<pieces, last, cancel, given, thread, pending, made>>
    BY DEF GetAudio, Gets
  <1>2. PICK frames : frames = Head(queue).frames
    OBVIOUS
  <1>3. \/ passing /\ out' = frames /\ stream' = "yield" /\ held' = held
           /\ passing' = passing
        \/ ~passing /\ held' = held \o frames /\ out' = out /\ stream' = "get"
           /\ passing' = passing
        \/ passing' = TRUE /\ held' = <<>> /\ out' = held \o frames
           /\ stream' = "yield" /\ ~passing
    BY <1>1, <1>2 DEF GetAudio
  <1>4. /\ Head(queue) \in Items /\ Head(queue) = queue[1]
        /\ Len(queue) \in Nat \ {0}
        /\ Tail(queue) \in Seq(Items) /\ Len(Tail(queue)) = Len(queue) - 1
        /\ \A i \in 1..Len(Tail(queue)) :
             i + 1 \in 1..Len(queue) /\ Tail(queue)[i] = queue[i + 1]
        /\ Tail(queue) = <<>> => Len(queue) = 1
        /\ Tail(queue) # <<>> => Tail(queue)[Len(Tail(queue))] = queue[Len(queue)]
    BY <1>0, <1>1, QueueLess
  <1>5. Speaking /\ Speaking' /\ last = "none" /\ out = <<>>
    BY <1>0, <1>1, <1>3 DEF Speaking, StreamShape
  <1>6. frames \in Frames /\ frames # <<>>
    <2>1. 1 \in 1..Len(queue)
      BY <1>4
    <2> QED BY <1>0, <1>1, <1>2, <1>4, <1>5, <2>1, ItemsFacts DEF QueueEnds
  <1>7. held \o frames \in Frames /\ held \o frames # <<>>
    <2>1. /\ held \o frames \in Frames
          /\ Len(held \o frames) = Len(held) + Len(frames)
      BY <1>0, <1>6, ConcatFacts DEF Frames
    <2>2. Len(held) \in Nat /\ Len(frames) \in Nat \ {0}
      BY <1>0, <1>6, EmptyFacts DEF Frames
    <2> QED BY <2>1, <2>2, EmptyFacts DEF Frames
  <1>8. BridgeTypeOK'
    <2>1. out' \in Frames /\ held' \in Frames /\ passing' \in BOOLEAN
          /\ stream' \in {"get", "yield"}
      BY <1>0, <1>3, <1>6, <1>7
    <2> QED BY <1>0, <1>1, <1>4, <2>1, BridgeTypesNext
  <1>9. Raised' <=> Raised
    <2>1. CASE Tail(queue) = <<>>
      BY <1>1, <1>4, <2>1 DEF Raised
    <2>2. CASE Tail(queue) # <<>>
      BY <1>1, <1>4, <2>2 DEF Raised
    <2> QED BY <2>1, <2>2
  <1>10. FramesInOrder'
    <2>1. PICK a, b, c, d \in 0..made : InOrder(a, b, c, d)
      BY <1>0, <1>5 DEF FramesInOrder
    <2>2. PICK e \in 0..made : Runs(frames, c, e) /\ Chain(queue', e, d, made)
      BY <1>0, <1>1, <1>2, <2>1, ChainGet DEF InOrder
    <2>3. a = b
      BY <1>5, <2>1, EmptyFacts DEF InOrder, Runs
    <2>4. Runs(held \o frames, b, e)
      BY <1>0, <1>6, <2>1, <2>2, RunsJoin DEF InOrder, Frames
    <2>5. /\ Runs(<<>>, b, b) /\ Runs(<<>>, e, e)
      BY <2>1, <2>2, RunsNone
    <2>6. /\ Runs(given', 0, a) /\ thread' = "working" => Runs(pending', d, made)
      BY <1>1, <2>1 DEF InOrder
    <2>7. thread' # "working" /\ ~Raised' => d = made
      BY <1>1, <1>9, <2>1 DEF InOrder
    <2>8. made' = made /\ Runs(given', 0, a) /\ Runs(out, a, b) /\ Runs(held, b, c)
      BY <1>1, <2>1 DEF InOrder
    <2>9. CASE passing /\ out' = frames /\ stream' = "yield" /\ held' = held
      <3>1. held = <<>>
        BY <1>0, <1>1, <2>9 DEF StreamShape
      <3>2. b = c
        BY <2>8, <3>1, EmptyFacts DEF Runs
      <3> QED BY <1>0, <2>1, <2>2, <2>3, <2>5, <2>6, <2>7, <2>8, <2>9, <3>1, <3>2,
                 OrderNext
    <2>10. CASE held' = held \o frames /\ out' = out
      BY <1>0, <2>1, <2>2, <2>3, <2>4, <2>6, <2>7, <2>8, <2>10, OrderNext
    <2>11. CASE held' = <<>> /\ out' = held \o frames
      BY <1>0, <2>1, <2>2, <2>3, <2>4, <2>5, <2>6, <2>7, <2>8, <2>11, OrderNext
    <2> QED BY <1>3, <2>9, <2>10, <2>11
  <1>11. AllGiven'
    BY <1>3 DEF AllGiven
  <1>12. StreamShape'
    <2>1. /\ kind # "moss" => pending' = <<>>
          /\ pieces' > 0 /\ last' = "none" /\ kind' = kind
      BY <1>0, <1>1, <1>5 DEF StreamShape
    <2>2. /\ stream' = "yield" <=> out' # <<>>
          /\ passing' => held' = <<>>
      <3>1. passing => held = <<>>
        BY <1>0, <1>1 DEF StreamShape
      <3>2. CASE stream' = "get"
        <4>1. out' = <<>> /\ ~passing'
          BY <1>3, <1>5, <3>2
        <4> QED BY <3>2, <4>1
      <3>3. CASE stream' = "yield"
        BY <1>3, <1>6, <1>7, <3>1, <3>3
      <3> QED BY <1>3, <3>2, <3>3
    <2>3. stream' \in {"get", "yield"}
      BY <1>3
    <2> QED BY <2>1, <2>2, <2>3 DEF StreamShape
  <1>13. QueueEnds'
    <2>1. ASSUME NEW i \in 1..Len(queue')
          PROVE  /\ queue'[i].type # "audio" => i = Len(queue') /\ thread' # "working"
                 /\ queue'[i].type = "audio" => queue'[i].frames # <<>>
      <3>1. i + 1 \in 1..Len(queue) /\ queue'[i] = queue[i + 1]
        BY <1>1, <1>4, <2>1
      <3>2. i + 1 = Len(queue) => i = Len(queue')
        <4>1. Len(queue') = Len(queue) - 1 /\ Len(queue) \in Nat
          BY <1>1, <1>4
        <4>2. i \in Nat
          BY <2>1, <4>1
        <4> QED BY <4>1, <4>2
      <3> QED BY <1>0, <1>1, <1>5, <3>1, <3>2 DEF QueueEnds
    <2>2. thread' = "working" => last' = "none" /\ ~cancel'
      BY <1>0, <1>1, <1>5 DEF QueueEnds
    <2>3. thread' # "working" /\ last' = "none" =>
            queue' # <<>> /\ queue'[Len(queue')].type # "audio"
      BY <1>0, <1>1, <1>4, <1>5 DEF QueueEnds
    <2>4. thread = "working" /\ kind' \notin Bridged => queue' = <<>>
      BY <1>0, <1>1, <1>5 DEF QueueEnds
    <2> QED BY <1>1, <1>5, <2>1, <2>2, <2>3, <2>4 DEF QueueEnds
  <1> QED BY <1>8, <1>10, <1>11, <1>12, <1>13 DEF BInv

LEMMA GetSentinelBInv == ASSUME BInv, UNCHANGED kind, GetSentinel PROVE BInv'
  <1>0. /\ made \in Nat /\ made \in 0..made /\ made \in 0..MaxFrames
        /\ pieces \in 0..MaxPieces
        /\ <<>> \in Frames /\ out \in Frames /\ held \in Frames
        /\ given \in Frames /\ pending \in Frames /\ queue \in Seq(Items)
        /\ cancel \in BOOLEAN /\ passing \in BOOLEAN
        /\ thread \in {"none", "working", "settling"}
        /\ FramesInOrder /\ AllGiven /\ QueueEnds /\ StreamShape
    BY BInvFacts
  <1>1. /\ stream = "get" /\ queue # <<>> /\ Head(queue).type = "sentinel"
        /\ queue' = Tail(queue) /\ last' = "done" /\ held' = <<>>
        /\ UNCHANGED <<pieces, cancel, passing, given, thread, pending, made>>
    BY DEF GetSentinel, Gets
  <1>2. /\ Head(queue) \in Items /\ Head(queue) = queue[1]
        /\ Len(queue) \in Nat \ {0} /\ Tail(queue) \in Seq(Items)
        /\ Len(Tail(queue)) = Len(queue) - 1
    BY <1>0, <1>1, QueueLess
  <1>3. Speaking /\ last = "none" /\ out = <<>>
    BY <1>0, <1>1 DEF Speaking, StreamShape
  <1>4. Len(queue) = 1 /\ thread # "working"
    <2>1. 1 \in 1..Len(queue)
      BY <1>2
    <2> QED BY <1>0, <1>1, <1>2, <1>3, <2>1 DEF QueueEnds
  <1>5. queue' = <<>> /\ ~Raised
    BY <1>1, <1>2, <1>4, EmptyFacts DEF Raised
  <1>6. out' = held /\ stream' = IF held = <<>> THEN "finally" ELSE "yield"
    BY <1>1, <1>3 DEF GetSentinel
  <1>7. BridgeTypeOK'
    <2>1. queue' \in Seq(Items) /\ stream' \in {"yield", "finally"}
      BY <1>1, <1>2, <1>6
    <2> QED BY <1>0, <1>1, <1>6, <2>1, BridgeTypesNext
  <1>8. FramesInOrder'
    <2>1. PICK a, b, c, d \in 0..made : InOrder(a, b, c, d)
      BY <1>0, <1>3 DEF FramesInOrder
    <2>2. PICK e \in 0..made : /\ Runs(Head(queue).frames, c, e)
                               /\ Chain(queue', e, d, made)
      BY <1>0, <1>1, <2>1, ChainGet DEF InOrder
    <2>3. Head(queue).frames = <<>>
      BY <1>1, <1>2, ItemsFacts
    <2>4. a = b /\ c = e
      BY <1>3, <2>1, <2>2, <2>3, RunsEmpty DEF InOrder
    <2>5. e = d /\ d = made
      BY <1>4, <1>5, <2>1, <2>2, ChainEmpty DEF InOrder
    <2>6. Runs(<<>>, made, made) /\ Chain(<<>>, made, made, made)
      BY <1>0, RunsNone, ChainNone
    <2>7. /\ made' = made /\ Runs(given', 0, a) /\ Runs(out', a, made)
          /\ thread' # "working"
      BY <1>1, <1>4, <1>6, <2>1, <2>4, <2>5 DEF InOrder
    <2> QED BY <1>0, <1>1, <1>5, <2>1, <2>6, <2>7, OrderNext
  <1>9. AllGiven'
    BY <1>6 DEF AllGiven
  <1>10. StreamShape'
    BY <1>0, <1>1, <1>3, <1>6 DEF StreamShape
  <1>11. QueueEnds'
    <2>1. 1..Len(queue') = {}
      BY <1>5
    <2> QED BY <1>1, <1>4, <1>5, <2>1 DEF QueueEnds
  <1> QED BY <1>7, <1>8, <1>9, <1>10, <1>11 DEF BInv

(* One frame of those to be yielded, or all, reach the listener.             *)
LEMMA YieldCut ==
  ASSUME BInv, Yield
  PROVE  \E k \in 1..Len(out) :
           /\ given' = given \o SubSeq(out, 1, k)
           /\ out' = SubSeq(out, k + 1, Len(out))
  <1>1. out \in Frames /\ out # <<>>
    BY BInvFacts DEF StreamShape, Yield
  <1>2. Len(out) \in Nat \ {0}
    BY <1>1, EmptyFacts DEF Frames
  <1>3. CASE kind \in Qwen3
    <2>1. 1 \in 1..Len(out)
      BY <1>2
    <2> QED BY <1>3, <2>1 DEF Yield
  <1>4. CASE kind \notin Qwen3
    <2>1. Len(out) \in 1..Len(out)
      BY <1>2
    <2> QED BY <1>4, <2>1 DEF Yield
  <1> QED BY <1>3, <1>4

LEMMA YieldBInv == ASSUME BInv, UNCHANGED kind, Yield PROVE BInv'
  <1>0. /\ made \in Nat /\ made \in 0..made /\ made \in 0..MaxFrames
        /\ pieces \in 0..MaxPieces /\ out \in Frames /\ held \in Frames
        /\ given \in Frames /\ pending \in Frames /\ queue \in Seq(Items)
        /\ cancel \in BOOLEAN /\ passing \in BOOLEAN
        /\ last \in {"none", "done", "failed", "closed"}
        /\ thread \in {"none", "working", "settling"}
        /\ FramesInOrder /\ AllGiven /\ QueueEnds /\ StreamShape
    BY BInvFacts
  <1>1. /\ stream = "yield"
        /\ stream' = IF out' # <<>> THEN "yield"
                     ELSE IF last = "done" THEN "finally" ELSE "get"
        /\ UNCHANGED <<pieces, last, cancel, held, passing, thread, queue,
                       pending, made>>
    BY DEF Yield, threadVars
  <1>2. PICK k \in 1..Len(out) :
           /\ given' = given \o SubSeq(out, 1, k)
           /\ out' = SubSeq(out, k + 1, Len(out))
    BY YieldCut
  <1>3. Len(out) \in Nat /\ k \in Nat /\ k \in 0..Len(out)
    BY <1>0, <1>2, EmptyFacts DEF Frames
  <1>4. SubSeq(out, 1, k) \in Frames /\ out' \in Frames /\ Len(SubSeq(out, 1, k)) = k
    BY <1>0, <1>2, <1>3, SubSeqFacts DEF Frames
  <1>5. given' \in Frames
    BY <1>0, <1>2, <1>4, ConcatFacts DEF Frames
  <1>6. BridgeTypeOK'
    <2>1. stream' \in {"get", "yield", "finally"}
      BY <1>1
    <2> QED BY <1>0, <1>1, <1>4, <1>5, <2>1, BridgeTypesNext
  <1>7. Speaking /\ last \in {"none", "done"}
    BY <1>0, <1>1 DEF Speaking, StreamShape
  <1>8. FramesInOrder'
    <2>1. PICK a, b, c, d \in 0..made : InOrder(a, b, c, d)
      BY <1>0, <1>7 DEF FramesInOrder
    <2>2. /\ Runs(SubSeq(out, 1, k), a, a + k) /\ Runs(out', a + k, b)
      BY <1>0, <1>2, <1>3, <2>1, RunsCut DEF Frames, InOrder
    <2>3. Runs(given', 0, a + k)
      BY <1>0, <1>2, <1>4, <2>1, <2>2, RunsJoin DEF Frames, InOrder
    <2>4. a + k \in 0..made
      <3>1. b = (a + k) + Len(out') /\ Len(out') \in Nat
        BY <1>4, <2>2, EmptyFacts DEF Runs, Frames
      <3> QED BY <1>0, <1>3, <2>1, <3>1
    <2>5. /\ made' = made /\ Runs(held', b, c) /\ Chain(queue', c, d, made)
          /\ thread' = "working" => Runs(pending', d, made)
      BY <1>1, <2>1 DEF InOrder
    <2>6. thread' # "working" /\ ~Raised' => d = made
      BY <1>1, <2>1 DEF InOrder, Raised
    <2> QED BY <1>0, <2>1, <2>2, <2>3, <2>4, <2>5, <2>6, OrderNext
  <1>9. AllGiven'
    BY <1>1 DEF AllGiven
  <1>10. StreamShape'
    BY <1>0, <1>1, <1>7 DEF StreamShape
  <1>11. QueueEnds'
    BY <1>0, <1>1, <1>7 DEF QueueEnds
  <1> QED BY <1>6, <1>8, <1>9, <1>10, <1>11 DEF BInv

(* A new request begins where no stream is left.                             *)
LEMMA OpenStreamBInv ==
  ASSUME BInv, UNCHANGED kind, stream \in {"idle", "whole", "broken"},
         NEW n \in 0..MaxPieces, OpenStream(n)
  PROVE  BInv'
  <1>0. /\ <<>> \in Frames /\ held \in Frames /\ pending \in Frames
        /\ queue \in Seq(Items) /\ cancel \in BOOLEAN /\ passing \in BOOLEAN
        /\ thread \in {"none", "working", "settling"} /\ MaxFrames \in Nat
        /\ StreamShape
    BY BInvFacts
  <1>1. /\ pieces' = n /\ stream' = "piece" /\ last' = "none" /\ out' = <<>>
        /\ given' = <<>> /\ made' = 0
        /\ UNCHANGED <<cancel, held, passing, thread, queue, pending>>
    BY DEF OpenStream, threadVars
  <1>2. BridgeTypeOK'
    BY <1>0, <1>1, BridgeTypesNext
  <1>3. AllGiven'
    BY <1>1, RunsNone DEF AllGiven
  <1>4. ~Speaking'
    BY <1>1 DEF Speaking
  <1>5. StreamShape'
    BY <1>0, <1>1 DEF StreamShape
  <1> QED BY <1>2, <1>3, <1>4, <1>5 DEF BInv, FramesInOrder, QueueEnds

(* Everything is where it was when the process starts anew.                  *)
LEMMA FreshBInv ==
  ASSUME BridgeInit PROVE BInv
  <1>1. MaxFrames \in Nat /\ MaxPieces \in Nat /\ <<>> \in Frames
    BY ProviderAssumption DEF Frames
  <1>2. BridgeTypeOK
    <2>1. <<>> \in Seq(Items)
      OBVIOUS
    <2>2. 0 \in 0..MaxPieces /\ 0 \in 0..MaxFrames
      BY <1>1
    <2> QED BY <1>1, <2>1, <2>2 DEF BridgeInit, BridgeTypeOK, Frames
  <1>3. ~Speaking /\ AllGiven /\ StreamShape
    BY DEF BridgeInit, Speaking, AllGiven, StreamShape
  <1> QED BY <1>2, <1>3 DEF BInv, FramesInOrder, QueueEnds

LEMMA GoneBInv == ASSUME Gone PROVE BInv'
  <1>1. MaxFrames \in Nat /\ MaxPieces \in Nat /\ <<>> \in Frames
    BY ProviderAssumption DEF Frames
  <1>2. /\ pieces' = 0 /\ stream' = "idle" /\ out' = <<>> /\ last' = "none"
        /\ thread' = "none" /\ queue' = <<>> /\ cancel' = FALSE
        /\ pending' = <<>> /\ held' = <<>> /\ passing' = TRUE
        /\ made' = 0 /\ given' = <<>>
    BY DEF Gone
  <1>3. BridgeTypeOK'
    <2>1. queue' \in Seq(Items)
      BY <1>2
    <2>2. 0 \in 0..MaxPieces /\ 0 \in 0..MaxFrames
      BY <1>1
    <2> QED BY <1>1, <1>2, <2>1, <2>2, BridgeTypesNext
  <1>4. ~Speaking' /\ AllGiven' /\ StreamShape'
    BY <1>2 DEF Speaking, AllGiven, StreamShape
  <1> QED BY <1>3, <1>4 DEF BInv, FramesInOrder, QueueEnds

LEMMA StillBInv ==
  ASSUME BInv, UNCHANGED <<kind, bridgeVars>> PROVE BInv'
  <1>0. /\ BridgeTypeOK /\ FramesInOrder /\ AllGiven /\ QueueEnds /\ StreamShape
    BY DEF BInv
  <1>1. UNCHANGED <<kind, pieces, stream, out, last, cancel, held, passing, given,
                    thread, queue, pending, made>>
    BY DEF bridgeVars, threadVars, streamVars
  <1>2. BridgeTypeOK' /\ AllGiven' /\ StreamShape'
    BY <1>0, <1>1 DEF BridgeTypeOK, AllGiven, StreamShape
  <1>3. FramesInOrder'
    BY <1>0, <1>1 DEF FramesInOrder, InOrder, Speaking, Raised
  <1>4. QueueEnds'
    BY <1>0, <1>1 DEF QueueEnds, Speaking
  <1> QED BY <1>2, <1>3, <1>4 DEF BInv

LEMMA BridgeBInv == ASSUME BInv, Bridge PROVE BInv'
  <1>1. UNCHANGED kind
    BY DEF Bridge
  <1> QED BY <1>1, ThreadStepBInv, StartPieceBInv, EndOfTextBInv, GetAudioBInv,
             GetSentinelBInv, GetExceptionBInv, YieldBInv, CancelOnCloseBInv,
             FinallyBInv DEF Bridge

-----------------------------------------------------------------------------
(* The whole process keeps it, and where the serving loop is decides when a  *)
(* stream may begin.                                                         *)

(* Steps that leave the bridge alone.                                        *)
Aside ==
  \/ Start \/ PeerCloses \/ EndOfLoop \/ Warmup \/ ListVoices \/ WriteHeader
  \/ LoadModel \/ LoadFails \/ UnknownVoice \/ AsksPrompt \/ NeedsNone
  \/ ResolvePrompt \/ PromptFails \/ AudioEnd \/ SynthesisFails \/ UserEdits

LEMMA AsideStill ==
  ASSUME Aside PROVE UNCHANGED <<kind, bridgeVars>>
  <1>1. CASE Start \/ PeerCloses \/ EndOfLoop \/ Warmup \/ ListVoices \/ WriteHeader
    BY <1>1 DEF Start, PeerCloses, EndOfLoop, Warmup, ListVoices, WriteHeader
  <1>2. CASE LoadModel \/ AsksPrompt \/ NeedsNone \/ ResolvePrompt \/ UserEdits
    BY <1>2 DEF LoadModel, AsksPrompt, NeedsNone, ResolvePrompt, UserEdits
  <1>3. CASE LoadFails \/ UnknownVoice \/ PromptFails \/ AudioEnd \/ SynthesisFails
    BY <1>3 DEF LoadFails, UnknownVoice, PromptFails, AudioEnd, SynthesisFails,
                Answer
  <1> QED BY <1>1, <1>2, <1>3 DEF Aside

LEMMA NextSplits ==
  ASSUME Next
  PROVE  \/ Aside \/ Bridge \/ WriteFails \/ NothingToSay \/ Speak
         \/ Kill \/ Leave \/ LoadExits
  BY DEF Next, Synthesize, Aside

LEMMA AsideServing ==
  ASSUME ServingShape, Aside PROVE ServingShape'
  <1>1. stream' = stream
    BY AsideStill DEF bridgeVars, streamVars
  <1>2. CASE Start
    BY <1>1, <1>2 DEF Start, ServingShape
  <1>3. CASE PeerCloses
    BY <1>1, <1>3 DEF PeerCloses, ServingShape
  <1>4. CASE EndOfLoop
    BY <1>1, <1>4 DEF EndOfLoop, ServingShape
  <1>5. CASE Warmup
    BY <1>1, <1>5 DEF Warmup, ServingShape
  <1>6. CASE ListVoices
    BY <1>1, <1>6 DEF ListVoices, ServingShape
  <1>7. CASE WriteHeader
    BY <1>1, <1>7 DEF WriteHeader, Ready, ServingShape
  <1>8. CASE LoadModel
    BY <1>1, <1>8 DEF LoadModel, ServingShape
  <1>9. CASE LoadFails
    BY <1>1, <1>9 DEF LoadFails, Answer, ServingShape
  <1>10. CASE UnknownVoice
    BY <1>1, <1>10 DEF UnknownVoice, Answer, ServingShape
  <1>11. CASE AsksPrompt
    BY <1>1, <1>11 DEF AsksPrompt, Admitted, ServingShape
  <1>12. CASE NeedsNone
    BY <1>1, <1>12 DEF NeedsNone, Admitted, ServingShape
  <1>13. CASE ResolvePrompt
    BY <1>1, <1>13 DEF ResolvePrompt, procVars, ServingShape
  <1>14. CASE PromptFails
    BY <1>1, <1>14 DEF PromptFails, Answer, ServingShape
  <1>15. CASE AudioEnd
    BY <1>1, <1>15 DEF AudioEnd, Answer, ServingShape
  <1>16. CASE SynthesisFails
    BY <1>1, <1>16 DEF SynthesisFails, Answer, ServingShape
  <1>17. CASE UserEdits
    BY <1>1, <1>17 DEF UserEdits, procVars, ServingShape
  <1> QED BY <1>2, <1>3, <1>4, <1>5, <1>6, <1>7, <1>8, <1>9, <1>10, <1>11, <1>12,
             <1>13, <1>14, <1>15, <1>16, <1>17 DEF Aside

(* The generator moves only where a stream is under way.                     *)
LEMMA BridgeServing ==
  ASSUME StreamShape, ServingShape, Bridge PROVE ServingShape'
  <1>1. UNCHANGED procVars /\ life # "down"
    BY DEF Bridge
  <1>2. UNCHANGED <<life, phase, link>>
    BY <1>1 DEF procVars
  <1>3. stream \notin {"idle", "whole", "broken"} \/ stream' = stream
    <2>1. CASE ThreadStep
      BY <2>1 DEF ThreadStep, Qwen3Yields, Qwen3Cancelled, PocketYields, MossFrame,
                  ThreadEnds, ThreadRaises, PieceComputed, ThreadSettles, streamVars
    <2>2. CASE StartPiece \/ EndOfText \/ GetAudio \/ GetSentinel \/ GetException
      BY <2>2 DEF StartPiece, EndOfText, GetAudio, GetSentinel, GetException, Gets
    <2>3. CASE Yield \/ CancelOnClose \/ Finally
      BY <2>3 DEF Yield, CancelOnClose, Finally
    <2> QED BY <2>1, <2>2, <2>3 DEF Bridge
  <1> QED BY <1>1, <1>2, <1>3 DEF ServingShape

LEMMA GoneServing == ASSUME Gone PROVE ServingShape'
  BY DEF Gone, ServingShape

LEMMA SpeaksServing ==
  ASSUME BInv, ServingShape, Speak \/ NothingToSay PROVE BInv' /\ ServingShape'
  <1>1. /\ UNCHANGED <<kind, life, link>> /\ life = "up"
        /\ phase \in {"prompt", "load"} /\ phase' = "stream"
    BY DEF Speak, NothingToSay, Admitted
  <1>2. stream \in {"idle", "whole", "broken"}
    BY <1>1 DEF ServingShape
  <1>3. PICK n \in 0..MaxPieces : OpenStream(n)
    <2>1. MaxPieces \in Nat \ {0}
      BY ProviderAssumption
    <2>2. CASE NothingToSay
      <3>1. 0 \in 0..MaxPieces
        BY <2>1
      <3> QED BY <2>2, <3>1 DEF NothingToSay
    <2>3. CASE Speak
      <3>1. {1} \subseteq 0..MaxPieces /\ 1..MaxPieces \subseteq 0..MaxPieces
        BY <2>1
      <3> QED BY <2>3, <3>1 DEF Speak
    <2> QED BY <2>2, <2>3
  <1>4. BInv'
    BY <1>1, <1>2, <1>3, OpenStreamBInv
  <1> QED BY <1>1, <1>4 DEF ServingShape

LEMMA WriteFailsKeeps ==
  ASSUME BInv, ServingShape, WriteFails PROVE BInv' /\ ServingShape'
  <1>1. /\ CloseStream /\ UNCHANGED <<kind, life, link>> /\ link = "broken"
        /\ life = "up" /\ phase' = "ready"
    BY DEF WriteFails
  <1> QED BY <1>1, CloseStreamBInv DEF ServingShape

(* The inductive invariant of the serving loop and its bridge: where each    *)
(* frame of a request is, how the queue ends, and when a stream may begin.   *)
ProviderInvariants == BInv /\ ServingShape

THEOREM BridgeInvariant == Spec => []ProviderInvariants
  <1>1. ASSUME Init PROVE ProviderInvariants
    BY <1>1, FreshBInv DEF Init, ServingShape, BridgeInit, ProviderInvariants
  <1>2. ASSUME ProviderInvariants, [Next]_vars PROVE ProviderInvariants'
    <2>0. BInv /\ ServingShape /\ StreamShape
      BY <1>2 DEF ProviderInvariants, BInv
    <2>1. CASE UNCHANGED vars
      <3>1. UNCHANGED <<kind, bridgeVars>> /\ UNCHANGED <<life, phase, link, stream>>
        BY <2>1 DEF vars, procVars, bridgeVars, streamVars
      <3> QED BY <2>0, <3>1, StillBInv DEF ServingShape, ProviderInvariants
    <2>2. CASE Aside
      BY <2>0, <2>2, AsideStill, AsideServing, StillBInv DEF ProviderInvariants
    <2>3. CASE Bridge
      BY <2>0, <2>3, BridgeBInv, BridgeServing DEF ProviderInvariants
    <2>4. CASE Speak \/ NothingToSay
      BY <2>0, <2>4, SpeaksServing DEF ProviderInvariants
    <2>5. CASE WriteFails
      BY <2>0, <2>5, WriteFailsKeeps DEF ProviderInvariants
    <2>6. CASE Kill \/ Leave \/ LoadExits
      BY <2>6, GoneBInv, GoneServing
         DEF Kill, Leave, LoadExits, ProviderInvariants
    <2> QED BY <1>2, <2>1, <2>2, <2>3, <2>4, <2>5, <2>6, NextSplits
  <1> QED BY <1>1, <1>2, PTL DEF Spec

-----------------------------------------------------------------------------
(* A thread is started only for a piece, and no piece begins before the      *)
(* finally of the last one has seen its thread settled.                      *)
THEOREM OneThreadAtATime == Spec => ThreadAlone
  <1>1. ASSUME ProviderInvariants, [Next]_vars
        PROVE  [thread' = "working" /\ thread # "working" => thread = "none"]_thread
    <2> SUFFICES ASSUME thread' # thread, thread' = "working"
                 PROVE  thread = "none"
      OBVIOUS
    <2>0. StreamShape
      BY <1>1 DEF ProviderInvariants, BInv
    <2>1. Next
      BY <1>1 DEF vars, bridgeVars, threadVars
    <2>2. ~Aside
      BY AsideStill DEF bridgeVars, threadVars
    <2>3. ~(Speak \/ NothingToSay \/ WriteFails)
      BY DEF Speak, NothingToSay, WriteFails, OpenStream, CloseStream, threadVars
    <2>4. ~(Kill \/ Leave \/ LoadExits)
      BY DEF Kill, Leave, LoadExits, Gone
    <2>5. Bridge
      BY <2>1, <2>2, <2>3, <2>4, NextSplits
    <2>6. ~ThreadStep
      BY DEF ThreadStep, Qwen3Yields, Qwen3Cancelled, PocketYields, MossFrame,
             ThreadEnds, ThreadRaises, PieceComputed, ThreadSettles, Makes
    <2>7. ~(\/ EndOfText \/ GetAudio \/ GetSentinel \/ GetException \/ Yield
            \/ CancelOnClose \/ Finally)
      BY DEF EndOfText, GetAudio, GetSentinel, GetException, Yield, CancelOnClose,
             Finally, threadVars
    <2>8. StartPiece
      BY <2>5, <2>6, <2>7 DEF Bridge
    <2> QED BY <2>0, <2>8 DEF StreamShape, StartPiece
  <1> QED BY <1>1, BridgeInvariant, PTL DEF ThreadAlone, Spec

-----------------------------------------------------------------------------
(* The refinement of AudioStream.                                            *)

LEMMA StatusIs ==
  /\ stream = "idle" => Status = "idle"
  /\ stream = "whole" => Status = "whole"
  /\ stream = "broken" => Status = "broken"
  /\ stream = "finally" /\ last # "done" => Status = "broken"
  /\ stream = "finally" /\ last = "done" => Status = "going"
  /\ stream \in {"piece", "get", "yield"} => Status = "going"
  BY DEF Status

LEMMA StatusIsNext ==
  /\ stream' = "idle" => Status' = "idle"
  /\ stream' = "whole" => Status' = "whole"
  /\ stream' = "broken" => Status' = "broken"
  /\ stream' = "finally" /\ last' # "done" => Status' = "broken"
  /\ stream' = "finally" /\ last' = "done" => Status' = "going"
  /\ stream' \in {"piece", "get", "yield"} => Status' = "going"
  BY DEF Status

(* The listener hears nothing of a step that keeps these three.              *)
LEMMA Unheard ==
  ASSUME made' = made, given' = given, Status' = Status
  PROVE  [Stream!Next]_(Stream!vars)
  BY DEF Stream!vars

(* The thread makes a frame of a stream that is not whole, or does nothing   *)
(* that the listener could tell.                                             *)
LEMMA ThreadStepMaps ==
  ASSUME BInv, ThreadStep PROVE [Stream!Next]_(Stream!vars)
  <1>1. UNCHANGED streamVars /\ thread # "none"
    BY DEF ThreadStep, Qwen3Yields, Qwen3Cancelled, PocketYields, MossFrame,
           ThreadEnds, ThreadRaises, PieceComputed, ThreadSettles, Makes
  <1>2. given' = given /\ stream' = stream /\ last' = last
    BY <1>1 DEF streamVars
  <1>3. Status' = Status
    BY <1>2 DEF Status
  <1>4. made' = made \/ Makes
    BY DEF ThreadStep, Qwen3Yields, Qwen3Cancelled, PocketYields, MossFrame,
           ThreadEnds, ThreadRaises, PieceComputed, ThreadSettles
  <1>5. Status # "whole"
    <2>1. stream \in {"get", "yield", "finally"}
      BY <1>1, BInvFacts DEF StreamShape
    <2> QED BY <2>1, StatusIs
  <1>6. CASE Makes
    BY <1>2, <1>3, <1>5, <1>6 DEF Makes, Stream!Next, Stream!Make
  <1> QED BY <1>2, <1>3, <1>4, <1>6, Unheard

(* A yield gives the next frames, and no other.                              *)
LEMMA YieldMaps ==
  ASSUME BInv, UNCHANGED kind, Yield PROVE Stream!Give
  <1>0. /\ made \in Nat /\ FramesInOrder /\ StreamShape
        /\ out \in Frames /\ given \in Frames
    BY BInvFacts
  <1>1. BInv'
    BY YieldBInv
  <1>2. /\ stream = "yield" /\ UNCHANGED <<last, made>>
        /\ stream' = IF out' # <<>> THEN "yield"
                     ELSE IF last = "done" THEN "finally" ELSE "get"
    BY DEF Yield
  <1>3. Status = "going" /\ Status' = "going"
    <2>1. stream' \in {"yield", "get"} \/ (stream' = "finally" /\ last' = "done")
      BY <1>2
    <2> QED BY <1>2, <2>1, StatusIs, StatusIsNext
  <1>4. PICK a, b, c, d \in 0..made : InOrder(a, b, c, d)
    BY <1>0, <1>2 DEF FramesInOrder, Speaking
  <1>5. PICK k \in 1..Len(out) :
           /\ given' = given \o SubSeq(out, 1, k)
           /\ out' = SubSeq(out, k + 1, Len(out))
    BY YieldCut
  <1>6. Len(out) \in Nat /\ k \in Nat /\ k \in 0..Len(out) /\ k > 0
    BY <1>0, <1>5, EmptyFacts DEF Frames
  <1>7. SubSeq(out, 1, k) \in Frames /\ Len(SubSeq(out, 1, k)) = k
    BY <1>0, <1>5, <1>6, SubSeqFacts DEF Frames
  <1>8. Runs(SubSeq(out, 1, k), a, a + k)
    BY <1>0, <1>4, <1>6, RunsCut DEF Frames, InOrder
  <1>9. Runs(given', 0, a + k) /\ given' \in Frames
    BY <1>0, <1>4, <1>5, <1>7, <1>8, RunsJoin, ConcatFacts DEF Frames, InOrder
  <1>10. given' = [i \in 1..(a + k) |-> i]
    BY <1>9, RunsWhole DEF Frames
  <1>11. Len(given) = a
    BY <1>0, <1>4, RunsWhole DEF Frames, InOrder
  <1>12. a + k \in (Len(given) + 1)..made
    <2>1. b = a + Len(out)
      BY <1>4 DEF InOrder, Runs
    <2> QED BY <1>0, <1>4, <1>5, <1>6, <1>11, <2>1
  <1>13. \E n \in (Len(given) + 1)..made : given' = [i \in 1..n |-> i]
    BY <1>10, <1>12
  <1> QED BY <1>2, <1>3, <1>13 DEF Stream!Give

(* The end of the text is reached when every frame has been given.           *)
LEMMA EndOfTextMaps ==
  ASSUME BInv, EndOfText PROVE Stream!Complete
  <1>1. /\ stream = "piece" /\ stream' = "whole" /\ given' = given /\ made' = made
    BY DEF EndOfText
  <1>2. Runs(given, 0, made) /\ given \in Frames
    BY <1>1, BInvFacts DEF AllGiven
  <1>3. Len(given) = made
    BY <1>2, RunsWhole DEF Frames
  <1> QED BY <1>1, <1>3, StatusIs, StatusIsNext DEF Stream!Complete

LEMMA BridgeMaps ==
  ASSUME BInv, Bridge PROVE [Stream!Next]_(Stream!vars)
  <1>0. UNCHANGED kind /\ StreamShape /\ QueueEnds
    BY BInvFacts DEF Bridge
  <1>1. CASE ThreadStep
    BY <1>1, ThreadStepMaps
  <1>2. CASE StartPiece
    BY <1>2, StatusIs, StatusIsNext, Unheard DEF StartPiece
  <1>3. CASE EndOfText
    BY <1>3, EndOfTextMaps DEF Stream!Next
  <1>4. CASE GetAudio
    <2>1. stream = "get" /\ stream' \in {"get", "yield"}
          /\ given' = given /\ made' = made
      BY <1>4 DEF GetAudio, Gets
    <2> QED BY <2>1, StatusIs, StatusIsNext, Unheard
  <1>5. CASE GetSentinel
    <2>1. /\ stream = "get" /\ stream' \in {"finally", "yield"} /\ last' = "done"
          /\ given' = given /\ made' = made
      BY <1>5 DEF GetSentinel, Gets
    <2> QED BY <2>1, StatusIs, StatusIsNext, Unheard
  <1>6. CASE GetException
    <2>1. /\ stream = "get" /\ stream' = "finally" /\ last' = "failed"
          /\ given' = given /\ made' = made
      BY <1>6 DEF GetException, Gets
    <2>2. Stream!Break
      BY <2>1, StatusIs, StatusIsNext DEF Stream!Break
    <2> QED BY <2>2 DEF Stream!Next
  <1>7. CASE Yield
    BY <1>0, <1>7, YieldMaps DEF Stream!Next
  <1>8. CASE CancelOnClose
    <2>1. stream' = stream /\ last' = last /\ given' = given /\ made' = made
      BY <1>8 DEF CancelOnClose
    <2>2. Status' = Status
      BY <2>1 DEF Status
    <2> QED BY <2>1, <2>2, Unheard
  <1>9. CASE Finally
    <2>1. /\ stream = "finally" /\ given' = given /\ made' = made
          /\ stream' = IF last = "done" THEN "piece" ELSE "broken"
      BY <1>9 DEF Finally
    <2> QED BY <2>1, StatusIs, StatusIsNext, Unheard
  <1> QED BY <1>1, <1>2, <1>3, <1>4, <1>5, <1>6, <1>7, <1>8, <1>9 DEF Bridge

(* A provider of any kind is an AudioStream: what the listener is given of   *)
(* a request is, at every moment, a beginning of what the model made, and    *)
(* all of it when the loop sends audio_end.                                  *)
THEOREM ProviderKeepsPromise == Spec => Promise
  <1>1. Init => Stream!Init
    BY StatusIs DEF Init, BridgeInit, Stream!Init
  <1>2. ASSUME ProviderInvariants, [Next]_vars PROVE [Stream!Next]_(Stream!vars)
    <2>0. BInv /\ ServingShape
      BY <1>2 DEF ProviderInvariants
    <2>1. CASE UNCHANGED vars \/ Aside
      <3>1. UNCHANGED bridgeVars
        BY <2>1, AsideStill DEF vars
      <3>2. made' = made /\ given' = given /\ stream' = stream /\ last' = last
        BY <3>1 DEF bridgeVars, streamVars
      <3>3. Status' = Status
        BY <3>2 DEF Status
      <3> QED BY <3>2, <3>3, Unheard
    <2>2. CASE Bridge
      BY <2>0, <2>2, BridgeMaps
    <2>3. CASE Speak \/ NothingToSay
      <3>1. stream \in {"idle", "whole", "broken"}
        BY <2>0, <2>3 DEF ServingShape, Speak, NothingToSay, Admitted
      <3>2. made' = 0 /\ given' = <<>> /\ stream' = "piece"
        BY <2>3 DEF Speak, NothingToSay, OpenStream
      <3>3. Stream!Open
        BY <3>1, <3>2, StatusIs, StatusIsNext DEF Stream!Open
      <3> QED BY <3>3 DEF Stream!Next
    <2>4. CASE WriteFails
      <3>1. /\ stream = "yield" /\ stream' = "finally" /\ last' = "closed"
            /\ given' = given /\ made' = made
        BY <2>4 DEF WriteFails, CloseStream
      <3>2. Stream!Break
        BY <3>1, StatusIs, StatusIsNext DEF Stream!Break
      <3> QED BY <3>2 DEF Stream!Next
    <2>5. CASE Kill \/ Leave \/ LoadExits
      <3>1. made' = 0 /\ given' = <<>> /\ stream' = "idle"
        BY <2>5 DEF Kill, Leave, LoadExits, Gone
      <3>2. Stream!Vanish
        BY <3>1, StatusIsNext DEF Stream!Vanish
      <3> QED BY <3>2 DEF Stream!Next
    <2> QED BY <1>2, <2>1, <2>2, <2>3, <2>4, <2>5, NextSplits
  <1> QED BY <1>1, <1>2, BridgeInvariant, PTL DEF Spec, Promise, Stream!Spec

-----------------------------------------------------------------------------
(* Part two: the prompt caches.                                              *)

(* A clip that is there is the newest version, and newer than all that was   *)
(* ever asked of it.                                                         *)
ClipIsNewest ==
  /\ clip \in {0, edits} /\ asked <= edits /\ key <= edits
  /\ since <= edits + 1 /\ (clip # 0 => since <= edits)

(* The clip may be replaced after its stat() and before the model reads it,  *)
(* so that a prompt can be newer than the version its name tells: never      *)
(* older.                                                                    *)
KeysAreLower ==
  /\ \A f \in files : f.key <= f.made
  /\ \A m \in memory : m.key <= m.made

MemoryIsRecent ==
  /\ life = "down" => memory = {}
  /\ kind # "pocket" => \A m \in memory : since <= m.made

Bound == IF kind = "pocket" THEN asked ELSE since

(* The request's prompt, from the moment it is made to the moment it is used *)
PromptIsRecent ==
  /\ phase = "prompt" /\ step \in {"sweep", "save"} =>
       key # 0 /\ used \in Versions /\ key <= used /\ Bound <= used
  /\ phase = "prompt" /\ step = "build" /\ kind = "pocket" => key # 0
  /\ phase = "prompt" /\ step = "have" /\ used # 0 => Bound <= used

CInv == /\ CacheTypeOK /\ ClipIsNewest /\ KeysAreLower
        /\ MemoryIsRecent /\ PromptIsRecent

-----------------------------------------------------------------------------

LEMMA CacheFacts ==
  ASSUME CInv
  PROVE  /\ CacheTypeOK /\ ClipIsNewest /\ KeysAreLower /\ MemoryIsRecent
         /\ PromptIsRecent
         /\ MaxEdits \in Nat /\ edits \in Nat /\ 1 <= edits /\ edits <= MaxEdits + 1
         /\ clip \in Nat /\ key \in Nat /\ used \in Nat /\ since \in Nat
         /\ asked \in Nat /\ used <= MaxEdits + 2
         /\ \A f \in files : /\ f.key \in Nat /\ f.made \in Nat /\ 1 <= f.key
                             /\ 1 <= f.made /\ f.made <= MaxEdits + 1
         /\ \A m \in memory : /\ m.key \in Nat /\ m.made \in Nat
                              /\ 1 <= m.made /\ m.made <= MaxEdits + 1
  BY ProviderAssumption DEF CInv, CacheTypeOK, Versions

(* One prompt in memory, of a version that is there.                         *)
LEMMA OnePrompt ==
  ASSUME NEW k \in Versions \cup {0}, NEW v \in Versions
  PROVE  /\ {[key |-> k, made |-> v]} \subseteq
                [key : Versions \cup {0}, made : Versions]
         /\ \A m \in {[key |-> k, made |-> v]} : m.key = k /\ m.made = v
  OBVIOUS

LEMMA OneFile ==
  ASSUME NEW k \in Versions, NEW v \in Versions, NEW w \in BOOLEAN
  PROVE  [key |-> k, made |-> v, whole |-> w] \in
           [key : Versions, made : Versions, whole : BOOLEAN]
  OBVIOUS

(* The steps of resolving a prompt keep the invariant.                       *)

LEMMA RecallCInv ==
  ASSUME CInv, UNCHANGED <<kind, life, phase>>, phase = "prompt", life = "up",
         Recall
  PROVE  CInv'
  <1>1. CacheTypeOK'
    BY CacheFacts DEF CacheTypeOK, Versions, Steps, ClipIsNewest, PromptIsRecent,
                      Recall, Has, Fails
  <1>2. ClipIsNewest'
    BY CacheFacts DEF ClipIsNewest, Recall, Has, Fails
  <1>3. KeysAreLower'
    BY CacheFacts DEF ClipIsNewest, KeysAreLower, PromptIsRecent, Recall, Has, Fails
  <1>4. MemoryIsRecent'
    BY CacheFacts DEF ClipIsNewest, KeysAreLower, MemoryIsRecent, Recall, Has, Fails
  <1>5. PromptIsRecent'
    BY CacheFacts DEF ClipIsNewest, KeysAreLower, MemoryIsRecent, PromptIsRecent,
                      Bound,
       Recall, Has, Fails
  <1> QED BY <1>1, <1>2, <1>3, <1>4, <1>5 DEF CInv

LEMMA EncodeClipCInv ==
  ASSUME CInv, UNCHANGED <<kind, life, phase>>, phase = "prompt", life = "up",
         EncodeClip
  PROVE  CInv'
  <1>1. CacheTypeOK'
    BY CacheFacts DEF CacheTypeOK, Versions, Steps, ClipIsNewest, PromptIsRecent,
                      EncodeClip, Has, Fails
  <1>2. ClipIsNewest'
    BY CacheFacts DEF ClipIsNewest, EncodeClip, Has, Fails
  <1>3. KeysAreLower'
    BY CacheFacts DEF ClipIsNewest, KeysAreLower, PromptIsRecent, EncodeClip, Has,
                      Fails
  <1>4. MemoryIsRecent'
    BY CacheFacts DEF ClipIsNewest, KeysAreLower, MemoryIsRecent, EncodeClip, Has,
                      Fails
  <1>5. PromptIsRecent'
    BY CacheFacts DEF ClipIsNewest, KeysAreLower, MemoryIsRecent, PromptIsRecent,
                      Bound,
       EncodeClip, Has, Fails
  <1> QED BY <1>1, <1>2, <1>3, <1>4, <1>5 DEF CInv

LEMMA LookUpCInv ==
  ASSUME CInv, UNCHANGED <<kind, life, phase>>, phase = "prompt", life = "up",
         LookUp
  PROVE  CInv'
  <1>1. CacheTypeOK'
    BY CacheFacts DEF CacheTypeOK, Versions, Steps, ClipIsNewest, PromptIsRecent,
                      LookUp, CachedFile, Has, Fails
  <1>2. ClipIsNewest'
    BY CacheFacts DEF ClipIsNewest, LookUp, CachedFile, Has, Fails
  <1>3. KeysAreLower'
    BY CacheFacts DEF ClipIsNewest, KeysAreLower, PromptIsRecent, LookUp,
                      CachedFile, Has, Fails
  <1>4. MemoryIsRecent'
    BY CacheFacts DEF ClipIsNewest, KeysAreLower, MemoryIsRecent, LookUp,
                      CachedFile, Has, Fails
  <1>5. PromptIsRecent'
    BY CacheFacts DEF ClipIsNewest, KeysAreLower, MemoryIsRecent, PromptIsRecent,
                      Bound,
       LookUp, CachedFile, Has, Fails
  <1> QED BY <1>1, <1>2, <1>3, <1>4, <1>5 DEF CInv

LEMMA BuildCInv ==
  ASSUME CInv, UNCHANGED <<kind, life, phase>>, phase = "prompt", life = "up", Build
  PROVE  CInv'
  <1>1. CacheTypeOK'
    BY CacheFacts DEF CacheTypeOK, Versions, Steps, ClipIsNewest, PromptIsRecent,
                      Build, Has, Fails
  <1>2. ClipIsNewest'
    BY CacheFacts DEF ClipIsNewest, Build, Has, Fails
  <1>3. KeysAreLower'
    BY CacheFacts DEF ClipIsNewest, KeysAreLower, PromptIsRecent, Build, Has, Fails
  <1>4. MemoryIsRecent'
    BY CacheFacts DEF ClipIsNewest, KeysAreLower, MemoryIsRecent, Build, Has, Fails
  <1>5. PromptIsRecent'
    <2>1. clip # 0 => clip \in Versions
      BY CacheFacts DEF CacheTypeOK
    <2> QED BY <2>1, CacheFacts DEF ClipIsNewest, PromptIsRecent, Bound, Build, Fails
  <1> QED BY <1>1, <1>2, <1>3, <1>4, <1>5 DEF CInv

LEMMA SaveBeginsCInv ==
  ASSUME CInv, UNCHANGED <<kind, life, phase>>, phase = "prompt", life = "up",
         SaveBegins
  PROVE  CInv'
  <1>1. CacheTypeOK'
    <2>1. key \in Versions /\ used \in Versions
      BY CacheFacts DEF ClipIsNewest, PromptIsRecent, Versions, SaveBegins
    <2>2. \A w \in BOOLEAN : [key |-> key, made |-> used, whole |-> w] \in
                              [key : Versions, made : Versions, whole : BOOLEAN]
      BY <2>1, OneFile
    <2>3. files \subseteq [key : Versions, made : Versions, whole : BOOLEAN]
      BY CacheFacts DEF CacheTypeOK
    <2>4. files' \subseteq [key : Versions, made : Versions, whole : BOOLEAN]
      BY <2>2, <2>3 DEF SaveBegins
    <2>5. memory' \subseteq [key : Versions \cup {0}, made : Versions]
      BY <2>1, CacheFacts, OnePrompt DEF CacheTypeOK, SaveBegins
    <2>6. step' \in Steps /\ UNCHANGED <<clip, edits, key, used, since, asked>>
      BY DEF SaveBegins, Steps
    <2> QED BY <2>4, <2>5, <2>6, CacheFacts DEF CacheTypeOK
  <1>2. ClipIsNewest'
    BY CacheFacts DEF ClipIsNewest, SaveBegins, Has, Fails
  <1>3. KeysAreLower'
    BY CacheFacts DEF ClipIsNewest, KeysAreLower, PromptIsRecent, SaveBegins, Has,
                      Fails
  <1>4. MemoryIsRecent'
    BY CacheFacts DEF ClipIsNewest, KeysAreLower, MemoryIsRecent, SaveBegins, Has,
                      Fails
  <1>5. PromptIsRecent'
    BY CacheFacts DEF ClipIsNewest, KeysAreLower, MemoryIsRecent, PromptIsRecent,
                      Bound,
       SaveBegins, Has, Fails
  <1> QED BY <1>1, <1>2, <1>3, <1>4, <1>5 DEF CInv

LEMMA RecallStateCInv ==
  ASSUME CInv, UNCHANGED <<kind, life, phase>>, phase = "prompt", life = "up",
         RecallState
  PROVE  CInv'
  <1>1. CacheTypeOK'
    BY CacheFacts DEF CacheTypeOK, Versions, Steps, ClipIsNewest, PromptIsRecent,
                      RecallState, Has, Fails
  <1>2. ClipIsNewest'
    BY CacheFacts DEF ClipIsNewest, RecallState, Has, Fails
  <1>3. KeysAreLower'
    BY CacheFacts DEF ClipIsNewest, KeysAreLower, PromptIsRecent, RecallState,
                      Has, Fails
  <1>4. MemoryIsRecent'
    BY CacheFacts DEF ClipIsNewest, KeysAreLower, MemoryIsRecent, RecallState,
                      Has, Fails
  <1>5. PromptIsRecent'
    BY CacheFacts DEF ClipIsNewest, KeysAreLower, MemoryIsRecent, PromptIsRecent,
                      Bound,
       RecallState, Has, Fails
  <1> QED BY <1>1, <1>2, <1>3, <1>4, <1>5 DEF CInv

LEMMA LookUpStateCInv ==
  ASSUME CInv, UNCHANGED <<kind, life, phase>>, phase = "prompt", life = "up",
         LookUpState
  PROVE  CInv'
  <1>1. CacheTypeOK'
    BY CacheFacts DEF CacheTypeOK, Versions, Steps, ClipIsNewest, PromptIsRecent,
                      LookUpState, CachedFile, Has, Fails
  <1>2. ClipIsNewest'
    BY CacheFacts DEF ClipIsNewest, LookUpState, CachedFile, Has, Fails
  <1>3. KeysAreLower'
    BY CacheFacts DEF ClipIsNewest, KeysAreLower, PromptIsRecent, LookUpState,
                      CachedFile, Has, Fails
  <1>4. MemoryIsRecent'
    BY CacheFacts DEF ClipIsNewest, KeysAreLower, MemoryIsRecent, LookUpState,
                      CachedFile, Has, Fails
  <1>5. PromptIsRecent'
    BY CacheFacts DEF ClipIsNewest, KeysAreLower, MemoryIsRecent, PromptIsRecent,
                      Bound,
       LookUpState, CachedFile, Has, Fails
  <1> QED BY <1>1, <1>2, <1>3, <1>4, <1>5 DEF CInv

LEMMA EncodeStateCInv ==
  ASSUME CInv, UNCHANGED <<kind, life, phase>>, phase = "prompt", life = "up",
         EncodeState
  PROVE  CInv'
  <1>1. CacheTypeOK'
    BY CacheFacts DEF CacheTypeOK, Versions, Steps, ClipIsNewest, PromptIsRecent,
                      EncodeState, Has, Fails
  <1>2. ClipIsNewest'
    BY CacheFacts DEF ClipIsNewest, EncodeState, Has, Fails
  <1>3. KeysAreLower'
    BY CacheFacts DEF ClipIsNewest, KeysAreLower, PromptIsRecent, EncodeState,
                      Has, Fails
  <1>4. MemoryIsRecent'
    BY CacheFacts DEF ClipIsNewest, KeysAreLower, MemoryIsRecent, EncodeState,
                      Has, Fails
  <1>5. PromptIsRecent'
    <2>1. clip # 0 => clip \in Versions
      BY CacheFacts DEF CacheTypeOK
    <2> QED BY <2>1, CacheFacts DEF ClipIsNewest, PromptIsRecent, Bound, EncodeState, Fails
  <1> QED BY <1>1, <1>2, <1>3, <1>4, <1>5 DEF CInv

LEMMA ExportBeginsCInv ==
  ASSUME CInv, UNCHANGED <<kind, life, phase>>, phase = "prompt", life = "up",
         ExportBegins
  PROVE  CInv'
  <1>1. CacheTypeOK'
    <2>1. key \in Versions /\ used \in Versions
      BY CacheFacts DEF ClipIsNewest, PromptIsRecent, Versions, ExportBegins
    <2>2. \A w \in BOOLEAN : [key |-> key, made |-> used, whole |-> w] \in
                              [key : Versions, made : Versions, whole : BOOLEAN]
      BY <2>1, OneFile
    <2>3. files \subseteq [key : Versions, made : Versions, whole : BOOLEAN]
      BY CacheFacts DEF CacheTypeOK
    <2>4. files' \subseteq [key : Versions, made : Versions, whole : BOOLEAN]
      BY <2>2, <2>3 DEF ExportBegins
    <2>5. memory' \subseteq [key : Versions \cup {0}, made : Versions]
      BY <2>1, CacheFacts, OnePrompt DEF CacheTypeOK, ExportBegins
    <2>6. step' \in Steps /\ UNCHANGED <<clip, edits, key, used, since, asked>>
      BY DEF ExportBegins, Steps
    <2> QED BY <2>4, <2>5, <2>6, CacheFacts DEF CacheTypeOK
  <1>2. ClipIsNewest'
    BY CacheFacts DEF ClipIsNewest, ExportBegins, Has, Fails
  <1>3. KeysAreLower'
    BY CacheFacts DEF ClipIsNewest, KeysAreLower, PromptIsRecent, ExportBegins,
                      Has, Fails
  <1>4. MemoryIsRecent'
    BY CacheFacts DEF ClipIsNewest, KeysAreLower, MemoryIsRecent, ExportBegins,
                      Has, Fails
  <1>5. PromptIsRecent'
    BY CacheFacts DEF ClipIsNewest, KeysAreLower, MemoryIsRecent, PromptIsRecent,
                      Bound,
       ExportBegins, Has, Fails
  <1> QED BY <1>1, <1>2, <1>3, <1>4, <1>5 DEF CInv

LEMMA SaveEndsCInv ==
  ASSUME CInv, UNCHANGED <<kind, life, phase>>, phase = "prompt", life = "up",
         SaveEnds
  PROVE  CInv'
  <1>1. CacheTypeOK'
    <2>1. key \in Versions /\ used \in Versions
      BY CacheFacts DEF ClipIsNewest, PromptIsRecent, Versions, SaveEnds
    <2>2. \A w \in BOOLEAN : [key |-> key, made |-> used, whole |-> w] \in
                              [key : Versions, made : Versions, whole : BOOLEAN]
      BY <2>1, OneFile
    <2>3. files \subseteq [key : Versions, made : Versions, whole : BOOLEAN]
      BY CacheFacts DEF CacheTypeOK
    <2>4. files' \subseteq [key : Versions, made : Versions, whole : BOOLEAN]
      BY <2>2, <2>3 DEF SaveEnds
    <2>5. memory' \subseteq [key : Versions \cup {0}, made : Versions]
      BY <2>1, CacheFacts, OnePrompt DEF CacheTypeOK, SaveEnds
    <2>6. step' \in Steps /\ UNCHANGED <<clip, edits, key, used, since, asked>>
      BY DEF SaveEnds, Steps
    <2> QED BY <2>4, <2>5, <2>6, CacheFacts DEF CacheTypeOK
  <1>2. ClipIsNewest'
    BY CacheFacts DEF ClipIsNewest, SaveEnds, Has, Fails
  <1>3. KeysAreLower'
    BY CacheFacts DEF ClipIsNewest, KeysAreLower, PromptIsRecent, SaveEnds, Has,
                      Fails
  <1>4. MemoryIsRecent'
    BY CacheFacts DEF ClipIsNewest, KeysAreLower, MemoryIsRecent, SaveEnds, Has,
                      Fails
  <1>5. PromptIsRecent'
    BY CacheFacts DEF ClipIsNewest, KeysAreLower, MemoryIsRecent, PromptIsRecent,
                      Bound,
       SaveEnds, Has, Fails
  <1> QED BY <1>1, <1>2, <1>3, <1>4, <1>5 DEF CInv

-----------------------------------------------------------------------------
(* The rest of the process.                                                  *)

(* Neither the clip nor the prompts are touched.                             *)
LEMMA StillCInv ==
  ASSUME CInv, UNCHANGED <<kind, cacheVars>>, life' = "down" => life = "down",
         phase' = phase \/ phase' # "prompt"
  PROVE  CInv'
  <1>1. UNCHANGED <<clip, edits, files, memory, step, key, used, since, asked>>
    BY DEF cacheVars
  <1>2. CacheTypeOK' /\ ClipIsNewest' /\ KeysAreLower'
    BY <1>1, CacheFacts DEF CacheTypeOK, ClipIsNewest, KeysAreLower
  <1>3. MemoryIsRecent'
    BY <1>1, CacheFacts DEF MemoryIsRecent
  <1>4. PromptIsRecent'
    BY <1>1, CacheFacts DEF PromptIsRecent, Bound
  <1> QED BY <1>2, <1>3, <1>4 DEF CInv

(* The request is over, and with it its prompt.                              *)
LEMMA DoneCInv ==
  ASSUME CInv, UNCHANGED kind, PromptDone, life' = life, phase' # "prompt"
  PROVE  CInv'
  <1>1. /\ step' = "no" /\ key' = 0 /\ used' = 0 /\ asked' = 0
        /\ UNCHANGED <<clip, edits, files, memory, since>>
    BY DEF PromptDone
  <1>2. CacheTypeOK' /\ ClipIsNewest' /\ KeysAreLower'
    BY <1>1, CacheFacts DEF CacheTypeOK, ClipIsNewest, KeysAreLower, Steps
  <1>3. MemoryIsRecent' /\ PromptIsRecent'
    BY <1>1, CacheFacts DEF MemoryIsRecent, PromptIsRecent
  <1> QED BY <1>2, <1>3 DEF CInv

(* An empty place is found, or a prompt is made of the clip that is there.   *)
LEMMA LookedCInv ==
  ASSUME CInv, life = "up", phase = "ready",
         UNCHANGED <<kind, clip, edits, files, step, key, used, asked, life, phase>>,
         \/ UNCHANGED <<memory, since>>
         \/ Prune
         \/ clip # 0 /\ since' = since /\ memory' = {[key |-> 0, made |-> clip]}
  PROVE  CInv'
  <1>0. clip # 0 => clip \in Versions
    BY CacheFacts DEF CacheTypeOK
  <1>1. CacheTypeOK'
    <2>1. since' \in 0..(MaxEdits + 2)
      BY CacheFacts DEF Prune, CacheTypeOK
    <2>2. memory' \subseteq [key : Versions \cup {0}, made : Versions]
      BY <1>0, OnePrompt, CacheFacts DEF Prune, CacheTypeOK
    <2> QED BY <2>1, <2>2, CacheFacts DEF CacheTypeOK
  <1>2. ClipIsNewest'
    BY CacheFacts DEF ClipIsNewest, Prune
  <1>3. KeysAreLower'
    BY <1>0, CacheFacts DEF KeysAreLower, Prune
  <1>4. MemoryIsRecent'
    BY CacheFacts DEF ClipIsNewest, MemoryIsRecent, Prune
  <1>5. PromptIsRecent'
    BY DEF PromptIsRecent
  <1> QED BY <1>1, <1>2, <1>3, <1>4, <1>5 DEF CInv

LEMMA WarmupCInv == ASSUME CInv, Warmup PROVE CInv'
  <1>1. /\ UNCHANGED <<kind, clip, edits, files, step, key, used, asked, life, phase>>
        /\ life = "up" /\ phase = "ready"
    BY DEF Warmup, KokoroWarmup, PocketWarmup, MossWarmup, LongcatWarmup,
           OmnivoiceWarmup, Qwen3Warmup, Ready
  <1>2. \/ UNCHANGED <<memory, since>>
        \/ Prune
        \/ clip # 0 /\ since' = since /\ memory' = {[key |-> 0, made |-> clip]}
    BY DEF Warmup, KokoroWarmup, PocketWarmup, MossWarmup, LongcatWarmup,
           OmnivoiceWarmup, Qwen3Warmup, Rescan, Scans, Primes
  <1> QED BY <1>1, <1>2, LookedCInv

LEMMA ListVoicesCInv == ASSUME CInv, ListVoices PROVE CInv'
  BY LookedCInv DEF ListVoices, Ready, Rescan

LEMMA StartCInv == ASSUME CInv, ServingShape, Start PROVE CInv'
  <1>1. /\ since' = clip /\ life = "down" /\ life' = "up" /\ phase' = phase
        /\ UNCHANGED <<kind, clip, edits, files, memory, step, key, used, asked>>
    BY DEF Start
  <1>2. memory = {} /\ phase = "ready"
    BY <1>1, CacheFacts DEF MemoryIsRecent, ServingShape
  <1>3. CacheTypeOK'
    BY <1>1, CacheFacts DEF CacheTypeOK, ClipIsNewest
  <1>4. ClipIsNewest' /\ KeysAreLower'
    BY <1>1, CacheFacts DEF ClipIsNewest, KeysAreLower
  <1>5. MemoryIsRecent' /\ PromptIsRecent'
    BY <1>1, <1>2 DEF MemoryIsRecent, PromptIsRecent
  <1> QED BY <1>3, <1>4, <1>5 DEF CInv

(* The process forgets; the files and the clip stay.                         *)
LEMMA GoneCInv == ASSUME CInv, Gone PROVE CInv'
  <1>1. /\ memory' = {} /\ step' = "no" /\ key' = 0 /\ used' = 0
        /\ since' = 0 /\ asked' = 0 /\ UNCHANGED <<clip, edits, files>>
        /\ phase' = "ready"
    BY DEF Gone, ForgetPrompts
  <1>2. CacheTypeOK'
    BY <1>1, CacheFacts DEF CacheTypeOK, Steps
  <1>3. ClipIsNewest' /\ KeysAreLower'
    BY <1>1, CacheFacts DEF ClipIsNewest, KeysAreLower
  <1>4. MemoryIsRecent' /\ PromptIsRecent'
    BY <1>1 DEF MemoryIsRecent, PromptIsRecent
  <1> QED BY <1>2, <1>3, <1>4 DEF CInv

LEMMA EndOfLoopCInv == ASSUME CInv, EndOfLoop PROVE CInv'
  <1>1. /\ memory' = {} /\ phase' = phase /\ phase = "ready" /\ kind' = kind
        /\ UNCHANGED <<clip, edits, files, step, key, used, since, asked>>
    BY DEF EndOfLoop
  <1>2. CacheTypeOK' /\ ClipIsNewest' /\ KeysAreLower'
    BY <1>1, CacheFacts DEF CacheTypeOK, ClipIsNewest, KeysAreLower
  <1>3. MemoryIsRecent' /\ PromptIsRecent'
    BY <1>1 DEF MemoryIsRecent, PromptIsRecent
  <1> QED BY <1>2, <1>3 DEF CInv

LEMMA WriteHeaderCInv == ASSUME CInv, WriteHeader PROVE CInv'
  <1>1. /\ asked' = clip /\ phase' = "load" /\ UNCHANGED <<kind, life>>
        /\ UNCHANGED <<clip, edits, files, memory, step, key, used, since>>
    BY DEF WriteHeader
  <1>2. CacheTypeOK' /\ ClipIsNewest' /\ KeysAreLower'
    BY <1>1, CacheFacts DEF CacheTypeOK, ClipIsNewest, KeysAreLower
  <1>3. MemoryIsRecent' /\ PromptIsRecent'
    BY <1>1, CacheFacts DEF MemoryIsRecent, PromptIsRecent
  <1> QED BY <1>2, <1>3 DEF CInv

LEMMA AsksCInv ==
  ASSUME CInv, AskPrompt \/ NoPrompt, UNCHANGED <<kind, life>>
  PROVE  CInv'
  <1>1. /\ step' \in {"ask", "have"} /\ used' = 0 /\ key' \in {0, key}
        /\ UNCHANGED <<clip, edits, files, memory, since, asked>>
    BY DEF AskPrompt, NoPrompt
  <1>2. CacheTypeOK' /\ ClipIsNewest' /\ KeysAreLower'
    BY <1>1, CacheFacts DEF CacheTypeOK, ClipIsNewest, KeysAreLower, Steps
  <1>3. MemoryIsRecent' /\ PromptIsRecent'
    BY <1>1, CacheFacts DEF MemoryIsRecent, PromptIsRecent
  <1> QED BY <1>2, <1>3 DEF CInv

LEMMA ResolvePromptCInv == ASSUME CInv, ResolvePrompt PROVE CInv'
  <1>1. /\ UNCHANGED <<kind, life, phase>> /\ phase = "prompt" /\ life = "up"
        /\ PromptStep
    BY DEF ResolvePrompt, procVars
  <1> QED BY <1>1, RecallCInv, EncodeClipCInv, LookUpCInv, BuildCInv, SaveBeginsCInv,
             RecallStateCInv, LookUpStateCInv, EncodeStateCInv, ExportBeginsCInv,
             SaveEndsCInv DEF PromptStep

(* The user replaces the clip, at any point of a request.                    *)
LEMMA UserEditsCInv == ASSUME CInv, UserEdits PROVE CInv'
  <1>1. /\ edits <= MaxEdits /\ edits' = edits + 1 /\ clip' \in {0, edits'}
        /\ UNCHANGED <<kind, life, phase, files, memory, step, key, used, since, asked>>
    BY DEF UserEdits, EditClip, procVars
  <1>2. CacheTypeOK'
    <2>1. edits' \in Versions /\ clip' \in Versions \cup {0} /\ clip' <= edits'
      BY <1>1, CacheFacts DEF Versions
    <2> QED BY <1>1, <2>1, CacheFacts DEF CacheTypeOK
  <1>3. ClipIsNewest' /\ KeysAreLower'
    BY <1>1, CacheFacts DEF ClipIsNewest, KeysAreLower
  <1>4. MemoryIsRecent' /\ PromptIsRecent'
    BY <1>1, CacheFacts DEF MemoryIsRecent, PromptIsRecent, Bound
  <1> QED BY <1>2, <1>3, <1>4 DEF CInv

LEMMA AsideCInv == ASSUME CInv, ServingShape, Aside PROVE CInv'
  <1>1. CASE PeerCloses
    BY <1>1, StillCInv DEF PeerCloses
  <1>2. CASE LoadModel
    BY <1>2, StillCInv DEF LoadModel
  <1>3. CASE LoadFails \/ UnknownVoice \/ PromptFails \/ AudioEnd \/ SynthesisFails
    <2>1. PICK how : Answer(how)
      BY <1>3 DEF LoadFails, UnknownVoice, PromptFails, AudioEnd, SynthesisFails
    <2> QED BY <2>1, DoneCInv DEF Answer
  <1>4. CASE AsksPrompt \/ NeedsNone
    BY <1>4, AsksCInv DEF AsksPrompt, NeedsNone
  <1> QED BY <1>1, <1>2, <1>3, <1>4, StartCInv, EndOfLoopCInv, WarmupCInv,
             ListVoicesCInv, WriteHeaderCInv, ResolvePromptCInv, UserEditsCInv
             DEF Aside

LEMMA PromptNext ==
  ASSUME CInv, ServingShape, [Next]_vars PROVE CInv'
  <1>1. CASE UNCHANGED vars
    BY <1>1, StillCInv DEF vars, procVars
  <1>2. CASE Bridge
    <2>1. UNCHANGED <<kind, cacheVars>> /\ UNCHANGED <<life, phase>>
      BY <1>2 DEF Bridge, procVars
    <2> QED BY <2>1, StillCInv
  <1>3. CASE Speak
    BY <1>3, DoneCInv DEF Speak
  <1>4. CASE NothingToSay
    BY <1>4, StillCInv DEF NothingToSay
  <1>5. CASE WriteFails
    BY <1>5, StillCInv DEF WriteFails
  <1>6. CASE Kill \/ Leave \/ LoadExits
    BY <1>6, GoneCInv DEF Kill, Leave, LoadExits
  <1> QED BY <1>1, <1>2, <1>3, <1>4, <1>5, <1>6, AsideCInv, NextSplits

LEMMA PromptInit == ASSUME Init PROVE CInv
  <1>1. /\ clip = 1 /\ edits = 1 /\ files = {} /\ memory = {} /\ step = "no"
        /\ key = 0 /\ used = 0 /\ since = 0 /\ asked = 0 /\ phase = "ready"
    BY DEF Init, CacheInit
  <1>2. MaxEdits \in Nat
    BY ProviderAssumption
  <1>3. CacheTypeOK
    BY <1>1, <1>2 DEF CacheTypeOK, Versions, Steps
  <1>4. ClipIsNewest /\ KeysAreLower /\ MemoryIsRecent /\ PromptIsRecent
    BY <1>1 DEF ClipIsNewest, KeysAreLower, MemoryIsRecent, PromptIsRecent
  <1> QED BY <1>3, <1>4 DEF CInv

(* What the process keeps of a clip, in memory and in files, is never older  *)
(* than the clip it found, whichever edit, save or crash came between.       *)
THEOREM PromptInvariant == Spec => []CInv
  BY PromptInit, PromptNext, BridgeInvariant, PTL DEF Spec, ProviderInvariants

(* The prompt that a request speaks with is no older than the clip its       *)
(* process found at its start; for pocket-tts, than the request itself.      *)
THEOREM PromptsAreRecent == Spec => []PromptNotOlder
  <1>1. CInv => PromptNotOlder
    BY DEF CInv, PromptIsRecent, PromptNotOlder, Bound
  <1> QED BY <1>1, PromptInvariant, PTL

-----------------------------------------------------------------------------
(* The types of the serving loop's own variables.                            *)

ProcTypeOK ==
  /\ kind \in Modelled
  /\ life \in {"down", "up", "leaving"} /\ {eager, loaded, known} \subseteq BOOLEAN
  /\ link \in {"open", "broken"}
  /\ phase \in {"ready", "load", "prompt", "stream"}
  /\ reply \in {"none", "open", "ended", "failed", "cut"}
  /\ requests \in 0..MaxRequests /\ starts \in 0..MaxStarts

LEMMA AsideTypes == ASSUME ProcTypeOK, Aside PROVE ProcTypeOK'
  <1>1. CASE Start
    <2>1. starts + 1 \in 0..MaxStarts
      BY <1>1, ProviderAssumption DEF Start, ProcTypeOK
    <2> QED BY <1>1, <2>1 DEF Start, ProcTypeOK
  <1>2. CASE WriteHeader
    <2>1. requests + 1 \in 0..MaxRequests
      BY <1>2, ProviderAssumption DEF WriteHeader, ProcTypeOK
    <2> QED BY <1>2, <2>1 DEF WriteHeader, ProcTypeOK
  <1>3. CASE PeerCloses \/ EndOfLoop \/ LoadModel \/ AsksPrompt \/ NeedsNone
    BY <1>3 DEF PeerCloses, EndOfLoop, LoadModel, Loads, AsksPrompt, NeedsNone,
                ProcTypeOK
  <1>4. CASE Warmup
    <2>1. known' \in BOOLEAN /\ loaded' \in BOOLEAN
      BY <1>4 DEF Warmup, KokoroWarmup, PocketWarmup, MossWarmup, LongcatWarmup,
                  OmnivoiceWarmup, Qwen3Warmup, Rescan, Scans, Loads, DoesNot,
                  ProcTypeOK
    <2> QED BY <1>4, <2>1 DEF Warmup, ProcTypeOK
  <1>5. CASE ListVoices
    BY <1>5 DEF ListVoices, Rescan, ProcTypeOK
  <1>6. CASE ResolvePrompt \/ UserEdits
    BY <1>6 DEF ResolvePrompt, UserEdits, procVars, ProcTypeOK
  <1>7. CASE LoadFails \/ UnknownVoice \/ PromptFails \/ AudioEnd \/ SynthesisFails
    <2>1. PICK how \in {"failed", "ended"} : Answer(how)
      BY <1>7 DEF LoadFails, UnknownVoice, PromptFails, AudioEnd, SynthesisFails
    <2> QED BY <2>1 DEF Answer, ProcTypeOK
  <1> QED BY <1>1, <1>2, <1>3, <1>4, <1>5, <1>6, <1>7 DEF Aside

(* Every variable of a provider process keeps its type.                      *)
THEOREM ProviderTypes == Spec => []TypeOK
  <1>1. ASSUME Init PROVE ProcTypeOK
    <2>1. 0 \in 0..MaxRequests /\ 0 \in 0..MaxStarts
      BY ProviderAssumption
    <2>2. {eager, loaded, known} \subseteq BOOLEAN
      BY <1>1 DEF Init
    <2> QED BY <1>1, <2>1, <2>2 DEF Init, ProcTypeOK
  <1>2. ASSUME ProcTypeOK, [Next]_vars PROVE ProcTypeOK'
    <2>1. CASE UNCHANGED vars \/ Bridge
      BY <1>2, <2>1 DEF vars, Bridge, procVars, ProcTypeOK
    <2>2. CASE Speak \/ NothingToSay \/ WriteFails
      BY <1>2, <2>2 DEF Speak, NothingToSay, WriteFails, ProcTypeOK
    <2>3. CASE Kill \/ Leave \/ LoadExits
      BY <1>2, <2>3 DEF Kill, Leave, LoadExits, Gone, ProcTypeOK
    <2> QED BY <1>2, <2>1, <2>2, <2>3, AsideTypes, NextSplits
  <1>3. ProviderInvariants /\ CInv /\ ProcTypeOK => TypeOK
    BY DEF ProviderInvariants, BInv, CInv, ProcTypeOK, TypeOK
  <1> QED BY <1>1, <1>2, <1>3, BridgeInvariant, PromptInvariant, PTL DEF Spec

-----------------------------------------------------------------------------
(* The chunkers: strings end to end                                          *)

LEMMA ConcatAppend ==
  ASSUME NEW S, NEW s \in Seq(S), NEW t \in Seq(S), NEW x \in S
  PROVE  s \o Append(t, x) = Append(s \o t, x)
<1>1. s \o Append(t, x) \in Seq(S) /\ Append(s \o t, x) \in Seq(S)
  BY ConcatFacts, AppendFacts
<1>2. Len(s \o Append(t, x)) = Len(s) + Len(t) + 1
      /\ Len(Append(s \o t, x)) = Len(s) + Len(t) + 1
  OBVIOUS
<1>3. \A i \in 1..(Len(s) + Len(t) + 1) :
        (s \o Append(t, x))[i] = Append(s \o t, x)[i]
  OBVIOUS
<1> QED
  BY <1>1, <1>2, <1>3, SameSequence

LEMMA ConcatAssociates ==
  ASSUME NEW S, NEW s \in Seq(S), NEW t \in Seq(S), NEW u \in Seq(S)
  PROVE  (s \o t) \o u = s \o (t \o u)
<1>1. (s \o t) \o u \in Seq(S) /\ s \o (t \o u) \in Seq(S)
  BY ConcatFacts
<1>2. Len((s \o t) \o u) = Len(s) + Len(t) + Len(u)
      /\ Len(s \o (t \o u)) = Len(s) + Len(t) + Len(u)
  OBVIOUS
<1>3. \A i \in 1..(Len(s) + Len(t) + Len(u)) :
        ((s \o t) \o u)[i] = (s \o (t \o u))[i]
  OBVIOUS
<1> QED
  BY <1>1, <1>2, <1>3, SameSequence

LEMMA ConcatEmpty ==
  ASSUME NEW S, NEW s \in Seq(S) PROVE s \o <<>> = s /\ <<>> \o s = s
<1>1. s \o <<>> \in Seq(S) /\ <<>> \o s \in Seq(S)
      /\ Len(s \o <<>>) = Len(s) /\ Len(<<>> \o s) = Len(s)
      /\ \A i \in 1..Len(s) : (s \o <<>>)[i] = s[i] /\ (<<>> \o s)[i] = s[i]
  OBVIOUS
<1> QED
  BY <1>1, SameSequence

(* The two parts of a sequence that is cut after its element n.              *)
LeftOf(s, n)  == SubSeq(s, 1, n)
RightOf(s, n) == SubSeq(s, n + 1, Len(s))

LEMMA CutInTwo ==
  ASSUME NEW S, NEW s \in Seq(S), NEW n \in 0..Len(s)
  PROVE  /\ LeftOf(s, n) \in Seq(S) /\ Len(LeftOf(s, n)) = n
         /\ \A i \in 1..n : LeftOf(s, n)[i] = s[i]
         /\ RightOf(s, n) \in Seq(S) /\ Len(RightOf(s, n)) = Len(s) - n
         /\ \A i \in 1..(Len(s) - n) : RightOf(s, n)[i] = s[n + i]
         /\ s = LeftOf(s, n) \o RightOf(s, n)
<1> DEFINE l == SubSeq(s, 1, n)
           r == SubSeq(s, n + 1, Len(s))
<1>1. /\ l \in Seq(S) /\ Len(l) = n /\ \A i \in 1..n : l[i] = s[i]
  OBVIOUS
<1>2. /\ r \in Seq(S) /\ Len(r) = Len(s) - n
      /\ \A i \in 1..(Len(s) - n) : r[i] = s[n + i]
  OBVIOUS
<1> HIDE DEF l, r
<1>3. l \o r \in Seq(S) /\ Len(l \o r) = Len(s)
  BY <1>1, <1>2
<1>4. ASSUME NEW i \in 1..Len(s) PROVE (l \o r)[i] = s[i]
  <2>1. CASE i <= n
    BY <1>1, <1>2, <2>1
  <2>2. CASE n < i
    <3>1. i - n \in 1..(Len(s) - n) /\ n + (i - n) = i
      BY <2>2
    <3>2. (l \o r)[Len(l) + (i - n)] = r[i - n]
      BY <1>1, <1>2, <3>1, ConcatFacts
    <3> QED
      BY <1>1, <1>2, <3>1, <3>2
  <2> QED
    <3>1. Len(s) \in Nat /\ i \in Nat /\ n \in Nat
      BY EmptyFacts
    <3>2. i <= n \/ n < i
      BY <3>1
    <3> QED
      BY <2>1, <2>2, <3>2
<1>5. s = l \o r
  BY <1>3, <1>4, SameSequence
<1> QED
  BY <1>1, <1>2, <1>5 DEF l, r, LeftOf, RightOf

LEMMA CutString ==
  ASSUME NEW s \in Seq(Characters), NEW n \in 0..Len(s)
  PROVE  /\ LeftOf(s, n) \in Seq(Characters) /\ Len(LeftOf(s, n)) = n
         /\ \A i \in 1..n : LeftOf(s, n)[i] = s[i]
         /\ RightOf(s, n) \in Seq(Characters) /\ Len(RightOf(s, n)) = Len(s) - n
         /\ \A i \in 1..(Len(s) - n) : RightOf(s, n)[i] = s[n + i]
         /\ s = LeftOf(s, n) \o RightOf(s, n)
<1> DEFINE C == Characters
<1> HIDE DEF C
<1>1. s \in Seq(C)
  BY DEF C
<1>2. /\ LeftOf(s, n) \in Seq(C) /\ Len(LeftOf(s, n)) = n
      /\ \A i \in 1..n : LeftOf(s, n)[i] = s[i]
      /\ RightOf(s, n) \in Seq(C) /\ Len(RightOf(s, n)) = Len(s) - n
      /\ \A i \in 1..(Len(s) - n) : RightOf(s, n)[i] = s[n + i]
      /\ s = LeftOf(s, n) \o RightOf(s, n)
  BY <1>1, CutInTwo
<1> QED
  BY <1>2 DEF C

(* A string that is not empty is one with its last character.                *)
LEMMA LastTaken ==
  ASSUME NEW S, NEW s \in Seq(S), s # <<>>
  PROVE  /\ SubSeq(s, 1, Len(s) - 1) \in Seq(S) /\ s[Len(s)] \in S
         /\ s = Append(SubSeq(s, 1, Len(s) - 1), s[Len(s)])
<1>1. Len(s) - 1 \in 0..Len(s) /\ Len(s) \in Nat \ {0} /\ s[Len(s)] \in S
  BY EmptyFacts
<1> DEFINE n == Len(s) - 1
           l == LeftOf(s, n)
<1>2. l = SubSeq(s, 1, Len(s) - 1)
  BY DEF LeftOf
<1>3. l \in Seq(S) /\ Len(l) = Len(s) - 1 /\ \A i \in 1..(Len(s) - 1) : l[i] = s[i]
  <2>1. n \in 0..Len(s) /\ n = Len(s) - 1
    BY <1>1
  <2> HIDE DEF n
  <2>2. l \in Seq(S) /\ Len(l) = n /\ \A i \in 1..n : l[i] = s[i]
    BY <2>1, CutInTwo
  <2> QED
    BY <2>1, <2>2
<1> HIDE DEF l
<1>4. Append(l, s[Len(s)]) \in Seq(S) /\ Len(Append(l, s[Len(s)])) = Len(s)
  BY <1>1, <1>3
<1>5. \A i \in 1..Len(s) : Append(l, s[Len(s)])[i] = s[i]
  BY <1>1, <1>3
<1>6. s = Append(l, s[Len(s)])
  BY <1>4, <1>5, SameSequence
<1> QED
  BY <1>1, <1>2, <1>3, <1>6

(* FlattenSeq by the length of its sequence                                  *)

FlatStep(ss, g, i) == IF i = 1 THEN ss[i] ELSE g[i - 1] \o ss[i]

IsFlat(ss, g, m) == g = [i \in 1..m |-> FlatStep(ss, g, i)]

LEMMA FlatExists ==
  ASSUME NEW ss, NEW m \in Nat
  PROVE  \E g : IsFlat(ss, g, m)
<1> DEFINE T == {k \in Nat : \E g : IsFlat(ss, g, k)}
<1>1. 0 \in T
  <2>1. IsFlat(ss, [i \in 1..0 |-> ss[i]], 0)
    BY SMT DEF IsFlat, FlatStep
  <2> QED
    BY <2>1
<1>2. ASSUME NEW k \in T PROVE k + 1 \in T
  <2>1. PICK g : IsFlat(ss, g, k)
    OBVIOUS
  <2> DEFINE h == [i \in 1..(k + 1) |->
                     IF i = k + 1 THEN FlatStep(ss, g, i) ELSE g[i]]
  <2>2. ASSUME NEW i \in 1..(k + 1) PROVE h[i] = FlatStep(ss, h, i)
    <3>1. i # 1 => i - 1 \in 1..(k + 1) /\ i - 1 # k + 1
      OBVIOUS
    <3>2. i # 1 => h[i - 1] = g[i - 1]
      BY <3>1
    <3>3. h[i] = FlatStep(ss, g, i)
      <4>1. CASE i = k + 1
        BY <4>1
      <4>2. CASE i # k + 1
        <5>1. i \in 1..k /\ h[i] = g[i]
          BY <4>2
        <5>2. g[i] = FlatStep(ss, g, i)
          BY <5>1, <2>1 DEF IsFlat
        <5> QED
          BY <5>1, <5>2
      <4> QED
        BY <4>1, <4>2
    <3> HIDE DEF h
    <3> QED
      BY <3>2, <3>3 DEF FlatStep
  <2>3. IsFlat(ss, h, k + 1)
    BY <2>2, Zenon DEF IsFlat
  <2>4. k + 1 \in Nat /\ \E gg : IsFlat(ss, gg, k + 1)
    BY <2>3
  <2> QED
    BY <2>4
<1> HIDE DEF T
<1>3. T \in SUBSET Nat
  BY DEF T
<1>4. m \in T
  BY <1>1, <1>2, <1>3, InductiveSet
<1> QED
  BY <1>4 DEF T

LEMMA FlattenIsFlat ==
  ASSUME NEW ss, Len(ss) \in Nat \ {0}
  PROVE  \E g : IsFlat(ss, g, Len(ss)) /\ FlattenSeq(ss) = g[Len(ss)]
<1> DEFINE p == CHOOSE g : IsFlat(ss, g, Len(ss))
<1>1. \E g : IsFlat(ss, g, Len(ss))
  BY FlatExists
<1>2. IsFlat(ss, p, Len(ss))
  BY <1>1, Zenon
<1>3. Len(ss) # 0
  OBVIOUS
<1>4. FlattenSeq(ss) = p[Len(ss)]
  BY <1>3, Zenon DEF FlattenSeq, IsFlat, FlatStep
<1> QED
  BY <1>2, <1>4

LEMMA FlatsAgree ==
  ASSUME NEW ss, NEW g, NEW m \in Nat, IsFlat(ss, g, m),
         NEW tt, NEW h, NEW k \in Nat, IsFlat(tt, h, k), m <= k,
         \A n \in 1..m : ss[n] = tt[n]
  PROVE  \A n \in 1..m : g[n] = h[n]
<1> DEFINE T == {n \in Nat : n + 1 <= m => g[n + 1] = h[n + 1]}
<1>1. 0 \in T
  <2>1. SUFFICES ASSUME 1 <= m PROVE g[1] = h[1]
    OBVIOUS
  <2>2. 1 \in 1..m /\ 1 \in 1..k
    BY <2>1
  <2>3. g[1] = FlatStep(ss, g, 1) /\ h[1] = FlatStep(tt, h, 1)
    BY <2>2 DEF IsFlat
  <2> QED
    BY <2>2, <2>3 DEF FlatStep
<1>2. ASSUME NEW n \in T PROVE n + 1 \in T
  <2>1. SUFFICES ASSUME n + 2 <= m PROVE g[n + 2] = h[n + 2]
    OBVIOUS
  <2>2. n + 2 \in 1..m /\ n + 2 \in 1..k /\ n + 2 # 1 /\ (n + 2) - 1 = n + 1
    BY <2>1
  <2>3. g[n + 2] = FlatStep(ss, g, n + 2) /\ h[n + 2] = FlatStep(tt, h, n + 2)
    BY <2>2 DEF IsFlat
  <2>4. g[n + 1] = h[n + 1]
    BY <2>1
  <2> QED
    BY <2>2, <2>3, <2>4 DEF FlatStep
<1> HIDE DEF T
<1>3. T \in SUBSET Nat
  BY DEF T
<1>4. \A n \in Nat : n \in T
  BY <1>1, <1>2, <1>3, InductiveSet
<1>5. ASSUME NEW n \in 1..m PROVE g[n] = h[n]
  <2>1. n - 1 \in Nat /\ (n - 1) + 1 = n /\ n <= m
    OBVIOUS
  <2>2. n - 1 \in T
    BY <2>1, <1>4
  <2> QED
    BY <2>1, <2>2 DEF T
<1> QED
  BY <1>5

LEMMA FlattenEmpty == FlattenSeq(<<>>) = <<>>
<1>1. Len(<<>>) = 0
  OBVIOUS
<1> QED
  BY <1>1 DEF FlattenSeq

LEMMA FlattenAppend ==
  ASSUME NEW S, NEW ss \in Seq(Seq(S)), NEW x \in Seq(S)
  PROVE  FlattenSeq(Append(ss, x)) = FlattenSeq(ss) \o x
<1> DEFINE tt == Append(ss, x)
           m == Len(ss)
<1>1. m \in Nat /\ Len(tt) = m + 1 /\ tt[m + 1] = x /\ \A n \in 1..m : tt[n] = ss[n]
  OBVIOUS
<1> HIDE DEF tt
<1>2. Len(tt) \in Nat \ {0}
  BY <1>1
<1>3. PICK h : IsFlat(tt, h, Len(tt)) /\ FlattenSeq(tt) = h[Len(tt)]
  BY <1>2, FlattenIsFlat
<1>4. Len(tt) \in 1..Len(tt)
  BY <1>2
<1>5. h[Len(tt)] = FlatStep(tt, h, Len(tt))
  BY <1>3, <1>4 DEF IsFlat
<1>6. CASE ss = <<>>
  <2>1. Len(tt) = 1
    BY <1>1, <1>6
  <2>2. FlattenSeq(tt) = x
    BY <1>1, <1>3, <1>5, <2>1, <1>6 DEF FlatStep
  <2>3. FlattenSeq(ss) \o x = x
    BY <1>6, FlattenEmpty, ConcatEmpty
  <2> QED
    BY <2>2, <2>3 DEF tt
<1>7. CASE ss # <<>>
  <2>1. m \in Nat \ {0}
    BY <1>1, <1>7
  <2>2. PICK g : IsFlat(ss, g, m) /\ FlattenSeq(ss) = g[m]
    BY <2>1, FlattenIsFlat
  <2> HIDE DEF m
  <2>3. m + 1 \in Nat /\ m <= m + 1
    BY <1>1
  <2>4. \A n \in 1..m : g[n] = h[n]
    BY <1>1, <1>3, <2>2, <2>3, FlatsAgree
  <2>5. g[m] = h[m] /\ m + 1 # 1 /\ (m + 1) - 1 = m
    BY <2>1, <2>4
  <2> QED
    BY <1>1, <1>3, <1>5, <2>2, <2>5 DEF FlatStep, tt
<1> QED
  BY <1>6, <1>7

LEMMA FlattenIn ==
  ASSUME NEW S, NEW ss \in Seq(Seq(S))
  PROVE  FlattenSeq(ss) \in Seq(S)
<1> DEFINE X == {tt \in Seq(Seq(S)) : FlattenSeq(tt) \in Seq(S)}
<1>1. <<>> \in X
  <2>1. FlattenSeq(<<>>) = <<>> /\ <<>> \in Seq(Seq(S)) /\ <<>> \in Seq(S)
    BY FlattenEmpty
  <2> QED
    BY <2>1, Zenon
<1>2. ASSUME NEW tt \in X, NEW x \in Seq(S) PROVE Append(tt, x) \in X
  <2>1. tt \in Seq(Seq(S)) /\ FlattenSeq(tt) \in Seq(S)
    OBVIOUS
  <2>2. Append(tt, x) \in Seq(Seq(S)) /\ FlattenSeq(tt) \o x \in Seq(S)
    BY <2>1, AppendFacts, ConcatFacts
  <2>3. FlattenSeq(Append(tt, x)) = FlattenSeq(tt) \o x
    BY <2>1, FlattenAppend
  <2> QED
    BY <2>2, <2>3
<1> HIDE DEF X
<1>3. X \in SUBSET Seq(Seq(S))
  BY DEF X
<1>4. ss \in X
  BY <1>1, <1>2, <1>3, InductiveSequences
<1> QED
  BY <1>4 DEF X

LEMMA FlattenConcat ==
  ASSUME NEW S, NEW ss \in Seq(Seq(S)), NEW tt \in Seq(Seq(S))
  PROVE  FlattenSeq(ss \o tt) = FlattenSeq(ss) \o FlattenSeq(tt)
<1> DEFINE X == {uu \in Seq(Seq(S)) :
                   FlattenSeq(ss \o uu) = FlattenSeq(ss) \o FlattenSeq(uu)}
<1>1. <<>> \in X
  <2>1. FlattenSeq(ss) \in Seq(S) /\ ss \o <<>> = ss /\ FlattenSeq(<<>>) = <<>>
    BY FlattenIn, ConcatEmpty, FlattenEmpty
  <2>2. FlattenSeq(ss) \o <<>> = FlattenSeq(ss)
    BY <2>1, ConcatEmpty
  <2> QED
    BY <2>1, <2>2
<1>2. ASSUME NEW uu \in X, NEW x \in Seq(S) PROVE Append(uu, x) \in X
  <2>1. uu \in Seq(Seq(S))
        /\ FlattenSeq(ss \o uu) = FlattenSeq(ss) \o FlattenSeq(uu)
    OBVIOUS
  <2>2. Append(uu, x) \in Seq(Seq(S)) /\ ss \o uu \in Seq(Seq(S))
    BY <2>1, AppendFacts, ConcatFacts
  <2>3. ss \o Append(uu, x) = Append(ss \o uu, x)
    BY <2>1, ConcatAppend
  <2>4. /\ FlattenSeq(Append(ss \o uu, x)) = FlattenSeq(ss \o uu) \o x
        /\ FlattenSeq(Append(uu, x)) = FlattenSeq(uu) \o x
    BY <2>1, <2>2, FlattenAppend
  <2>5. FlattenSeq(ss) \in Seq(S) /\ FlattenSeq(uu) \in Seq(S)
    BY <2>1, FlattenIn
  <2>6. (FlattenSeq(ss) \o FlattenSeq(uu)) \o x = FlattenSeq(ss) \o (FlattenSeq(uu) \o x)
    <3> DEFINE y == FlattenSeq(ss)
               z == FlattenSeq(uu)
    <3>1. y \in Seq(S) /\ z \in Seq(S)
      BY <2>5
    <3> HIDE DEF y, z, X
    <3>2. \A a \in Seq(S), b \in Seq(S), c \in Seq(S) : (a \o b) \o c = a \o (b \o c)
      BY ConcatAssociates
    <3>3. (y \o z) \o x = y \o (z \o x)
      BY <3>1, <3>2
    <3> QED
      BY <3>3 DEF y, z
  <2>7. FlattenSeq(ss \o Append(uu, x)) = FlattenSeq(ss) \o FlattenSeq(Append(uu, x))
    BY <2>1, <2>3, <2>4, <2>6
  <2> QED
    BY <2>2, <2>7
<1> HIDE DEF X
<1>3. X \in SUBSET Seq(Seq(S))
  BY DEF X
<1>4. tt \in X
  BY <1>1, <1>2, <1>3, InductiveSequences
<1> QED
  BY <1>4 DEF X

-----------------------------------------------------------------------------
(* Blanks, and what is left without them                                     *)

LEMMA BlankString ==
  ASSUME NEW b \in Seq({"blank"}) PROVE b \in Strings
<1>1. \A i \in 1..Len(b) : b[i] = "blank"
  OBVIOUS
<1> QED
  BY <1>1 DEF Strings, Characters

LEMMA BlanksOnly ==
  ASSUME NEW s \in Strings, \A i \in 1..Len(s) : s[i] = "blank"
  PROVE  s \in Seq({"blank"})
  BY DEF Strings

LEMMA MinFacts ==
  ASSUME NEW S \in SUBSET Nat, S # {}
  PROVE  Min(S) \in S /\ \A y \in S : Min(S) <= y
<1>1. \E x \in S : \A y \in S : x <= y
  BY LeastMember
<1> QED
  BY <1>1, Zenon DEF Min

LEMMA MaxFacts ==
  ASSUME NEW S \in SUBSET Nat, S # {}, NEW b \in Nat, \A y \in S : y <= b
  PROVE  Max(S) \in S /\ \A y \in S : Max(S) >= y
<1>1. \E x \in S : \A y \in S : x >= y
  BY GreatestMember
<1> QED
  BY <1>1, Zenon DEF Max

(* Strip takes blanks from both ends, all there are.                         *)
LEMMA StripParts ==
  ASSUME NEW s \in Strings
  PROVE  /\ Strip(s) \in Strings /\ Len(Strip(s)) <= Len(s)
         /\ Strip(s) # <<>> => Strip(s)[1] # "blank"
         /\ \E l, r \in Seq({"blank"}) : s = (l \o Strip(s)) \o r
<1> USE DEF Strings
<1>1. CASE Inked(s) = {}
  <2>1. Strip(s) = <<>>
    BY <1>1 DEF Strip
  <2>2. s \in Seq({"blank"})
    <3>1. \A i \in 1..Len(s) : s[i] = "blank"
      BY <1>1 DEF Inked
    <3> QED
      BY <3>1, BlanksOnly
  <2>3. <<>> \in Seq({"blank"}) /\ s = (s \o Strip(s)) \o <<>>
    BY <2>1, ConcatEmpty
  <2>4. \E l, r \in Seq({"blank"}) : s = (l \o Strip(s)) \o r
    BY <2>2, <2>3, Zenon
  <2>5. Len(Strip(s)) <= Len(s) /\ Strip(s) \in Strings
    BY <2>1
  <2> QED
    BY <2>1, <2>4, <2>5
<1>2. CASE Inked(s) # {}
  <2> DEFINE m == Min(Inked(s))
             n == Max(Inked(s))
             t == LeftOf(s, n)
             r == RightOf(s, n)
  <2>1. Inked(s) \in SUBSET Nat /\ Len(s) \in Nat /\ \A y \in Inked(s) : y <= Len(s)
    BY DEF Inked
  <2>2. m \in Inked(s) /\ \A y \in Inked(s) : m <= y
    BY <1>2, <2>1, MinFacts
  <2>3. n \in Inked(s) /\ \A y \in Inked(s) : n >= y
    BY <1>2, <2>1, MaxFacts
  <2> HIDE DEF m, n
  <2>4. m \in 1..n /\ n \in 1..Len(s) /\ s[m] # "blank"
    BY <2>1, <2>2, <2>3 DEF Inked
  <2>5. \A i \in 1..Len(s) : i < m \/ n < i => s[i] = "blank"
    BY <2>1, <2>2, <2>3, <2>4 DEF Inked
  <2>6. Strip(s) = SubSeq(s, m, n)
    BY <1>2 DEF Strip, m, n
  <2>7. n \in 0..Len(s)
    BY <2>4
  <2>8. /\ t \in Seq(Characters) /\ Len(t) = n /\ \A i \in 1..n : t[i] = s[i]
        /\ r \in Seq(Characters) /\ Len(r) = Len(s) - n
        /\ \A i \in 1..(Len(s) - n) : r[i] = s[n + i]
        /\ s = t \o r
    BY <2>7, CutString DEF Strings
  <2> HIDE DEF t, r
  <2>9. m - 1 \in 0..Len(t) /\ (m - 1) + 1 = m
    BY <2>4, <2>8
  <2> DEFINE l == LeftOf(t, m - 1)
             w == RightOf(t, m - 1)
             v == SubSeq(s, m, n)
  <2>10. /\ l \in Seq(Characters) /\ Len(l) = m - 1 /\ \A i \in 1..(m - 1) : l[i] = t[i]
         /\ w \in Seq(Characters) /\ Len(w) = n - (m - 1)
         /\ \A i \in 1..(n - (m - 1)) : w[i] = t[(m - 1) + i]
         /\ t = l \o w
    <3>1. /\ l \in Seq(Characters) /\ Len(l) = m - 1 /\ \A i \in 1..(m - 1) : l[i] = t[i]
          /\ w \in Seq(Characters) /\ Len(w) = Len(t) - (m - 1)
          /\ \A i \in 1..(Len(t) - (m - 1)) : w[i] = t[(m - 1) + i]
          /\ t = l \o w
      BY <2>8, <2>9, CutString
    <3> HIDE DEF l, w
    <3> QED
      BY <2>8, <3>1
  <2> HIDE DEF l, w
  <2>11. v = w
    <3>1. /\ v \in Seq(Characters) /\ Len(v) = n - (m - 1)
          /\ \A i \in 1..(n - (m - 1)) : v[i] = s[(m - 1) + i]
      BY <2>4
    <3> HIDE DEF v
    <3>2. \A i \in 1..(n - (m - 1)) : t[(m - 1) + i] = s[(m - 1) + i]
      BY <2>4, <2>8
    <3>3. Len(v) = Len(w) /\ \A i \in 1..Len(v) : v[i] = w[i]
      BY <2>10, <3>1, <3>2
    <3> QED
      BY <2>10, <3>1, <3>3, SameSequence
  <2>12. l \in Seq({"blank"})
    <3>1. \A i \in 1..(m - 1) : l[i] = "blank"
      BY <2>4, <2>5, <2>8, <2>10
    <3> QED
      BY <2>10, <3>1, BlanksOnly
  <2>13. r \in Seq({"blank"})
    <3>1. \A i \in 1..(Len(s) - n) : r[i] = "blank"
      BY <2>4, <2>5, <2>8
    <3> QED
      BY <2>8, <3>1, BlanksOnly
  <2>14. s = (l \o Strip(s)) \o r
    BY <2>6, <2>8, <2>10, <2>11
  <2>15. Strip(s) \in Seq(Characters) /\ Len(Strip(s)) <= Len(s) /\ Strip(s)[1] = s[m]
    <3>1. 1 \in 1..(n - (m - 1)) /\ n - (m - 1) <= Len(s) /\ (m - 1) + 1 = m /\ m \in 1..n
      BY <2>4, <2>1
    <3>2. Strip(s)[1] = t[m]
      BY <2>6, <2>10, <2>11, <3>1
    <3>3. t[m] = s[m]
      BY <2>8, <3>1
    <3> QED
      BY <2>6, <2>10, <2>11, <3>1, <3>2, <3>3
  <2> QED
    BY <2>4, <2>12, <2>13, <2>14, <2>15
<1> QED
  BY <1>1, <1>2

-----------------------------------------------------------------------------
(* Ink: what is written of a string                                          *)

LEMMA InkIn == ASSUME NEW s \in Strings PROVE Ink(s) \in Strings
  BY PickedType DEF Ink, Strings

LEMMA InkEmpty == Ink(<<>>) = <<>>
  BY PickedEmpty DEF Ink

LEMMA InkAppend ==
  ASSUME NEW s \in Strings, NEW c \in Characters
  PROVE  Ink(Append(s, c)) = IF c = "blank" THEN Ink(s) ELSE Append(Ink(s), c)
<1> DEFINE t == Append(s, c)
<1>1. /\ t \in Seq(Characters) /\ Len(t) = Len(s) + 1 /\ t[Len(s) + 1] = c
      /\ \A i \in 1..Len(s) : t[i] = s[i]
      /\ s \in Seq(Characters) /\ Len(s) \in Nat
  BY AppendFacts, EmptyFacts DEF Strings
<1> HIDE DEF t
<1>2. Len(s) + 1 \in Inked(t) <=> c # "blank"
  BY <1>1 DEF Inked
<1>3. \A n \in 1..Len(s) : n \in Inked(t) <=> n \in Inked(s)
  BY <1>1 DEF Inked
<1>4. Picked(s, Inked(t)) = Picked(s, Inked(s))
  BY <1>1, <1>3, PickedAgree
<1>5. Picked(t, Inked(t)) = IF Len(s) + 1 \in Inked(t)
                            THEN Append(Picked(s, Inked(t)), c) ELSE Picked(s, Inked(t))
  BY <1>1, PickedAppend DEF t
<1> QED
  BY <1>2, <1>4, <1>5 DEF Ink, t

LEMMA InkConcat ==
  ASSUME NEW s \in Strings, NEW t \in Strings
  PROVE  Ink(s \o t) = Ink(s) \o Ink(t)
<1> DEFINE X == {u \in Strings : Ink(s \o u) = Ink(s) \o Ink(u)}
<1>0. s \in Seq(Characters) /\ Ink(s) \in Seq(Characters) /\ <<>> \in Strings
  BY InkIn DEF Strings
<1>1. <<>> \in X
  BY <1>0, ConcatEmpty, InkEmpty
<1>2. ASSUME NEW u \in X, NEW c \in Characters PROVE Append(u, c) \in X
  <2>1. u \in Strings /\ Ink(s \o u) = Ink(s) \o Ink(u)
    OBVIOUS
  <2>2. Append(u, c) \in Strings /\ s \o u \in Strings /\ Ink(u) \in Seq(Characters)
    BY <1>0, <2>1, AppendFacts, ConcatFacts, InkIn DEF Strings
  <2>3. s \o Append(u, c) = Append(s \o u, c)
    BY <1>0, <2>1, ConcatAppend DEF Strings
  <2>4. /\ Ink(Append(s \o u, c))
             = IF c = "blank" THEN Ink(s \o u) ELSE Append(Ink(s \o u), c)
        /\ Ink(Append(u, c)) = IF c = "blank" THEN Ink(u) ELSE Append(Ink(u), c)
    BY <2>1, <2>2, InkAppend
  <2>5. Ink(s) \o Append(Ink(u), c) = Append(Ink(s) \o Ink(u), c)
    BY <1>0, <2>2, ConcatAppend
  <2>6. Ink(s \o Append(u, c)) = Ink(s) \o Ink(Append(u, c))
    BY <2>1, <2>3, <2>4, <2>5
  <2> QED
    BY <2>2, <2>6
<1> HIDE DEF X
<1>3. X \in SUBSET Seq(Characters)
  BY DEF X, Strings
<1>4. t \in X
  BY <1>1, <1>2, <1>3, InductiveSequences DEF Strings
<1> QED
  BY <1>4 DEF X

LEMMA InkOfBlanks == ASSUME NEW b \in Seq({"blank"}) PROVE Ink(b) = <<>>
<1> DEFINE X == {u \in Seq({"blank"}) : Ink(u) = <<>>}
<1>1. <<>> \in X
  <2>1. <<>> \in Seq({"blank"})
    BY EmptyFacts
  <2> QED
    BY <2>1, InkEmpty
<1>2. ASSUME NEW u \in X, NEW c \in {"blank"} PROVE Append(u, c) \in X
  <2>1. u \in Seq({"blank"}) /\ Ink(u) = <<>> /\ c = "blank"
    OBVIOUS
  <2>2. Append(u, c) \in Seq({"blank"}) /\ u \in Strings /\ c \in Characters
    BY <2>1, AppendFacts, BlankString DEF Characters
  <2>3. Ink(Append(u, c)) = <<>>
    BY <2>1, <2>2, InkAppend
  <2> QED
    BY <2>2, <2>3
<1> HIDE DEF X
<1>3. X \in SUBSET Seq({"blank"})
  BY DEF X
<1>4. b \in X
  BY <1>1, <1>2, <1>3, InductiveSequences
<1> QED
  BY <1>4 DEF X

LEMMA InkOfStrip == ASSUME NEW s \in Strings PROVE Ink(Strip(s)) = Ink(s)
<1>1. PICK l, r \in Seq({"blank"}) : s = (l \o Strip(s)) \o r
  BY StripParts
<1>2. Strip(s) \in Strings /\ l \in Strings /\ r \in Strings
  BY StripParts, BlankString
<1>3. l \o Strip(s) \in Strings
  BY <1>2, ConcatFacts DEF Strings
<1>4. Ink((l \o Strip(s)) \o r) = (Ink(l) \o Ink(Strip(s))) \o Ink(r)
  BY <1>2, <1>3, InkConcat
<1>5. Ink(l) = <<>> /\ Ink(r) = <<>> /\ Ink(Strip(s)) \in Seq(Characters)
  BY <1>2, InkOfBlanks, InkIn DEF Strings
<1>6. (<<>> \o Ink(Strip(s))) \o <<>> = Ink(Strip(s))
  BY <1>5, ConcatEmpty
<1> QED
  BY <1>1, <1>4, <1>5, <1>6

(* The ink of several strings, with one more.                                *)
InkOfAll(ss) == Ink(FlattenSeq(ss))

LEMMA AddedFacts ==
  ASSUME NEW ss \in Seq(Strings), NEW s \in Strings
  PROVE  /\ Added(ss, s) \in Seq(Strings)
         /\ s # <<>> => Added(ss, s) = Append(ss, s)
         /\ s = <<>> => Added(ss, s) = ss
  BY AppendFacts DEF Added

LEMMA InkOfAppend ==
  ASSUME NEW ss \in Seq(Strings), NEW s \in Strings
  PROVE  InkOfAll(Append(ss, s)) = InkOfAll(ss) \o Ink(s)
<1>1. FlattenSeq(ss) \in Strings /\ FlattenSeq(Append(ss, s)) = FlattenSeq(ss) \o s
  BY FlattenIn, FlattenAppend DEF Strings
<1> QED
  BY <1>1, InkConcat DEF InkOfAll

LEMMA InkOfAdded ==
  ASSUME NEW ss \in Seq(Strings), NEW s \in Strings
  PROVE  /\ InkOfAll(ss) \in Strings
         /\ InkOfAll(Added(ss, s)) = InkOfAll(ss) \o Ink(s)
<1>1. FlattenSeq(ss) \in Strings
  BY FlattenIn DEF Strings
<1>2. InkOfAll(ss) \in Strings
  BY <1>1, InkIn DEF InkOfAll
<1>3. CASE s = <<>>
  <2>1. Ink(s) = <<>> /\ Added(ss, s) = ss
    BY <1>3, InkEmpty DEF Added
  <2>2. InkOfAll(ss) \o <<>> = InkOfAll(ss)
    BY <1>2, ConcatEmpty DEF Strings
  <2> QED
    BY <1>2, <2>1, <2>2
<1>4. CASE s # <<>>
  BY <1>2, <1>4, InkOfAppend DEF Added
<1> QED
  BY <1>3, <1>4

LEMMA InkOfBoth ==
  ASSUME NEW ss \in Seq(Strings), NEW tt \in Seq(Strings)
  PROVE  InkOfAll(ss \o tt) = InkOfAll(ss) \o InkOfAll(tt)
<1>1. FlattenSeq(ss) \in Strings /\ FlattenSeq(tt) \in Strings
      /\ FlattenSeq(ss \o tt) = FlattenSeq(ss) \o FlattenSeq(tt)
  BY FlattenIn, FlattenConcat DEF Strings
<1> QED
  BY <1>1, InkConcat DEF InkOfAll

-----------------------------------------------------------------------------
(* Words                                                                     *)

Fresh == [done |-> <<>>, rest |-> <<>>]

Spelt(s) == Looped(Spell, Fresh, s)

LEMMA ListAppend ==
  ASSUME NEW ss \in Seq(Strings), NEW tt \in Seq(Strings), NEW x \in Strings
  PROVE  ss \o Append(tt, x) = Append(ss \o tt, x)
  BY ConcatAppend DEF Strings

LEMMA FreshFacts ==
  Fresh \in Halfway /\ Fresh.done = <<>> /\ Fresh.rest = <<>>
  BY DEF Fresh, Halfway, Strings

LEMMA ClosedIn ==
  ASSUME NEW acc \in Halfway
  PROVE  /\ acc.done \in Seq(Strings) /\ acc.rest \in Strings
         /\ Closed(acc) \in Seq(Strings)
         /\ acc.rest = <<>> => Closed(acc) = acc.done
         /\ acc.rest # <<>> => Closed(acc) = Append(acc.done, acc.rest)
<1>1. acc.done \in Seq(Strings) /\ acc.rest \in Strings
  BY DEF Halfway
<1> QED
  BY <1>1, AddedFacts DEF Closed

LEMMA SpellFacts ==
  ASSUME NEW acc \in Halfway, NEW c \in Characters
  PROVE  /\ Spell[acc][c] \in Halfway
         /\ c = "blank" => /\ Spell[acc][c].done = Closed(acc)
                           /\ Spell[acc][c].rest = <<>>
         /\ c # "blank" => /\ Spell[acc][c].done = acc.done
                           /\ Spell[acc][c].rest = Append(acc.rest, c)
<1>1. acc.done \in Seq(Strings) /\ acc.rest \in Strings /\ Closed(acc) \in Seq(Strings)
  BY ClosedIn
<1>2. <<>> \in Strings /\ Append(acc.rest, c) \in Strings
  BY <1>1, AppendFacts, EmptyFacts DEF Strings
<1>3. Spell[acc][c] = IF c = "blank" THEN [done |-> Closed(acc), rest |-> <<>>]
                      ELSE [done |-> acc.done, rest |-> Append(acc.rest, c)]
  BY DEF Spell
<1>4. CASE c = "blank"
  <2>1. Spell[acc][c] = [done |-> Closed(acc), rest |-> <<>>]
    BY <1>3, <1>4
  <2> QED
    BY <1>1, <1>2, <1>4, <2>1 DEF Halfway
<1>5. CASE c # "blank"
  <2>1. Spell[acc][c] = [done |-> acc.done, rest |-> Append(acc.rest, c)]
    BY <1>3, <1>5
  <2> QED
    BY <1>1, <1>2, <1>5, <2>1 DEF Halfway
<1> QED
  BY <1>4, <1>5

LEMMA SpeltEmpty == Spelt(<<>>) = Fresh
  BY LoopedEmpty DEF Spelt

LEMMA SpeltIn == ASSUME NEW s \in Strings PROVE Spelt(s) \in Halfway
<1>1. \A z \in Halfway : \A c \in Characters : Spell[z][c] \in Halfway
  BY SpellFacts
<1>2. Fresh \in Halfway /\ s \in Seq(Characters)
  BY FreshFacts DEF Strings
<1> QED
  BY <1>1, <1>2, LoopedIn DEF Spelt

LEMMA SpeltAppend ==
  ASSUME NEW s \in Strings, NEW c \in Characters
  PROVE  Spelt(Append(s, c)) = Spell[Spelt(s)][c]
  BY LoopedAppend DEF Spelt, Strings

LEMMA WordsSpelt ==
  ASSUME NEW s \in Strings
  PROVE  Words(s) = Closed(Spelt(s)) /\ Words(s) \in Seq(Strings)
<1>1. Words(s) = Closed(Spelt(s))
  BY DEF Words, Spelt, Fresh
<1> QED
  BY <1>1, SpeltIn, ClosedIn

LEMMA WordsEmpty == Words(<<>>) = <<>>
<1>1. <<>> \in Strings
  BY EmptyFacts DEF Strings
<1> QED
  BY <1>1, WordsSpelt, SpeltEmpty, FreshFacts, ClosedIn

(* Where no word is open, what follows is spelt as if nothing came before.   *)
LEMMA SpeltResumes ==
  ASSUME NEW s \in Strings, Spelt(s).rest = <<>>, NEW t \in Strings
  PROVE  /\ Spelt(s \o t).done = Spelt(s).done \o Spelt(t).done
         /\ Spelt(s \o t).rest = Spelt(t).rest
<1> DEFINE X == {u \in Strings : /\ Spelt(s \o u).done = Spelt(s).done \o Spelt(u).done
                                 /\ Spelt(s \o u).rest = Spelt(u).rest}
<1>0. /\ s \in Seq(Characters) /\ <<>> \in Strings
      /\ Spelt(s).done \in Seq(Strings)
  BY SpeltIn, ClosedIn, EmptyFacts DEF Strings
<1>1. <<>> \in X
  <2>1. s \o <<>> = s /\ Spelt(s).done \o <<>> = Spelt(s).done
    BY <1>0, ConcatEmpty
  <2>2. Spelt(<<>>).done = <<>> /\ Spelt(<<>>).rest = <<>>
    BY SpeltEmpty, FreshFacts
  <2> QED
    BY <1>0, <2>1, <2>2
<1>2. ASSUME NEW u \in X, NEW c \in Characters PROVE Append(u, c) \in X
  <2>1. u \in Strings /\ Spelt(s \o u).done = Spelt(s).done \o Spelt(u).done
        /\ Spelt(s \o u).rest = Spelt(u).rest
    OBVIOUS
  <2> HIDE DEF X
  <2>2. Append(u, c) \in Strings /\ s \o u \in Strings
    BY <1>0, <2>1, AppendFacts, ConcatFacts DEF Strings
  <2>3. s \o Append(u, c) = Append(s \o u, c)
    BY <1>0, <2>1, ConcatAppend DEF Strings
  <2>4. /\ Spelt(Append(u, c)) = Spell[Spelt(u)][c]
        /\ Spelt(Append(s \o u, c)) = Spell[Spelt(s \o u)][c]
    BY <2>1, <2>2, SpeltAppend
  <2>5. Spelt(u) \in Halfway /\ Spelt(s \o u) \in Halfway
    BY <2>1, <2>2, SpeltIn
  <2>6. /\ Spelt(u).done \in Seq(Strings) /\ Spelt(u).rest \in Strings
    BY <2>5, ClosedIn
  <2>7. Closed(Spelt(s \o u)) = Spelt(s).done \o Closed(Spelt(u))
    <3>1. CASE Spelt(u).rest = <<>>
      BY <2>1, <2>5, <3>1, ClosedIn
    <3>2. CASE Spelt(u).rest # <<>>
      <4>1. Append(Spelt(s).done \o Spelt(u).done, Spelt(u).rest)
              = Spelt(s).done \o Append(Spelt(u).done, Spelt(u).rest)
        BY <1>0, <2>6, ListAppend
      <4> QED
        BY <2>1, <2>5, <3>2, <4>1, ClosedIn
    <3> QED
      BY <3>1, <3>2
  <2>8. /\ Spelt(s \o Append(u, c)).done = Spelt(s).done \o Spelt(Append(u, c)).done
        /\ Spelt(s \o Append(u, c)).rest = Spelt(Append(u, c)).rest
    <3>1. CASE c = "blank"
      <4>1. /\ Spelt(Append(u, c)).done = Closed(Spelt(u))
            /\ Spelt(Append(u, c)).rest = <<>>
        BY <2>4, <2>5, <3>1, SpellFacts
      <4>2. /\ Spelt(Append(s \o u, c)).done = Closed(Spelt(s \o u))
            /\ Spelt(Append(s \o u, c)).rest = <<>>
        BY <2>4, <2>5, <3>1, SpellFacts
      <4> QED
        BY <2>3, <2>7, <4>1, <4>2
    <3>2. CASE c # "blank"
      <4>1. /\ Spelt(Append(u, c)).done = Spelt(u).done
            /\ Spelt(Append(u, c)).rest = Append(Spelt(u).rest, c)
        BY <2>4, <2>5, <3>2, SpellFacts
      <4>2. /\ Spelt(Append(s \o u, c)).done = Spelt(s \o u).done
            /\ Spelt(Append(s \o u, c)).rest = Append(Spelt(s \o u).rest, c)
        BY <2>4, <2>5, <3>2, SpellFacts
      <4> QED
        BY <2>1, <2>3, <4>1, <4>2
    <3> QED
      BY <3>1, <3>2
  <2> QED
    BY <2>2, <2>8 DEF X
<1> HIDE DEF X
<1>3. X \in SUBSET Seq(Characters)
  BY DEF X, Strings
<1>4. t \in X
  BY <1>1, <1>2, <1>3, InductiveSequences DEF Strings
<1> QED
  BY <1>4 DEF X

LEMMA WordsResume ==
  ASSUME NEW s \in Strings, Spelt(s).rest = <<>>, NEW t \in Strings
  PROVE  Words(s \o t) = Words(s) \o Words(t)
<1>1. s \o t \in Strings
  BY ConcatFacts DEF Strings
<1>2. Spelt(s) \in Halfway /\ Spelt(t) \in Halfway /\ Spelt(s \o t) \in Halfway
  BY <1>1, SpeltIn
<1>3. /\ Spelt(s \o t).done = Spelt(s).done \o Spelt(t).done
      /\ Spelt(s \o t).rest = Spelt(t).rest
  BY SpeltResumes
<1>4. Words(s) = Spelt(s).done
  BY <1>2, WordsSpelt, ClosedIn
<1>5. Words(t) = Closed(Spelt(t)) /\ Words(s \o t) = Closed(Spelt(s \o t))
  BY <1>1, WordsSpelt
<1>6. CASE Spelt(t).rest = <<>>
  BY <1>2, <1>3, <1>4, <1>5, <1>6, ClosedIn
<1>7. CASE Spelt(t).rest # <<>>
  <2>1. /\ Spelt(s).done \in Seq(Strings) /\ Spelt(t).done \in Seq(Strings)
        /\ Spelt(t).rest \in Strings
    BY <1>2, ClosedIn
  <2>2. Append(Spelt(s).done \o Spelt(t).done, Spelt(t).rest)
          = Spelt(s).done \o Append(Spelt(t).done, Spelt(t).rest)
    BY <2>1, ListAppend
  <2> QED
    BY <1>2, <1>3, <1>4, <1>5, <1>7, <2>2, ClosedIn
<1> QED
  BY <1>6, <1>7

LEMMA WordsBeforeBlank ==
  ASSUME NEW s \in Strings
  PROVE  /\ Append(s, "blank") \in Strings
         /\ Spelt(Append(s, "blank")).rest = <<>>
         /\ Words(Append(s, "blank")) = Words(s)
<1>1. "blank" \in Characters /\ Append(s, "blank") \in Strings
  BY AppendFacts DEF Strings, Characters
<1>2. Spelt(s) \in Halfway /\ Spelt(Append(s, "blank")) \in Halfway
  BY <1>1, SpeltIn
<1>3. Spelt(Append(s, "blank")) = Spell[Spelt(s)]["blank"]
  BY <1>1, SpeltAppend
<1>4. /\ Spelt(Append(s, "blank")).rest = <<>>
      /\ Spelt(Append(s, "blank")).done = Closed(Spelt(s))
  BY <1>1, <1>2, <1>3, SpellFacts
<1> QED
  BY <1>1, <1>2, <1>4, WordsSpelt, ClosedIn

LEMMA WordsOfBlanks ==
  ASSUME NEW b \in Seq({"blank"})
  PROVE  Spelt(b).rest = <<>> /\ Words(b) = <<>>
<1> DEFINE X == {u \in Seq({"blank"}) : Spelt(u).rest = <<>> /\ Words(u) = <<>>}
<1>1. <<>> \in X
  <2>1. <<>> \in Seq({"blank"})
    BY EmptyFacts
  <2> QED
    BY <2>1, SpeltEmpty, FreshFacts, WordsEmpty
<1>2. ASSUME NEW u \in X, NEW c \in {"blank"} PROVE Append(u, c) \in X
  <2>1. u \in Seq({"blank"}) /\ Words(u) = <<>> /\ c = "blank"
    OBVIOUS
  <2>2. Append(u, c) \in Seq({"blank"}) /\ u \in Strings
    BY <2>1, AppendFacts, BlankString
  <2>3. Spelt(Append(u, c)).rest = <<>> /\ Words(Append(u, c)) = <<>>
    BY <2>1, <2>2, WordsBeforeBlank
  <2> QED
    BY <2>2, <2>3
<1> HIDE DEF X
<1>3. X \in SUBSET Seq({"blank"})
  BY DEF X
<1>4. b \in X
  BY <1>1, <1>2, <1>3, InductiveSequences
<1> QED
  BY <1>4 DEF X

LEMMA WordsBeforeBlanks ==
  ASSUME NEW s \in Strings, NEW b \in Seq({"blank"})
  PROVE  Words(s \o b) = Words(s)
<1> DEFINE X == {u \in Seq({"blank"}) : Words(s \o u) = Words(s)}
<1>1. <<>> \in X
  <2>1. <<>> \in Seq({"blank"}) /\ s \o <<>> = s
    BY EmptyFacts, ConcatEmpty DEF Strings
  <2> QED
    BY <2>1
<1>2. ASSUME NEW u \in X, NEW c \in {"blank"} PROVE Append(u, c) \in X
  <2>1. u \in Seq({"blank"}) /\ Words(s \o u) = Words(s) /\ c = "blank"
    OBVIOUS
  <2>2. Append(u, c) \in Seq({"blank"}) /\ u \in Strings /\ c \in Characters
    BY <2>1, AppendFacts, BlankString DEF Characters
  <2>3. s \o u \in Strings /\ s \o Append(u, c) = Append(s \o u, c)
    BY <2>2, ConcatFacts, ConcatAppend DEF Strings
  <2>4. Words(s \o Append(u, c)) = Words(s)
    BY <2>1, <2>3, WordsBeforeBlank
  <2> QED
    BY <2>2, <2>4
<1> HIDE DEF X
<1>3. X \in SUBSET Seq({"blank"})
  BY DEF X
<1>4. b \in X
  BY <1>1, <1>2, <1>3, InductiveSequences
<1> QED
  BY <1>4 DEF X

LEMMA WordsOfStrip == ASSUME NEW s \in Strings PROVE Words(Strip(s)) = Words(s)
<1>1. PICK l, r \in Seq({"blank"}) : s = (l \o Strip(s)) \o r
  BY StripParts
<1>2. Strip(s) \in Strings /\ l \in Strings /\ l \o Strip(s) \in Strings
  BY StripParts, BlankString, ConcatFacts DEF Strings
<1>3. Words((l \o Strip(s)) \o r) = Words(l \o Strip(s))
  BY <1>2, WordsBeforeBlanks
<1>4. Spelt(l).rest = <<>> /\ Words(l) = <<>>
  BY WordsOfBlanks
<1>5. Words(l \o Strip(s)) = Words(l) \o Words(Strip(s))
  BY <1>2, <1>4, WordsResume
<1>6. <<>> \o Words(Strip(s)) = Words(Strip(s))
  BY <1>2, WordsSpelt, ConcatEmpty
<1> QED
  BY <1>1, <1>3, <1>4, <1>5, <1>6

(* A string without a blank at the front is within the first word.           *)
LEMMA SpeltWithoutBlank ==
  ASSUME NEW s \in Strings, \A i \in 1..Len(s) : s[i] # "blank"
  PROVE  Spelt(s).done = <<>> /\ Spelt(s).rest = s
<1> DEFINE X == {u \in Strings : (\A i \in 1..Len(u) : u[i] # "blank")
                                   => Spelt(u).done = <<>> /\ Spelt(u).rest = u}
<1>1. <<>> \in X
  <2>1. <<>> \in Strings /\ Spelt(<<>>).done = <<>> /\ Spelt(<<>>).rest = <<>>
    BY SpeltEmpty, FreshFacts, EmptyFacts DEF Strings
  <2> QED
    BY <2>1
<1>2. ASSUME NEW u \in X, NEW c \in Characters PROVE Append(u, c) \in X
  <2>1. u \in Strings
    OBVIOUS
  <2>2. /\ Append(u, c) \in Strings /\ Len(Append(u, c)) = Len(u) + 1 /\ Len(u) \in Nat
        /\ Append(u, c)[Len(u) + 1] = c
        /\ \A i \in 1..Len(u) : Append(u, c)[i] = u[i]
    BY <2>1, AppendFacts, EmptyFacts DEF Strings
  <2>3. ASSUME \A i \in 1..Len(Append(u, c)) : Append(u, c)[i] # "blank"
        PROVE  Spelt(Append(u, c)).done = <<>> /\ Spelt(Append(u, c)).rest = Append(u, c)
    <3>1. c # "blank" /\ \A i \in 1..Len(u) : u[i] # "blank"
      BY <2>2, <2>3
    <3>2. Spelt(u).done = <<>> /\ Spelt(u).rest = u
      BY <3>1
    <3> HIDE DEF X
    <3>3. Spelt(u) \in Halfway /\ Spelt(Append(u, c)) = Spell[Spelt(u)][c]
      BY <2>1, SpeltIn, SpeltAppend
    <3> QED
      BY <3>1, <3>2, <3>3, SpellFacts
  <2> QED
    BY <2>2, <2>3
<1> HIDE DEF X
<1>3. X \in SUBSET Seq(Characters)
  BY DEF X, Strings
<1>4. s \in X
  BY <1>1, <1>2, <1>3, InductiveSequences DEF Strings
<1> QED
  BY <1>4 DEF X

FirstLong(z, n) ==
  /\ z.done = <<>> => Len(z.rest) >= n
  /\ z.done # <<>> => Len(z.done[1]) >= n

LEMMA FirstWord ==
  ASSUME NEW s \in Strings, s # <<>>, \A i \in 1..Len(s) : s[i] # "blank",
         NEW t \in Strings
  PROVE  Words(s \o t) # <<>> /\ Len(Words(s \o t)[1]) >= Len(s)
<1> DEFINE X == {u \in Strings : FirstLong(Spelt(s \o u), Len(s))}
<1>0. s \in Seq(Characters) /\ <<>> \in Strings /\ Len(s) \in Nat \ {0}
  BY EmptyFacts DEF Strings
<1>1. <<>> \in X
  <2>1. s \o <<>> = s /\ Spelt(s).done = <<>> /\ Spelt(s).rest = s
    BY <1>0, ConcatEmpty, SpeltWithoutBlank
  <2> QED
    BY <1>0, <2>1 DEF FirstLong
<1>2. ASSUME NEW u \in X, NEW c \in Characters PROVE Append(u, c) \in X
  <2>1. u \in Strings /\ FirstLong(Spelt(s \o u), Len(s))
    OBVIOUS
  <2> HIDE DEF X
  <2>2. /\ Append(u, c) \in Strings /\ s \o u \in Strings
        /\ s \o Append(u, c) = Append(s \o u, c)
    BY <1>0, <2>1, AppendFacts, ConcatFacts, ConcatAppend DEF Strings
  <2> DEFINE z == Spelt(s \o u)
             y == Spelt(Append(s \o u, c))
  <2>3. z \in Halfway /\ y = Spell[z][c]
    BY <2>2, SpeltIn, SpeltAppend
  <2>4. FirstLong(z, Len(s))
    BY <2>1
  <2> HIDE DEF z, y
  <2>5. z.done \in Seq(Strings) /\ z.rest \in Strings
    BY <2>3, ClosedIn
  <2>6. /\ Append(z.done, z.rest) # <<>>
        /\ z.done = <<>> => Append(z.done, z.rest)[1] = z.rest
        /\ z.done # <<>> => Append(z.done, z.rest)[1] = z.done[1]
    BY <2>5
  <2>7. Append(z.rest, c) \in Strings /\ Len(Append(z.rest, c)) = Len(z.rest) + 1
        /\ Len(z.rest) \in Nat /\ (Len(z.rest) = 0 <=> z.rest = <<>>)
    BY <2>5, AppendFacts, EmptyFacts DEF Strings
  <2>8. FirstLong(y, Len(s))
    <3>1. CASE c = "blank"
      <4>1. y.done = Closed(z)
        BY <2>3, <3>1, SpellFacts
      <4>2. CASE z.rest = <<>>
        <5>1. Closed(z) = z.done
          BY <2>3, <4>2, ClosedIn
        <5>2. z.done # <<>>
          BY <1>0, <2>4, <2>7, <4>2 DEF FirstLong
        <5> QED
          BY <2>4, <4>1, <5>1, <5>2 DEF FirstLong
      <4>3. CASE z.rest # <<>>
        <5>1. Closed(z) = Append(z.done, z.rest)
          BY <2>3, <4>3, ClosedIn
        <5> QED
          BY <2>4, <2>6, <4>1, <5>1 DEF FirstLong
      <4> QED
        BY <4>2, <4>3
    <3>2. CASE c # "blank"
      <4>1. y.done = z.done /\ y.rest = Append(z.rest, c)
        BY <2>3, <3>2, SpellFacts
      <4> QED
        BY <1>0, <2>4, <2>7, <4>1 DEF FirstLong
    <3> QED
      BY <3>1, <3>2
  <2> QED
    BY <2>2, <2>8 DEF X, y
<1>3. X \in SUBSET Seq(Characters)
  BY DEF Strings
<1>4. t \in X
  <2> HIDE DEF X
  <2> QED
    BY <1>1, <1>2, <1>3, InductiveSequences DEF Strings
<1> DEFINE z == Spelt(s \o t)
<1>5. FirstLong(z, Len(s)) /\ s \o t \in Strings
  BY <1>0, <1>4, ConcatFacts DEF Strings
<1>6. z \in Halfway /\ Words(s \o t) = Closed(z)
  BY <1>5, SpeltIn, WordsSpelt
<1> HIDE DEF z
<1>7. z.done \in Seq(Strings) /\ z.rest \in Strings
  BY <1>6, ClosedIn
<1>8. CASE z.rest = <<>>
  <2>1. Closed(z) = z.done /\ Len(z.rest) = 0
    BY <1>6, <1>8, ClosedIn
  <2>2. z.done # <<>>
    BY <1>0, <1>5, <2>1 DEF FirstLong
  <2> QED
    BY <1>5, <1>6, <2>1, <2>2 DEF FirstLong
<1>9. CASE z.rest # <<>>
  <2>1. Closed(z) = Append(z.done, z.rest)
    BY <1>6, <1>9, ClosedIn
  <2>2. /\ Append(z.done, z.rest) # <<>>
        /\ z.done = <<>> => Append(z.done, z.rest)[1] = z.rest
        /\ z.done # <<>> => Append(z.done, z.rest)[1] = z.done[1]
    BY <1>7
  <2> QED
    BY <1>5, <1>6, <2>1, <2>2 DEF FirstLong
<1> QED
  BY <1>8, <1>9

-----------------------------------------------------------------------------
(* What is made of every string of a list, end to end                        *)

AllOf(w, ss) == FlattenSeq([k \in DOMAIN ss |-> w[ss[k]]])

LEMMA AllOfEmpty == ASSUME NEW w PROVE AllOf(w, <<>>) = <<>>
<1>1. [k \in DOMAIN <<>> |-> w[<<>>[k]]] = <<>>
  OBVIOUS
<1> QED
  BY <1>1, FlattenEmpty DEF AllOf

LEMMA AllOfAppend ==
  ASSUME NEW w \in [Strings -> Seq(Strings)], NEW ss \in Seq(Strings), NEW s \in Strings
  PROVE  /\ AllOf(w, ss) \in Seq(Strings)
         /\ AllOf(w, Append(ss, s)) = AllOf(w, ss) \o w[s]
<1> DEFINE m == [k \in DOMAIN ss |-> w[ss[k]]]
           n == [k \in DOMAIN Append(ss, s) |-> w[Append(ss, s)[k]]]
<1>1. m \in Seq(Seq(Strings)) /\ Len(m) = Len(ss) /\ \A k \in 1..Len(ss) : m[k] = w[ss[k]]
  <2>1. ss \in Seq(Strings) /\ Len(ss) \in Nat
    BY EmptyFacts
  <2>2. m = [k \in DOMAIN ss |-> w[ss[k]]]
    OBVIOUS
  <2> HIDE DEF m, n
  <2>3. \A k \in 1..Len(ss) : ss[k] \in Strings /\ w[ss[k]] \in Seq(Strings)
    BY <2>1
  <2>4. m = [k \in 1..Len(ss) |-> w[ss[k]]]
    BY <2>1, <2>2
  <2> QED
    BY <2>1, <2>3, <2>4
<1>2. /\ Append(ss, s) \in Seq(Strings) /\ Len(Append(ss, s)) = Len(ss) + 1
      /\ Append(ss, s)[Len(ss) + 1] = s /\ \A k \in 1..Len(ss) : Append(ss, s)[k] = ss[k]
  BY AppendFacts
<1> DEFINE tt == Append(ss, s)
<1> HIDE DEF tt
<1>3. /\ n \in Seq(Seq(Strings)) /\ Len(n) = Len(ss) + 1
      /\ \A k \in 1..(Len(ss) + 1) : n[k] = w[tt[k]]
  <2>1. tt \in Seq(Strings) /\ Len(tt) = Len(ss) + 1 /\ Len(ss) \in Nat
    BY <1>2, EmptyFacts DEF tt
  <2>2. n = [k \in DOMAIN tt |-> w[tt[k]]]
    BY DEF tt
  <2> HIDE DEF n
  <2> QED
    BY <2>1, <2>2
<1> HIDE DEF m, n
<1>4. w[s] \in Seq(Strings)
  OBVIOUS
<1>5. /\ Append(m, w[s]) \in Seq(Seq(Strings)) /\ Len(Append(m, w[s])) = Len(ss) + 1
      /\ Append(m, w[s])[Len(ss) + 1] = w[s]
      /\ \A k \in 1..Len(ss) : Append(m, w[s])[k] = m[k]
  BY <1>1, <1>4, AppendFacts
<1>6. ASSUME NEW k \in 1..(Len(ss) + 1) PROVE n[k] = Append(m, w[s])[k]
  <2>1. Len(ss) \in Nat
    BY EmptyFacts
  <2>2. k \in 1..Len(ss) \/ k = Len(ss) + 1
    BY <2>1
  <2>3. CASE k \in 1..Len(ss)
    BY <1>1, <1>2, <1>3, <1>5, <2>3 DEF tt
  <2>4. CASE k = Len(ss) + 1
    BY <1>2, <1>3, <1>5, <2>4 DEF tt
  <2> QED
    BY <2>2, <2>3, <2>4
<1>7. n = Append(m, w[s])
  BY <1>3, <1>5, <1>6, SameSequence
<1>8. FlattenSeq(Append(m, w[s])) = FlattenSeq(m) \o w[s] /\ FlattenSeq(m) \in Seq(Strings)
  BY <1>1, <1>4, FlattenAppend, FlattenIn
<1> QED
  BY <1>7, <1>8 DEF AllOf, m, n

(* The words of a list of strings.                                           *)
WordsOf == [s \in Strings |-> Words(s)]

LEMMA WordsOfFacts ==
  ASSUME NEW ss \in Seq(Strings)
  PROVE  WordsOf \in [Strings -> Seq(Strings)] /\ WordsOfAll(ss) = AllOf(WordsOf, ss)
<1>1. WordsOf \in [Strings -> Seq(Strings)]
  BY WordsSpelt DEF WordsOf
<1>2. \A k \in DOMAIN ss : ss[k] \in Strings
  OBVIOUS
<1>3. \A k \in DOMAIN ss : WordsOf[ss[k]] = Words(ss[k])
  BY <1>2 DEF WordsOf
<1>4. [k \in DOMAIN ss |-> WordsOf[ss[k]]] = [k \in DOMAIN ss |-> Words(ss[k])]
  BY <1>3
<1> QED
  BY <1>1, <1>4 DEF WordsOfAll, AllOf

LEMMA WordsOfNone == WordsOfAll(<<>>) = <<>>
<1>1. <<>> \in Seq(Strings)
  BY EmptyFacts
<1> QED
  BY <1>1, WordsOfFacts, AllOfEmpty

LEMMA WordsOfAppend ==
  ASSUME NEW ss \in Seq(Strings), NEW s \in Strings
  PROVE  /\ WordsOfAll(ss) \in Seq(Strings)
         /\ WordsOfAll(Append(ss, s)) = WordsOfAll(ss) \o Words(s)
<1>1. Append(ss, s) \in Seq(Strings)
  BY AppendFacts
<1>2. /\ WordsOfAll(ss) = AllOf(WordsOf, ss)
      /\ WordsOfAll(Append(ss, s)) = AllOf(WordsOf, Append(ss, s))
      /\ WordsOf \in [Strings -> Seq(Strings)]
  BY <1>1, WordsOfFacts
<1>3. WordsOf[s] = Words(s)
  BY DEF WordsOf
<1> QED
  BY <1>2, <1>3, AllOfAppend

LEMMA WordsOfAdded ==
  ASSUME NEW ss \in Seq(Strings), NEW s \in Strings
  PROVE  WordsOfAll(Added(ss, s)) = WordsOfAll(ss) \o Words(s)
<1>1. CASE s = <<>>
  <2>1. Words(s) = <<>> /\ Added(ss, s) = ss
    BY <1>1, WordsEmpty DEF Added
  <2>2. WordsOfAll(ss) \o <<>> = WordsOfAll(ss)
    BY WordsOfAppend, ConcatEmpty
  <2> QED
    BY <2>1, <2>2
<1>2. CASE s # <<>>
  BY <1>2, WordsOfAppend DEF Added
<1> QED
  BY <1>1, <1>2

LEMMA ListAssociates ==
  ASSUME NEW ss \in Seq(Strings), NEW tt \in Seq(Strings), NEW uu \in Seq(Strings)
  PROVE  (ss \o tt) \o uu = ss \o (tt \o uu)
  BY ConcatAssociates DEF Strings

LEMMA WordsOfBoth ==
  ASSUME NEW ss \in Seq(Strings), NEW tt \in Seq(Strings)
  PROVE  WordsOfAll(ss \o tt) = WordsOfAll(ss) \o WordsOfAll(tt)
<1> DEFINE X == {uu \in Seq(Strings) :
                   WordsOfAll(ss \o uu) = WordsOfAll(ss) \o WordsOfAll(uu)}
<1>1. <<>> \in X
  <2>1. <<>> \in Seq(Strings) /\ ss \o <<>> = ss
    BY EmptyFacts, ConcatEmpty
  <2>2. WordsOfAll(ss) \o <<>> = WordsOfAll(ss)
    BY WordsOfAppend, ConcatEmpty
  <2> QED
    BY <2>1, <2>2, WordsOfNone
<1>2. ASSUME NEW uu \in X, NEW x \in Strings PROVE Append(uu, x) \in X
  <2>1. uu \in Seq(Strings) /\ WordsOfAll(ss \o uu) = WordsOfAll(ss) \o WordsOfAll(uu)
    OBVIOUS
  <2>2. Append(uu, x) \in Seq(Strings) /\ ss \o uu \in Seq(Strings)
        /\ ss \o Append(uu, x) = Append(ss \o uu, x)
    BY <2>1, AppendFacts, ConcatFacts, ListAppend
  <2>3. /\ WordsOfAll(Append(ss \o uu, x)) = WordsOfAll(ss \o uu) \o Words(x)
        /\ WordsOfAll(Append(uu, x)) = WordsOfAll(uu) \o Words(x)
    BY <2>1, <2>2, WordsOfAppend
  <2>4. (WordsOfAll(ss) \o WordsOfAll(uu)) \o Words(x)
          = WordsOfAll(ss) \o (WordsOfAll(uu) \o Words(x))
    <3>1. /\ WordsOfAll(ss) \in Seq(Strings) /\ WordsOfAll(uu) \in Seq(Strings)
          /\ Words(x) \in Seq(Strings)
      BY <2>1, WordsOfAppend, WordsSpelt
    <3> DEFINE a == WordsOfAll(ss)
               b == WordsOfAll(uu)
               w == Words(x)
    <3> HIDE DEF a, b, w, X
    <3>2. a \in Seq(Strings) /\ b \in Seq(Strings) /\ w \in Seq(Strings)
      BY <3>1 DEF a, b, w
    <3>3. \A l \in Seq(Strings), m \in Seq(Strings), n \in Seq(Strings) :
             (l \o m) \o n = l \o (m \o n)
      BY ListAssociates
    <3>4. (a \o b) \o w = a \o (b \o w)
      BY <3>2, <3>3, SMTT(30)
    <3> QED
      BY <3>4 DEF a, b, w
  <2>5. WordsOfAll(ss \o Append(uu, x)) = WordsOfAll(ss) \o WordsOfAll(Append(uu, x))
    BY <2>1, <2>2, <2>3, <2>4
  <2> QED
    BY <2>2, <2>5
<1> HIDE DEF X
<1>3. X \in SUBSET Seq(Strings)
  BY DEF X
<1>4. tt \in X
  BY <1>1, <1>2, <1>3, InductiveSequences
<1> QED
  BY <1>4 DEF X

-----------------------------------------------------------------------------
(* Oversized sentences                                                       *)

Small   == {s \in Strings : s # <<>> /\ Len(s) <= HardCap}
Fitting == {s \in Strings : Len(s) <= HardCap}

(* No blank is at the front.                                                 *)
Flush(s) == s # <<>> => s[1] # "blank"

LEMMA FlushStrip == ASSUME NEW s \in Strings PROVE Strip(s) \in Strings /\ Flush(Strip(s))
  BY StripParts DEF Flush

LEMMA CapFacts == HardCap \in Nat /\ HardCap >= 1 /\ Target \in Nat
  BY ChunkerAssumption

(* The cut is after a blank, or there is none before the cap.                *)
LEMMA CutFacts ==
  ASSUME NEW s \in Strings, Len(s) > HardCap, s[1] # "blank"
  PROVE  /\ Cut(s) \in 1..HardCap
         /\ s[Cut(s)] = "blank"
              \/ (Cut(s) = HardCap /\ \A i \in 1..HardCap : s[i] # "blank")
<1> DEFINE soft  == {i \in 2..HardCap : s[i] = "blank"
                       /\ \E j \in 1..(i - 1) : s[j] = "comma"
                            /\ \A k \in (j + 1)..i : s[k] = "blank"}
           blank == {i \in 2..HardCap : s[i] = "blank"}
<1>1. Cut(s) = IF soft # {} THEN Max(soft) ELSE IF blank # {} THEN Max(blank) ELSE HardCap
  BY DEF Cut
<1>2. /\ soft \in SUBSET Nat /\ \A y \in soft : y <= HardCap
      /\ \A y \in soft : y \in 1..HardCap /\ s[y] = "blank"
  BY CapFacts
<1>3. /\ blank \in SUBSET Nat /\ \A y \in blank : y <= HardCap
      /\ \A y \in blank : y \in 1..HardCap /\ s[y] = "blank"
  BY CapFacts
<1>4. blank = {} => \A i \in 2..HardCap : s[i] # "blank"
  OBVIOUS
<1> HIDE DEF soft, blank
<1>5. CASE soft # {}
  <2>1. Max(soft) \in soft
    BY <1>2, <1>5, CapFacts, MaxFacts
  <2> QED
    BY <1>1, <1>2, <1>5, <2>1
<1>6. CASE soft = {} /\ blank # {}
  <2>1. Max(blank) \in blank
    BY <1>3, <1>6, CapFacts, MaxFacts
  <2> QED
    BY <1>1, <1>3, <1>6, <2>1
<1>7. CASE soft = {} /\ blank = {}
  <2>1. Cut(s) = HardCap
    BY <1>1, <1>7
  <2>2. \A i \in 1..HardCap : i = 1 \/ i \in 2..HardCap
    BY CapFacts
  <2>3. \A i \in 1..HardCap : s[i] # "blank"
    BY <1>4, <1>7, <2>2
  <2> QED
    BY <2>1, <2>3, CapFacts
<1> QED
  BY <1>5, <1>6, <1>7

(* The first character, and the rest.                                        *)
LEMMA FirstTaken ==
  ASSUME NEW s \in Strings, s # <<>>
  PROVE  /\ s[1] \in Characters /\ SubSeq(s, 2, Len(s)) \in Strings
         /\ \A t \in Strings : t \o s = Append(t, s[1]) \o SubSeq(s, 2, Len(s))
<1> DEFINE r == RightOf(s, 1)
<1>0. r = SubSeq(s, 2, Len(s))
  BY DEF RightOf
<1>1. Len(s) \in Nat \ {0} /\ s[1] \in Characters /\ s \in Seq(Characters)
  BY EmptyFacts DEF Strings
<1>2. r \in Seq(Characters) /\ Len(r) = Len(s) - 1 /\ \A i \in 1..(Len(s) - 1) : r[i] = s[1 + i]
  <2>1. 1 \in 0..Len(s)
    BY <1>1
  <2> QED
    BY <1>1, <2>1, CutInTwo
<1> HIDE DEF r
<1>3. ASSUME NEW t \in Seq(Characters) PROVE t \o s = Append(t, s[1]) \o r
  <2> DEFINE h == Append(t, s[1])
  <2>1. /\ h \in Seq(Characters) /\ Len(h) = Len(t) + 1 /\ h[Len(t) + 1] = s[1]
        /\ \A i \in 1..Len(t) : h[i] = t[i]
    BY <1>1, AppendFacts
  <2> HIDE DEF h
  <2>2. /\ t \o s \in Seq(Characters) /\ Len(t \o s) = Len(t) + Len(s)
        /\ \A i \in 1..Len(t) : (t \o s)[i] = t[i]
        /\ \A i \in 1..Len(s) : (t \o s)[Len(t) + i] = s[i]
    BY <1>1, ConcatFacts
  <2>3. /\ h \o r \in Seq(Characters) /\ Len(h \o r) = Len(h) + Len(r)
        /\ \A i \in 1..Len(h) : (h \o r)[i] = h[i]
        /\ \A i \in 1..Len(r) : (h \o r)[Len(h) + i] = r[i]
    <3>1. h \in Seq(Characters) /\ r \in Seq(Characters)
      BY <1>2, <2>1
    <3> QED
      BY <3>1, ConcatFacts
  <2>4. Len(t) \in Nat
    BY EmptyFacts
  <2>5. ASSUME NEW i \in 1..(Len(t) + Len(s)) PROVE (t \o s)[i] = (h \o r)[i]
    <3>1. CASE i \in 1..Len(t)
      <4>1. i \in 1..Len(h)
        BY <2>1, <2>4, <3>1
      <4> QED
        BY <2>1, <2>2, <2>3, <3>1, <4>1
    <3>2. CASE i = Len(t) + 1
      <4>1. i \in 1..Len(h) /\ 1 \in 1..Len(s) /\ i = Len(t) + 1
        BY <1>1, <2>1, <2>4, <3>2
      <4>2. (t \o s)[Len(t) + 1] = s[1] /\ (h \o r)[i] = h[i]
        BY <2>2, <2>3, <4>1
      <4> QED
        BY <2>1, <4>1, <4>2
    <3>3. CASE i > Len(t) + 1
      <4>1. /\ i - Len(t) \in 1..Len(s) /\ i = Len(t) + (i - Len(t))
            /\ i - Len(h) \in 1..Len(r) /\ i = Len(h) + (i - Len(h))
            /\ 1 + (i - Len(h)) = i - Len(t) /\ i - Len(h) \in 1..(Len(s) - 1)
        BY <1>1, <1>2, <2>1, <2>4, <3>3
      <4>2. (t \o s)[Len(t) + (i - Len(t))] = s[i - Len(t)]
        BY <2>2, <4>1
      <4>3. (h \o r)[Len(h) + (i - Len(h))] = r[i - Len(h)]
        BY <2>3, <4>1
      <4>4. r[i - Len(h)] = s[1 + (i - Len(h))]
        BY <1>2, <4>1
      <4> QED
        BY <4>1, <4>2, <4>3, <4>4
    <3>4. i \in 1..Len(t) \/ i = Len(t) + 1 \/ i > Len(t) + 1
      BY <2>4
    <3> QED
      BY <3>1, <3>2, <3>3, <3>4
  <2>6. Len(t \o s) = Len(h \o r)
    BY <1>1, <1>2, <2>1, <2>2, <2>3, <2>4
  <2> QED
    BY <2>2, <2>3, <2>5, <2>6, SameSequence DEF h
<1> QED
  BY <1>0, <1>1, <1>2, <1>3 DEF Strings

LEMMA StringJoin ==
  ASSUME NEW s \in Seq(Characters), NEW t \in Seq(Characters)
  PROVE  Len(s \o t) = Len(s) + Len(t)
  BY ConcatFacts

(* A cut there keeps the words, if each of them is within the cap.           *)
LEMMA CutKeepsWords ==
  ASSUME NEW s \in Strings, Len(s) > HardCap, s[1] # "blank", Words(s) \in Seq(Fitting),
         NEW head \in Strings, NEW tail \in Strings, s = head \o tail,
         Len(head) = Cut(s), \A i \in 1..Len(head) : head[i] = s[i]
  PROVE  Words(s) = Words(head) \o Words(tail)
<1>1. /\ Cut(s) \in 1..HardCap
      /\ s[Cut(s)] = "blank"
           \/ (Cut(s) = HardCap /\ \A i \in 1..HardCap : s[i] # "blank")
  BY CutFacts
<1>2. /\ head \in Seq(Characters) /\ tail \in Seq(Characters)
      /\ Len(head) \in Nat \ {0} /\ Len(tail) \in Nat /\ Len(s) = Len(head) + Len(tail)
      /\ head # <<>> /\ Len(s) \in Nat
  <2>1. head \in Seq(Characters) /\ tail \in Seq(Characters)
    BY DEF Strings
  <2>2. /\ Len(head) \in Nat /\ (Len(head) = 0 <=> head = <<>>) /\ Len(tail) \in Nat
        /\ Len(head \o tail) = Len(head) + Len(tail)
    <3>1. Len(head \o tail) = Len(head) + Len(tail)
      BY <2>1, StringJoin
    <3> QED
      BY <2>1, <3>1, EmptyFacts
  <2>3. Cut(s) \in Nat \ {0}
    BY <1>1, CapFacts
  <2> QED
    BY <2>1, <2>2, <2>3
<1>3. CASE s[Cut(s)] = "blank"
  <2>1. head[Len(head)] = "blank"
    BY <1>1, <1>2, <1>3
  <2> DEFINE h == SubSeq(head, 1, Len(head) - 1)
  <2>2. h \in Strings /\ head = Append(h, head[Len(head)])
    BY <1>2, LastTaken DEF Strings
  <2> HIDE DEF h
  <2>3. head = Append(h, "blank")
    BY <2>1, <2>2
  <2>4. Spelt(head).rest = <<>>
    BY <2>2, <2>3, WordsBeforeBlank
  <2> QED
    BY <2>4, WordsResume
<1>4. CASE Cut(s) = HardCap /\ \A i \in 1..HardCap : s[i] # "blank"
  <2>1. tail # <<>>
    BY <1>2, <1>4, CapFacts
  <2> DEFINE r == SubSeq(tail, 2, Len(tail))
  <2>2. /\ tail[1] \in Characters /\ r \in Strings
        /\ \A t \in Strings : t \o tail = Append(t, tail[1]) \o r
    BY <2>1, FirstTaken
  <2> HIDE DEF r
  <2>3. CASE tail[1] = "blank"
    <3>1. Words(head \o tail) = Words(head) \o Words(r)
      <4>1. head \o tail = Append(head, "blank") \o r
        BY <2>2, <2>3
      <4>2. /\ Append(head, "blank") \in Strings
            /\ Spelt(Append(head, "blank")).rest = <<>>
            /\ Words(Append(head, "blank")) = Words(head)
        BY WordsBeforeBlank
      <4>3. Words(Append(head, "blank") \o r) = Words(Append(head, "blank")) \o Words(r)
        BY <2>2, <4>2, WordsResume
      <4> QED
        BY <4>1, <4>2, <4>3
    <3>2. Words(tail) = Words(r)
      <4>1. <<>> \in Strings /\ <<>> \o tail = tail
        BY <1>2, EmptyFacts, ConcatEmpty DEF Strings
      <4>2. tail = Append(<<>>, "blank") \o r
        BY <2>2, <2>3, <4>1
      <4>3. /\ Append(<<>>, "blank") \in Strings
            /\ Spelt(Append(<<>>, "blank")).rest = <<>>
            /\ Words(Append(<<>>, "blank")) = <<>>
        BY <4>1, WordsBeforeBlank, WordsEmpty
      <4>4. Words(tail) = Words(Append(<<>>, "blank")) \o Words(r)
        BY <2>2, <4>2, <4>3, WordsResume
      <4>5. <<>> \o Words(r) = Words(r)
        BY <2>2, WordsSpelt, ConcatEmpty
      <4> QED
        BY <4>3, <4>4, <4>5
    <3> QED
      BY <3>1, <3>2
  <2>4. CASE tail[1] # "blank"
    <3> DEFINE h == Append(head, tail[1])
    <3>1. /\ h \in Seq(Characters) /\ Len(h) = Len(head) + 1 /\ h[Len(head) + 1] = tail[1]
          /\ \A i \in 1..Len(head) : h[i] = head[i]
      BY <1>2, <2>2, AppendFacts
    <3>2. s = h \o r
      BY <2>2
    <3> HIDE DEF h
    <3>3. \A i \in 1..Len(h) : h[i] # "blank"
      <4> TAKE i \in 1..Len(h)
      <4>1. i \in 1..Len(head) \/ i = Len(head) + 1
        BY <1>2, <3>1
      <4>2. CASE i \in 1..Len(head)
        BY <1>4, <3>1, <4>2
      <4> QED
        BY <2>4, <3>1, <4>1, <4>2
    <3>4. h \in Strings /\ h # <<>>
      BY <1>2, <3>1, EmptyFacts DEF Strings
    <3>5. Words(s) # <<>> /\ Len(Words(s)[1]) >= Len(h)
      BY <2>2, <3>2, <3>3, <3>4, FirstWord
    <3>6. Words(s)[1] \in Fitting
      BY <3>5
    <3>7. Len(Words(s)[1]) <= HardCap /\ Len(Words(s)[1]) \in Nat
      BY <3>6, EmptyFacts DEF Fitting, Strings
    <3> QED
      BY <1>2, <1>4, <3>1, <3>5, <3>7, CapFacts
  <2> QED
    BY <2>3, <2>4
<1> QED
  BY <1>1, <1>3, <1>4

(* The words of a part of a list.                                            *)
LEMMA LaterPart ==
  ASSUME NEW S, NEW T, NEW ss \in Seq(S), NEW tt \in Seq(S), ss \o tt \in Seq(T)
  PROVE  ss \in Seq(T) /\ tt \in Seq(T)
<1>1. /\ Len(ss) \in Nat /\ Len(tt) \in Nat /\ Len(ss \o tt) = Len(ss) + Len(tt)
      /\ \A i \in 1..Len(ss) : (ss \o tt)[i] = ss[i]
      /\ \A i \in 1..Len(tt) : (ss \o tt)[Len(ss) + i] = tt[i]
  BY EmptyFacts, ConcatFacts
<1>2. \A i \in 1..(Len(ss) + Len(tt)) : (ss \o tt)[i] \in T
  BY <1>1
<1>3. \A i \in 1..Len(ss) : ss[i] \in T
  BY <1>1, <1>2
<1>4. \A i \in 1..Len(tt) : tt[i] \in T
  <2> TAKE i \in 1..Len(tt)
  <2>1. Len(ss) + i \in 1..(Len(ss) + Len(tt))
    BY <1>1
  <2> QED
    BY <1>1, <1>2, <2>1
<1> QED
  BY <1>3, <1>4

LEMMA LaterWords ==
  ASSUME NEW ss \in Seq(Strings), NEW tt \in Seq(Strings), ss \o tt \in Seq(Fitting)
  PROVE  ss \in Seq(Fitting) /\ tt \in Seq(Fitting)
  BY LaterPart

(* What is kept of the sentence s while it is shortened.                     *)
Kept(s) ==
  {acc \in Halfway :
     /\ acc.done \in Seq(Small) /\ Flush(acc.rest)
     /\ InkOfAll(acc.done) \o Ink(acc.rest) = Ink(s)
     /\ Words(s) \in Seq(Fitting) =>
          WordsOfAll(acc.done) \o Words(acc.rest) = Words(s)}

LEMMA InkAssociates ==
  ASSUME NEW s \in Strings, NEW t \in Strings, NEW u \in Strings
  PROVE  (s \o t) \o u = s \o (t \o u)
  BY ConcatAssociates DEF Strings

LEMMA ShortenKeeps ==
  ASSUME NEW s \in Strings, NEW acc \in Kept(s)
  PROVE  /\ Shorten(acc) \in Kept(s)
         /\ Len(acc.rest) <= HardCap => Shorten(acc) = acc
         /\ Len(acc.rest) > HardCap => Len(Shorten(acc).rest) < Len(acc.rest)
<1> DEFINE r    == acc.rest
           head == SubSeq(r, 1, Cut(r))
           tail == SubSeq(r, Cut(r) + 1, Len(r))
           ns   == [done |-> Added(acc.done, Strip(head)), rest |-> Strip(tail)]
<1>0. Len(r) <= HardCap \/ Len(r) > HardCap
  <2>1. acc \in Halfway
    BY DEF Kept
  <2>2. Len(r) \in Nat
    BY <2>1, ClosedIn, EmptyFacts DEF Strings
  <2> QED
    BY <2>2, CapFacts
<1>1. CASE Len(r) <= HardCap
  <2>1. Shorten(acc) = acc /\ ~(Len(acc.rest) > HardCap)
    <3>1. acc \in Halfway
      BY DEF Kept
    <3>2. Len(r) \in Nat
      BY <3>1, ClosedIn, EmptyFacts DEF Strings
    <3> QED
      BY <1>1, <3>2, CapFacts DEF Shorten
  <2> QED
    BY <2>1
<1>2. CASE Len(r) > HardCap
  <2>1. Shorten(acc) = ns
    <3>1. ~(Len(acc.rest) <= HardCap)
      <4>1. acc \in Halfway
        BY DEF Kept
      <4>2. Len(r) \in Nat
        BY <4>1, ClosedIn, EmptyFacts DEF Strings
      <4> QED
        BY <1>2, <4>2, CapFacts
    <3> QED
      BY <3>1 DEF Shorten
  <2> HIDE DEF ns, head, tail
  <2>2. /\ acc.done \in Seq(Strings) /\ r \in Strings /\ Flush(r) /\ acc.done \in Seq(Small)
        /\ InkOfAll(acc.done) \o Ink(r) = Ink(s)
        /\ Words(s) \in Seq(Fitting) => WordsOfAll(acc.done) \o Words(r) = Words(s)
    BY ClosedIn DEF Kept
  <2> HIDE DEF r
  <2>3. r \in Seq(Characters) /\ Len(r) \in Nat /\ r # <<>>
    BY <1>2, <2>2, EmptyFacts, CapFacts DEF Strings
  <2>4. r[1] # "blank"
    BY <2>2, <2>3 DEF Flush
  <2>5. Cut(r) \in 1..HardCap
    BY <1>2, <2>2, <2>4, CutFacts
  <2>6. Cut(r) \in 0..Len(r) /\ Cut(r) \in Nat \ {0} /\ Cut(r) <= HardCap
    BY <1>2, <2>3, <2>5, CapFacts
  <2>7. /\ head \in Seq(Characters) /\ Len(head) = Cut(r)
        /\ \A i \in 1..Cut(r) : head[i] = r[i]
        /\ tail \in Seq(Characters) /\ Len(tail) = Len(r) - Cut(r)
        /\ r = head \o tail
    <3>1. head = LeftOf(r, Cut(r)) /\ tail = RightOf(r, Cut(r))
      BY DEF head, tail, LeftOf, RightOf
    <3> QED
      BY <2>3, <2>6, <3>1, CutString
  <2>8. head \in Strings /\ tail \in Strings
    BY <2>7 DEF Strings
  <2>9. /\ Strip(head) \in Strings /\ Len(Strip(head)) <= Len(head) /\ Ink(Strip(head)) = Ink(head)
        /\ Words(Strip(head)) = Words(head)
        /\ Strip(tail) \in Strings /\ Len(Strip(tail)) <= Len(tail) /\ Ink(Strip(tail)) = Ink(tail)
        /\ Words(Strip(tail)) = Words(tail) /\ Flush(Strip(tail))
    BY <2>8, StripParts, FlushStrip, InkOfStrip, WordsOfStrip
  <2>10. ns \in Halfway /\ ns.done = Added(acc.done, Strip(head)) /\ ns.rest = Strip(tail)
    <3>1. Added(acc.done, Strip(head)) \in Seq(Strings)
      BY <2>2, <2>9, AddedFacts
    <3> QED
      BY <2>9, <3>1 DEF ns, Halfway
  <2>11. ns.done \in Seq(Small)
    <3>1. CASE Strip(head) = <<>>
      BY <2>2, <2>10, <3>1 DEF Added
    <3>2. CASE Strip(head) # <<>>
      <4>1. Len(Strip(head)) \in Nat
        BY <2>9, EmptyFacts DEF Strings
      <4>2. Len(Strip(head)) <= HardCap
        BY <2>6, <2>7, <2>9, <4>1, CapFacts
      <4>3. Strip(head) \in Small
        BY <2>9, <3>2, <4>2 DEF Small
      <4> QED
        BY <2>2, <2>10, <3>2, <4>3, AppendFacts DEF Added
    <3> QED
      BY <3>1, <3>2
  <2>12. InkOfAll(ns.done) \o Ink(ns.rest) = Ink(s)
    <3>1. /\ InkOfAll(ns.done) = InkOfAll(acc.done) \o Ink(head) /\ Ink(ns.rest) = Ink(tail)
          /\ InkOfAll(acc.done) \in Strings
      BY <2>2, <2>9, <2>10, InkOfAdded
    <3>2. Ink(head) \in Strings /\ Ink(tail) \in Strings /\ Ink(r) = Ink(head) \o Ink(tail)
      BY <2>7, <2>8, InkIn, InkConcat
    <3>3. (InkOfAll(acc.done) \o Ink(head)) \o Ink(tail)
            = InkOfAll(acc.done) \o (Ink(head) \o Ink(tail))
      BY <3>1, <3>2, InkAssociates
    <3> QED
      BY <2>2, <3>1, <3>2, <3>3
  <2>13. ASSUME Words(s) \in Seq(Fitting)
         PROVE  WordsOfAll(ns.done) \o Words(ns.rest) = Words(s)
    <3>1. WordsOfAll(acc.done) \in Seq(Strings) /\ Words(r) \in Seq(Strings)
          /\ WordsOfAll(acc.done) \o Words(r) = Words(s)
      BY <2>2, <2>13, WordsOfAppend, WordsSpelt
    <3>2. Words(r) \in Seq(Fitting)
      <4>1. WordsOfAll(acc.done) \o Words(r) \in Seq(Fitting)
        BY <2>13, <3>1
      <4> QED
        BY <3>1, <4>1, LaterWords
    <3>3. Words(r) = Words(head) \o Words(tail)
      <4>1. Len(head) = Cut(r) /\ \A i \in 1..Len(head) : head[i] = r[i]
        BY <2>7
      <4> QED
        BY <1>2, <2>2, <2>4, <2>7, <2>8, <3>2, <4>1, CutKeepsWords
    <3>4. /\ WordsOfAll(ns.done) = WordsOfAll(acc.done) \o Words(head)
          /\ Words(ns.rest) = Words(tail)
      BY <2>2, <2>9, <2>10, WordsOfAdded
    <3>5. Words(head) \in Seq(Strings) /\ Words(tail) \in Seq(Strings)
      BY <2>8, WordsSpelt
    <3>6. (WordsOfAll(acc.done) \o Words(head)) \o Words(tail)
            = WordsOfAll(acc.done) \o (Words(head) \o Words(tail))
      BY <3>1, <3>5, ListAssociates
    <3> QED
      BY <3>1, <3>3, <3>4, <3>6
  <2>14. ns \in Kept(s)
    BY <2>9, <2>10, <2>11, <2>12, <2>13 DEF Kept
  <2>15. Len(ns.rest) < Len(r) /\ ~(Len(r) <= HardCap)
    <3>1. Len(Strip(tail)) \in Nat /\ Len(tail) \in Nat
      BY <2>8, <2>9, EmptyFacts DEF Strings
    <3> QED
      BY <1>2, <2>3, <2>6, <2>7, <2>9, <2>10, <3>1, CapFacts
  <2> QED
    BY <2>1, <2>14, <2>15 DEF r
<1> QED
  BY <1>0, <1>1, <1>2

Shortening == [acc \in Halfway |-> [c \in Characters |-> Shorten(acc)]]

(* All pieces of a sentence are small, and they hold what it holds.          *)
LEMMA SplitKeeps ==
  ASSUME NEW s \in Strings, Flush(s)
  PROVE  /\ SplitOversized(s) \in Seq(Small)
         /\ InkOfAll(SplitOversized(s)) = Ink(s)
         /\ Words(s) \in Seq(Fitting) => WordsOfAll(SplitOversized(s)) = Words(s)
<1> DEFINE a == [done |-> <<>>, rest |-> s]
           z(t) == Looped(Shortening, a, t)
           X == {t \in Strings : Len(z(t).rest) <= HardCap
                                   \/ Len(z(t).rest) + Len(t) <= Len(s)}
<1>1. a \in Kept(s)
  <2>1. a \in Halfway /\ a.done = <<>> /\ a.rest = s /\ <<>> \in Seq(Small)
    BY EmptyFacts DEF Halfway
  <2>2. InkOfAll(<<>>) = <<>> /\ <<>> \o Ink(s) = Ink(s)
    BY FlattenEmpty, InkEmpty, InkIn, ConcatEmpty DEF InkOfAll, Strings
  <2>3. WordsOfAll(<<>>) = <<>> /\ <<>> \o Words(s) = Words(s)
    BY WordsOfNone, WordsSpelt, ConcatEmpty
  <2> HIDE DEF a
  <2> QED
    BY <2>1, <2>2, <2>3 DEF Kept
<1>2. \A y \in Halfway : \A c \in Characters : Shortening[y][c] = Shorten(y)
  BY DEF Shortening
<1>3. \A y \in Kept(s) : y \in Halfway
  BY DEF Kept
<1>4. \A y \in Kept(s) : \A c \in Characters : Shortening[y][c] \in Kept(s)
  BY <1>2, <1>3, ShortenKeeps
<1>5. z(<<>>) = a /\ a.rest = s
  BY LoopedEmpty
<1> HIDE DEF a
<1>6. \A t \in Strings : z(t) \in Kept(s)
  BY <1>1, <1>4, LoopedIn DEF Strings
<1>7. \A t \in Strings : \A c \in Characters : z(Append(t, c)) = Shorten(z(t))
  <2> TAKE t \in Strings
  <2> TAKE c \in Characters
  <2>1. z(Append(t, c)) = Shortening[z(t)][c]
    BY LoopedAppend DEF Strings
  <2> QED
    BY <1>2, <1>3, <1>6, <2>1
<1> HIDE DEF z
<1>8. Len(s) \in Nat /\ <<>> \in Strings /\ Len(<<>>) = 0
  BY EmptyFacts DEF Strings
<1>9. <<>> \in X
  BY <1>5, <1>8
<1>10. ASSUME NEW t \in X, NEW c \in Characters PROVE Append(t, c) \in X
  <2>1. t \in Strings
    OBVIOUS
  <2>2. Len(z(t).rest) <= HardCap \/ Len(z(t).rest) + Len(t) <= Len(s)
    OBVIOUS
  <2>3. Append(t, c) \in Strings /\ Len(Append(t, c)) = Len(t) + 1 /\ Len(t) \in Nat
    BY <2>1, AppendFacts, EmptyFacts DEF Strings
  <2> HIDE DEF X
  <2>4. z(t) \in Kept(s) /\ z(Append(t, c)) \in Kept(s) /\ z(Append(t, c)) = Shorten(z(t))
    BY <1>6, <1>7, <2>1, <2>3
  <2>5. z(t) \in Halfway /\ z(Append(t, c)) \in Halfway
    BY <1>3, <2>4
  <2>6. Len(z(t).rest) \in Nat /\ Len(z(Append(t, c)).rest) \in Nat
    BY <2>5, ClosedIn, EmptyFacts DEF Strings
  <2>7. /\ Len(z(t).rest) <= HardCap => Shorten(z(t)) = z(t)
        /\ Len(z(t).rest) > HardCap => Len(Shorten(z(t)).rest) < Len(z(t).rest)
    BY <2>4, ShortenKeeps
  <2>8. CASE Len(z(t).rest) <= HardCap
    <3>1. z(Append(t, c)) = z(t)
      BY <2>4, <2>7, <2>8
    <3>2. Len(z(Append(t, c)).rest) <= HardCap
      BY <2>8, <3>1
    <3> QED
      BY <2>3, <3>2 DEF X
  <2>9. CASE Len(z(t).rest) > HardCap
    <3>1. Len(z(Append(t, c)).rest) < Len(z(t).rest)
      BY <2>4, <2>7, <2>9
    <3>2. Len(z(Append(t, c)).rest) + Len(Append(t, c)) <= Len(s)
      <4>1. Len(z(t).rest) + Len(t) <= Len(s)
        BY <2>2, <2>6, <2>9, CapFacts
      <4> DEFINE m == Len(z(t).rest)
                 n == Len(z(Append(t, c)).rest)
      <4>2. /\ m \in Nat /\ n \in Nat /\ n < m /\ m + Len(t) <= Len(s)
            /\ Len(Append(t, c)) = Len(t) + 1
        BY <2>3, <2>6, <3>1, <4>1
      <4> HIDE DEF m, n
      <4>3. n + (Len(t) + 1) <= Len(s)
        BY <1>8, <2>3, <4>2
      <4> QED
        BY <4>2, <4>3 DEF n
    <3> QED
      BY <2>3, <3>2 DEF X
  <2> QED
    BY <2>6, <2>8, <2>9, CapFacts
<1>11. s \in X
  <2>1. X \in SUBSET Seq(Characters)
    BY DEF Strings
  <2> HIDE DEF X
  <2> QED
    BY <1>9, <1>10, <2>1, InductiveSequences DEF Strings
<1>12. Len(z(s).rest) <= HardCap
  <2>1. Len(z(s).rest) <= HardCap \/ Len(z(s).rest) + Len(s) <= Len(s)
    BY <1>11
  <2>2. z(s) \in Halfway
    BY <1>3, <1>6
  <2>3. Len(z(s).rest) \in Nat
    BY <2>2, ClosedIn, EmptyFacts DEF Strings
  <2> QED
    BY <1>8, <2>1, <2>3, CapFacts
<1>13. SplitOversized(s) = Closed(z(s))
  BY DEF SplitOversized, Shortening, z, a
<1>14. z(s) \in Halfway /\ z(s) \in Kept(s)
  BY <1>3, <1>6
<1> DEFINE d == z(s).done
           r == z(s).rest
<1>15. /\ d \in Seq(Strings) /\ r \in Strings /\ d \in Seq(Small)
       /\ InkOfAll(d) \o Ink(r) = Ink(s)
       /\ Words(s) \in Seq(Fitting) => WordsOfAll(d) \o Words(r) = Words(s)
  BY <1>14, ClosedIn DEF Kept
<1>16. Closed(z(s)) = Added(d, r) /\ Len(r) <= HardCap
  BY <1>12 DEF Closed
<1> HIDE DEF d, r
<1>17. Added(d, r) \in Seq(Small)
  <2>1. CASE r = <<>>
    BY <1>15, <2>1 DEF Added
  <2>2. CASE r # <<>>
    <3>1. r \in Small
      BY <1>15, <1>16, <2>2 DEF Small
    <3> QED
      BY <1>15, <2>2, <3>1, AppendFacts DEF Added
  <2> QED
    BY <2>1, <2>2
<1>18. InkOfAll(Added(d, r)) = Ink(s)
  BY <1>15, InkOfAdded
<1>19. Words(s) \in Seq(Fitting) => WordsOfAll(Added(d, r)) = Words(s)
  BY <1>15, WordsOfAdded
<1> QED
  BY <1>13, <1>16, <1>17, <1>18, <1>19

-----------------------------------------------------------------------------
(* Sentences and pieces                                                      *)

Whole == {s \in Strings : s # <<>> /\ Flush(s)}

Reading == [done : Seq(Strings), rest : Strings, at : Nat]

(* What is kept of the string t while it is cut into sentences.              *)
Cutting(t) ==
  {acc \in Reading : /\ acc.done \in Seq(Whole)
                     /\ InkOfAll(acc.done) \o Ink(acc.rest) = Ink(t)}

LEMMA AddedWhole ==
  ASSUME NEW ss \in Seq(Strings), ss \in Seq(Whole), NEW s \in Strings
  PROVE  /\ Added(ss, Strip(s)) \in Seq(Strings) /\ Added(ss, Strip(s)) \in Seq(Whole)
         /\ InkOfAll(Added(ss, Strip(s))) = InkOfAll(ss) \o Ink(s)
<1>1. Strip(s) \in Strings /\ Flush(Strip(s)) /\ Ink(Strip(s)) = Ink(s)
  BY FlushStrip, InkOfStrip
<1>2. Added(ss, Strip(s)) \in Seq(Whole)
  <2>1. CASE Strip(s) = <<>>
    BY <2>1 DEF Added
  <2>2. CASE Strip(s) # <<>>
    <3>1. Strip(s) \in Whole
      BY <1>1, <2>2 DEF Whole
    <3> QED
      BY <2>2, <3>1, AppendFacts DEF Added
  <2> QED
    BY <2>1, <2>2
<1> QED
  BY <1>1, <1>2, AddedFacts, InkOfAdded

LEMMA ReadKeeps ==
  ASSUME NEW cuts, NEW t \in Strings, NEW acc \in Cutting(t), NEW c \in Characters
  PROVE  Read(cuts)[acc][c] \in Cutting(Append(t, c))
<1> DEFINE stretch == Append(acc.rest, c)
           next    == Read(cuts)[acc][c]
<1>1. /\ acc \in Reading /\ acc.done \in Seq(Strings) /\ acc.rest \in Strings /\ acc.at \in Nat
      /\ acc.done \in Seq(Whole) /\ InkOfAll(acc.done) \o Ink(acc.rest) = Ink(t)
  BY DEF Cutting, Reading
<1>2. /\ acc.at + 1 \in cuts =>
           next = [done |-> Added(acc.done, Strip(stretch)), rest |-> <<>>, at |-> acc.at + 1]
      /\ acc.at + 1 \notin cuts =>
           next = [done |-> acc.done, rest |-> stretch, at |-> acc.at + 1]
  <2>1. next = [done |-> IF acc.at + 1 \in cuts THEN Added(acc.done, Strip(stretch)) ELSE acc.done,
                rest |-> IF acc.at + 1 \in cuts THEN <<>> ELSE stretch,
                at   |-> acc.at + 1]
    BY <1>1 DEF Read, Reading
  <2> HIDE DEF next, stretch
  <2> QED
    BY <2>1
<1>3. stretch \in Strings /\ Append(t, c) \in Strings /\ <<>> \in Strings
  BY <1>1, AppendFacts, EmptyFacts DEF Strings
<1>4. InkOfAll(acc.done) \o Ink(stretch) = Ink(Append(t, c))
  <2>1. Ink(stretch) = IF c = "blank" THEN Ink(acc.rest) ELSE Append(Ink(acc.rest), c)
    BY <1>1, InkAppend
  <2>2. Ink(Append(t, c)) = IF c = "blank" THEN Ink(t) ELSE Append(Ink(t), c)
    BY InkAppend
  <2>3. InkOfAll(acc.done) \in Seq(Characters) /\ Ink(acc.rest) \in Seq(Characters)
    BY <1>1, <1>3, InkOfAdded, InkIn DEF Strings
  <2>4. InkOfAll(acc.done) \o Append(Ink(acc.rest), c)
          = Append(InkOfAll(acc.done) \o Ink(acc.rest), c)
    BY <2>3, ConcatAppend
  <2> QED
    BY <1>1, <2>1, <2>2, <2>4
<1> HIDE DEF stretch, next
<1>5. CASE acc.at + 1 \in cuts
  <2>1. next = [done |-> Added(acc.done, Strip(stretch)), rest |-> <<>>, at |-> acc.at + 1]
    BY <1>2, <1>5
  <2>2. /\ Added(acc.done, Strip(stretch)) \in Seq(Strings)
        /\ Added(acc.done, Strip(stretch)) \in Seq(Whole)
        /\ InkOfAll(Added(acc.done, Strip(stretch))) = InkOfAll(acc.done) \o Ink(stretch)
    BY <1>1, <1>3, AddedWhole
  <2>3. InkOfAll(Added(acc.done, Strip(stretch))) \o <<>>
          = InkOfAll(Added(acc.done, Strip(stretch)))
    BY <1>3, <2>2, InkOfAdded, ConcatEmpty DEF Strings
  <2>4. /\ next.done = Added(acc.done, Strip(stretch)) /\ next.rest = <<>>
        /\ next \in Reading
    BY <1>1, <1>3, <2>1, <2>2 DEF Reading
  <2>5. InkOfAll(next.done) \o Ink(next.rest) = Ink(Append(t, c))
    BY <1>4, <2>2, <2>3, <2>4, InkEmpty
  <2> QED
    BY <2>2, <2>4, <2>5 DEF Cutting, next
<1>6. CASE acc.at + 1 \notin cuts
  <2>1. next = [done |-> acc.done, rest |-> stretch, at |-> acc.at + 1]
    BY <1>2, <1>6
  <2>2. next.done = acc.done /\ next.rest = stretch /\ next \in Reading
    BY <1>1, <1>3, <2>1 DEF Reading
  <2> QED
    BY <1>1, <1>4, <2>2 DEF Cutting, next
<1> QED
  BY <1>5, <1>6

LEMMA SentencesKeep ==
  ASSUME NEW s \in Strings, NEW cuts
  PROVE  /\ Sentences(s, cuts) \in Seq(Whole) /\ Sentences(s, cuts) \in Seq(Strings)
         /\ InkOfAll(Sentences(s, cuts)) = Ink(s)
<1> DEFINE a == [done |-> <<>>, rest |-> <<>>, at |-> 0]
           z(t) == Looped(Read(cuts), a, t)
           X == {t \in Strings : z(t) \in Cutting(t)}
<1>1. <<>> \in X
  <2>1. a \in Reading /\ a.done = <<>> /\ a.rest = <<>> /\ <<>> \in Seq(Whole) /\ <<>> \in Strings
    BY EmptyFacts DEF Reading, Strings
  <2>2. InkOfAll(<<>>) = <<>> /\ Ink(<<>>) = <<>> /\ <<>> \o <<>> = <<>>
    BY <2>1, FlattenEmpty, InkEmpty, ConcatEmpty DEF InkOfAll, Strings
  <2>3. z(<<>>) = a
    BY LoopedEmpty
  <2> HIDE DEF a
  <2> QED
    BY <2>1, <2>2, <2>3 DEF Cutting
<1> HIDE DEF a
<1>2. ASSUME NEW t \in X, NEW c \in Characters PROVE Append(t, c) \in X
  <2>1. t \in Strings /\ z(t) \in Cutting(t)
    OBVIOUS
  <2>2. z(Append(t, c)) = Read(cuts)[z(t)][c]
    BY <2>1, LoopedAppend DEF Strings
  <2> HIDE DEF z
  <2>3. Append(t, c) \in Strings
    BY <2>1, AppendFacts DEF Strings
  <2> QED
    BY <2>1, <2>2, <2>3, ReadKeeps
<1> HIDE DEF z
<1>3. s \in X
  <2>1. X \in SUBSET Seq(Characters)
    BY DEF Strings
  <2> HIDE DEF X
  <2> QED
    BY <1>1, <1>2, <2>1, InductiveSequences DEF Strings
<1>4. /\ z(s).done \in Seq(Strings) /\ z(s).done \in Seq(Whole) /\ z(s).rest \in Strings
      /\ InkOfAll(z(s).done) \o Ink(z(s).rest) = Ink(s)
  BY <1>3 DEF Cutting, Reading
<1>5. Sentences(s, cuts) = Added(z(s).done, Strip(z(s).rest))
  BY DEF Sentences, z, a
<1> QED
  BY <1>4, <1>5, AddedWhole

(* The pieces of a list of sentences.                                        *)
PiecesOf == [s \in Strings |-> IF Flush(s) THEN SplitOversized(s) ELSE <<>>]

LEMMA SmallStrings == ASSUME NEW ss \in Seq(Small) PROVE ss \in Seq(Strings)
  BY DEF Small

LEMMA WholeStrings == ASSUME NEW ss \in Seq(Whole) PROVE ss \in Seq(Strings)
  BY DEF Whole

LEMMA PiecesOfFacts ==
  /\ PiecesOf \in [Strings -> Seq(Strings)]
  /\ \A ss \in Seq(Whole) : Pieces(ss) = AllOf(PiecesOf, ss)
<1>1. ASSUME NEW s \in Strings
      PROVE  (IF Flush(s) THEN SplitOversized(s) ELSE <<>>) \in Seq(Strings)
  <2>1. <<>> \in Seq(Strings)
    BY EmptyFacts
  <2>2. Flush(s) => SplitOversized(s) \in Seq(Strings)
    BY SplitKeeps, SmallStrings
  <2> QED
    BY <2>1, <2>2
<1>2. ASSUME NEW ss \in Seq(Whole) PROVE Pieces(ss) = AllOf(PiecesOf, ss)
  <2>1. \A k \in DOMAIN ss : ss[k] \in Strings /\ Flush(ss[k])
    BY DEF Whole
  <2>2. \A k \in DOMAIN ss : PiecesOf[ss[k]] = SplitOversized(ss[k])
    BY <2>1 DEF PiecesOf
  <2>3. [k \in DOMAIN ss |-> PiecesOf[ss[k]]] = [k \in DOMAIN ss |-> SplitOversized(ss[k])]
    BY <2>2
  <2> QED
    BY <2>3 DEF Pieces, AllOf
<1> QED
  BY <1>1, <1>2 DEF PiecesOf

LEMMA PiecesKeep ==
  ASSUME NEW ss \in Seq(Whole)
  PROVE  /\ Pieces(ss) \in Seq(Small)
         /\ InkOfAll(Pieces(ss)) = InkOfAll(ss)
         /\ WordsOfAll(ss) \in Seq(Fitting) => WordsOfAll(Pieces(ss)) = WordsOfAll(ss)
<1> DEFINE X == {tt \in Seq(Whole) :
                   /\ Pieces(tt) \in Seq(Small)
                   /\ InkOfAll(Pieces(tt)) = InkOfAll(tt)
                   /\ WordsOfAll(tt) \in Seq(Fitting) =>
                        WordsOfAll(Pieces(tt)) = WordsOfAll(tt)}
<1>1. <<>> \in X
  <2>1. <<>> \in Seq(Whole) /\ <<>> \in Seq(Small)
    BY EmptyFacts
  <2>2. Pieces(<<>>) = <<>>
    BY <2>1, PiecesOfFacts, AllOfEmpty
  <2> QED
    BY <2>1, <2>2
<1>2. ASSUME NEW tt \in X, NEW s \in Whole PROVE Append(tt, s) \in X
  <2>1. /\ tt \in Seq(Whole) /\ Pieces(tt) \in Seq(Small)
        /\ InkOfAll(Pieces(tt)) = InkOfAll(tt)
        /\ WordsOfAll(tt) \in Seq(Fitting) => WordsOfAll(Pieces(tt)) = WordsOfAll(tt)
    OBVIOUS
  <2> HIDE DEF X
  <2>2. s \in Strings /\ Flush(s)
    BY DEF Whole
  <2>3. tt \in Seq(Strings) /\ Append(tt, s) \in Seq(Whole)
    BY <2>1, WholeStrings, AppendFacts
  <2>4. Pieces(Append(tt, s)) = Pieces(tt) \o SplitOversized(s)
    <3>1. Pieces(Append(tt, s)) = AllOf(PiecesOf, Append(tt, s)) /\ Pieces(tt) = AllOf(PiecesOf, tt)
      BY <2>1, <2>3, PiecesOfFacts
    <3>2. AllOf(PiecesOf, Append(tt, s)) = AllOf(PiecesOf, tt) \o PiecesOf[s]
      BY <2>2, <2>3, PiecesOfFacts, AllOfAppend
    <3>3. PiecesOf[s] = SplitOversized(s)
      BY <2>2 DEF PiecesOf
    <3> QED
      BY <3>1, <3>2, <3>3
  <2>5. /\ SplitOversized(s) \in Seq(Small) /\ InkOfAll(SplitOversized(s)) = Ink(s)
        /\ Words(s) \in Seq(Fitting) => WordsOfAll(SplitOversized(s)) = Words(s)
    BY <2>2, SplitKeeps
  <2>6. SplitOversized(s) \in Seq(Strings) /\ Pieces(tt) \in Seq(Strings)
    BY <2>1, <2>5, SmallStrings
  <2>7. Pieces(Append(tt, s)) \in Seq(Small)
    BY <2>1, <2>4, <2>5, ConcatFacts
  <2>8. InkOfAll(Pieces(Append(tt, s))) = InkOfAll(Append(tt, s))
    <3>1. InkOfAll(Pieces(tt) \o SplitOversized(s)) = InkOfAll(Pieces(tt)) \o InkOfAll(SplitOversized(s))
      BY <2>6, InkOfBoth
    <3>2. InkOfAll(Append(tt, s)) = InkOfAll(tt) \o Ink(s)
      BY <2>2, <2>3, InkOfAppend
    <3> QED
      BY <2>1, <2>4, <2>5, <3>1, <3>2
  <2>9. ASSUME WordsOfAll(Append(tt, s)) \in Seq(Fitting)
        PROVE  WordsOfAll(Pieces(Append(tt, s))) = WordsOfAll(Append(tt, s))
    <3>1. /\ WordsOfAll(Append(tt, s)) = WordsOfAll(tt) \o Words(s)
          /\ WordsOfAll(tt) \in Seq(Strings) /\ Words(s) \in Seq(Strings)
      BY <2>2, <2>3, WordsOfAppend, WordsSpelt
    <3>2. WordsOfAll(tt) \o Words(s) \in Seq(Fitting)
      BY <2>9, <3>1
    <3>3. WordsOfAll(tt) \in Seq(Fitting) /\ Words(s) \in Seq(Fitting)
      BY <3>1, <3>2, LaterWords
    <3>4. WordsOfAll(Pieces(tt) \o SplitOversized(s))
            = WordsOfAll(Pieces(tt)) \o WordsOfAll(SplitOversized(s))
      BY <2>6, WordsOfBoth
    <3> QED
      BY <2>1, <2>4, <2>5, <3>1, <3>3, <3>4
  <2> QED
    BY <2>3, <2>7, <2>8, <2>9 DEF X
<1> HIDE DEF X
<1>3. X \in SUBSET Seq(Whole)
  BY DEF X
<1>4. ss \in X
  BY <1>1, <1>2, <1>3, InductiveSequences
<1> QED
  BY <1>4 DEF X

-----------------------------------------------------------------------------
(* Packing                                                                   *)

(* Neighbours do not fit in one chunk.                                       *)
Beside(cs) == \A k \in 1..(Len(cs) - 1) : Len(cs[k]) + 1 + Len(cs[k + 1]) > Target

(* Each is within the target, or one of the pieces ps alone.                 *)
Sized(cs, ps) ==
  \A k \in 1..Len(cs) : /\ cs[k] # <<>>
                        /\ Len(cs[k]) <= Target \/ \E i \in 1..Len(ps) : ps[i] = cs[k]

LEMMA BesideAppend ==
  ASSUME NEW cs \in Seq(Strings), NEW x \in Strings, Beside(cs),
         cs # <<>> => Len(cs[Len(cs)]) + 1 + Len(x) > Target
  PROVE  Beside(Append(cs, x))
<1> DEFINE ds == Append(cs, x)
<1>1. /\ Len(ds) = Len(cs) + 1 /\ ds[Len(cs) + 1] = x /\ Len(cs) \in Nat
      /\ \A k \in 1..Len(cs) : ds[k] = cs[k]
      /\ (Len(cs) = 0 <=> cs = <<>>)
  BY AppendFacts, EmptyFacts
<1> HIDE DEF ds
<1>2. ASSUME NEW k \in 1..(Len(ds) - 1) PROVE Len(ds[k]) + 1 + Len(ds[k + 1]) > Target
  <2>1. k \in 1..Len(cs) /\ cs # <<>> /\ ds[k] = cs[k]
    BY <1>1
  <2>2. CASE k = Len(cs)
    BY <1>1, <2>1, <2>2
  <2>3. CASE k # Len(cs)
    <3>1. k \in 1..(Len(cs) - 1) /\ k + 1 \in 1..Len(cs)
      BY <1>1, <2>1, <2>3
    <3>2. ds[k + 1] = cs[k + 1]
      BY <1>1, <3>1
    <3>3. Len(cs[k]) + 1 + Len(cs[k + 1]) > Target
      BY <3>1 DEF Beside
    <3> QED
      BY <2>1, <3>2, <3>3
  <2> QED
    BY <2>2, <2>3
<1> QED
  BY <1>2 DEF Beside, ds

(* A last chunk that grows stays apart from the one before.                  *)
LEMMA BesideGrows ==
  ASSUME NEW cs \in Seq(Strings), NEW x \in Strings, NEW y \in Strings,
         Beside(Append(cs, x)), Len(y) >= Len(x)
  PROVE  Beside(Append(cs, y))
<1> DEFINE ds == Append(cs, x)
           es == Append(cs, y)
<1>1. /\ Len(ds) = Len(cs) + 1 /\ ds[Len(cs) + 1] = x /\ Len(cs) \in Nat
      /\ \A k \in 1..Len(cs) : ds[k] = cs[k]
      /\ Len(es) = Len(cs) + 1 /\ es[Len(cs) + 1] = y
      /\ \A k \in 1..Len(cs) : es[k] = cs[k]
  BY AppendFacts, EmptyFacts
<1>2. Len(x) \in Nat /\ Len(y) \in Nat /\ \A k \in 1..Len(cs) : Len(cs[k]) \in Nat
  <2>1. \A k \in 1..Len(cs) : cs[k] \in Strings
    OBVIOUS
  <2> QED
    BY <2>1, EmptyFacts DEF Strings
<1>3. Beside(ds)
  OBVIOUS
<1> HIDE DEF ds, es
<1>4. ASSUME NEW k \in 1..(Len(es) - 1) PROVE Len(es[k]) + 1 + Len(es[k + 1]) > Target
  <2>1. /\ k \in 1..Len(cs) /\ k \in 1..(Len(ds) - 1) /\ es[k] = cs[k] /\ ds[k] = cs[k]
        /\ k + 1 \in 1..Len(cs) \/ k = Len(cs)
    BY <1>1
  <2>2. Len(ds[k]) + 1 + Len(ds[k + 1]) > Target
    BY <1>3, <2>1 DEF Beside
  <2>3. CASE k + 1 \in 1..Len(cs)
    BY <1>1, <2>1, <2>2, <2>3
  <2>4. CASE k = Len(cs)
    <3>1. ds[k + 1] = x /\ es[k + 1] = y
      BY <1>1, <2>4
    <3> DEFINE m == Len(cs[k])
    <3>2. m \in Nat /\ m + 1 + Len(x) > Target
      BY <1>2, <2>1, <2>2, <3>1
    <3> HIDE DEF m
    <3>3. m + 1 + Len(y) > Target
      BY <1>2, <3>2, CapFacts
    <3> QED
      BY <2>1, <3>1, <3>3 DEF m
  <2> QED
    BY <2>1, <2>3, <2>4
<1> QED
  BY <1>4 DEF Beside, es

LEMMA SizedAppend ==
  ASSUME NEW cs \in Seq(Strings), NEW x \in Strings, NEW ps \in Seq(Strings), NEW p \in Strings,
         Sized(cs, ps), x # <<>>, Len(x) <= Target \/ x = p
  PROVE  Sized(Append(cs, x), Append(ps, p))
<1> DEFINE ds == Append(cs, x)
           qs == Append(ps, p)
<1>1. /\ Len(ds) = Len(cs) + 1 /\ ds[Len(cs) + 1] = x /\ Len(cs) \in Nat
      /\ \A k \in 1..Len(cs) : ds[k] = cs[k]
      /\ Len(qs) = Len(ps) + 1 /\ qs[Len(ps) + 1] = p /\ Len(ps) \in Nat
      /\ \A k \in 1..Len(ps) : qs[k] = ps[k]
  BY AppendFacts, EmptyFacts
<1> HIDE DEF ds, qs
<1>2. ASSUME NEW k \in 1..Len(ds)
      PROVE  /\ ds[k] # <<>>
             /\ Len(ds[k]) <= Target \/ \E i \in 1..Len(qs) : qs[i] = ds[k]
  <2>1. k \in 1..Len(cs) \/ k = Len(cs) + 1
    BY <1>1
  <2>2. CASE k \in 1..Len(cs)
    <3>1. /\ cs[k] # <<>>
          /\ Len(cs[k]) <= Target \/ \E i \in 1..Len(ps) : ps[i] = cs[k]
      BY <2>2 DEF Sized
    <3>2. \A i \in 1..Len(ps) : i \in 1..Len(qs) /\ qs[i] = ps[i]
      BY <1>1
    <3> QED
      BY <1>1, <2>2, <3>1, <3>2
  <2>3. CASE k = Len(cs) + 1
    <3>1. Len(ps) + 1 \in 1..Len(qs)
      BY <1>1
    <3> QED
      BY <1>1, <2>3, <3>1
  <2> QED
    BY <2>1, <2>2, <2>3
<1> QED
  BY <1>2 DEF Sized, ds, qs

Packing == [acc \in Halfway |-> [p \in Strings |-> Pack(acc, p)]]

(* What is kept of the pieces ps while they are packed.                      *)
Packed(ps) ==
  {acc \in Halfway :
     /\ InkOfAll(Closed(acc)) = InkOfAll(ps)
     /\ WordsOfAll(Closed(acc)) = WordsOfAll(ps)
     /\ Sized(Closed(acc), ps) /\ Beside(Closed(acc))
     /\ acc.rest = <<>> => acc.done = <<>>}

LEMMA BlankBetween ==
  ASSUME NEW s \in Strings, NEW t \in Strings
  PROVE  /\ Append(s, "blank") \o t \in Strings
         /\ Len(Append(s, "blank") \o t) = Len(s) + 1 + Len(t)
         /\ Ink(Append(s, "blank") \o t) = Ink(s) \o Ink(t)
         /\ Words(Append(s, "blank") \o t) = Words(s) \o Words(t)
<1>1. /\ "blank" \in Characters
      /\ Append(s, "blank") \in Strings /\ Len(Append(s, "blank")) = Len(s) + 1
  BY AppendFacts DEF Characters, Strings
<1>2. Ink(Append(s, "blank")) = Ink(s)
  BY <1>1, InkAppend
<1>3. Words(Append(s, "blank")) = Words(s) /\ Spelt(Append(s, "blank")).rest = <<>>
  BY WordsBeforeBlank
<1>4. /\ Append(s, "blank") \o t \in Strings
      /\ Len(Append(s, "blank") \o t) = Len(Append(s, "blank")) + Len(t)
  BY <1>1, ConcatFacts DEF Strings
<1>5. Ink(Append(s, "blank") \o t) = Ink(Append(s, "blank")) \o Ink(t)
  BY <1>1, InkConcat
<1>6. Words(Append(s, "blank") \o t) = Words(Append(s, "blank")) \o Words(t)
  BY <1>1, <1>3, WordsResume
<1>7. Len(Append(s, "blank") \o t) = Len(s) + 1 + Len(t)
  BY <1>1, <1>4
<1> QED
  BY <1>2, <1>3, <1>4, <1>5, <1>6, <1>7

LEMMA PackKeeps ==
  ASSUME NEW ps \in Seq(Strings), NEW acc \in Packed(ps), NEW p \in Strings, p # <<>>
  PROVE  Pack(acc, p) \in Packed(Append(ps, p))
<1> DEFINE next == Pack(acc, p)
           d    == acc.done
           r    == acc.rest
           cs   == Closed(acc)
           ds   == Closed(next)
<1>1. /\ acc \in Halfway /\ d \in Seq(Strings) /\ r \in Strings /\ cs \in Seq(Strings)
      /\ r = <<>> => cs = d
      /\ r # <<>> => cs = Append(d, r)
  BY ClosedIn DEF Packed
<1>2. /\ InkOfAll(cs) = InkOfAll(ps) /\ WordsOfAll(cs) = WordsOfAll(ps)
      /\ Sized(cs, ps) /\ Beside(cs) /\ (r = <<>> => d = <<>>)
  BY DEF Packed
<1>3. /\ Len(r) \in Nat /\ Len(p) \in Nat
      /\ InkOfAll(Append(ps, p)) = InkOfAll(ps) \o Ink(p)
      /\ WordsOfAll(Append(ps, p)) = WordsOfAll(ps) \o Words(p)
  BY <1>1, EmptyFacts, InkOfAppend, WordsOfAppend DEF Strings
<1>4. next = IF r # <<>> /\ Len(r) + 1 + Len(p) > Target
             THEN [done |-> Append(d, r), rest |-> p]
             ELSE [done |-> d, rest |-> IF r = <<>> THEN p ELSE Append(r, "blank") \o p]
  BY DEF Pack
<1>5. SUFFICES ASSUME next \in Halfway
               PROVE  /\ next \in Halfway
                      /\ InkOfAll(ds) = InkOfAll(Append(ps, p))
                      /\ WordsOfAll(ds) = WordsOfAll(Append(ps, p))
                      /\ Sized(ds, Append(ps, p)) /\ Beside(ds)
                      /\ next.rest = <<>> => next.done = <<>>
  <2>1. Append(d, r) \in Seq(Strings) /\ Append(r, "blank") \o p \in Strings
    BY <1>1, AppendFacts, BlankBetween
  <2> HIDE DEF next, d, r
  <2>2. CASE r # <<>> /\ Len(r) + 1 + Len(p) > Target
    BY <1>4, <2>1, <2>2 DEF Halfway, Packed, next
  <2>3. CASE ~(r # <<>> /\ Len(r) + 1 + Len(p) > Target)
    <3>1. (IF r = <<>> THEN p ELSE Append(r, "blank") \o p) \in Strings
      BY <2>1
    <3>2. next = [done |-> d, rest |-> IF r = <<>> THEN p ELSE Append(r, "blank") \o p]
      BY <1>4, <2>3
    <3>3. next \in Halfway
      BY <1>1, <3>1, <3>2 DEF Halfway
    <3> QED
      BY <3>3 DEF Packed, next
  <2> QED
    BY <2>2, <2>3
<1> HIDE DEF next, d, r, cs
<1>6. CASE r = <<>>
  <2>1. next = [done |-> d, rest |-> p] /\ d = <<>> /\ cs = d
    BY <1>1, <1>2, <1>4, <1>6
  <2>2. next.done = d /\ next.rest = p
    BY <2>1
  <2>3. ds = Append(cs, p)
    BY <1>5, <2>1, <2>2, ClosedIn
  <2> HIDE DEF ds
  <2>4. InkOfAll(ds) = InkOfAll(cs) \o Ink(p) /\ WordsOfAll(ds) = WordsOfAll(cs) \o Words(p)
    BY <1>1, <2>3, InkOfAppend, WordsOfAppend
  <2>5. Sized(ds, Append(ps, p))
    BY <1>1, <1>2, <2>3, SizedAppend
  <2>6. Beside(ds)
    BY <1>1, <1>2, <2>1, <2>3, BesideAppend
  <2> QED
    BY <1>2, <1>3, <1>5, <2>2, <2>4, <2>5, <2>6
<1>7. CASE r # <<>> /\ Len(r) + 1 + Len(p) > Target
  <2>1. next = [done |-> Append(d, r), rest |-> p] /\ cs = Append(d, r)
    BY <1>1, <1>4, <1>7
  <2>2. next.done = cs /\ next.rest = p
    BY <2>1
  <2>3. ds = Append(cs, p)
    BY <1>5, <2>1, <2>2, ClosedIn
  <2> HIDE DEF ds
  <2>4. InkOfAll(ds) = InkOfAll(cs) \o Ink(p) /\ WordsOfAll(ds) = WordsOfAll(cs) \o Words(p)
    BY <1>1, <2>3, InkOfAppend, WordsOfAppend
  <2>5. Sized(ds, Append(ps, p))
    BY <1>1, <1>2, <2>3, SizedAppend
  <2>6. cs[Len(cs)] = r
    BY <1>1, <2>1, AppendFacts
  <2>7. Beside(ds)
    BY <1>1, <1>2, <1>7, <2>3, <2>6, BesideAppend
  <2> QED
    BY <1>2, <1>3, <1>5, <2>2, <2>4, <2>5, <2>7
<1>8. CASE r # <<>> /\ ~(Len(r) + 1 + Len(p) > Target)
  <2> DEFINE b == Append(r, "blank") \o p
  <2>1. next = [done |-> d, rest |-> b] /\ cs = Append(d, r)
    BY <1>1, <1>4, <1>8
  <2>2. /\ b \in Strings /\ Len(b) = Len(r) + 1 + Len(p)
        /\ Ink(b) = Ink(r) \o Ink(p) /\ Words(b) = Words(r) \o Words(p)
    BY <1>1, BlankBetween
  <2> HIDE DEF b
  <2>3. Len(b) <= Target /\ Len(b) >= Len(r) /\ b # <<>>
    <3>1. Len(b) <= Target /\ Len(b) >= Len(r) /\ Len(b) > 0
      BY <1>3, <1>8, <2>2, CapFacts
    <3> QED
      BY <2>2, <3>1, EmptyFacts DEF Strings
  <2>4. next.done = d /\ next.rest = b
    BY <2>1
  <2>5. ds = Append(d, b)
    BY <1>5, <2>3, <2>4, ClosedIn
  <2> HIDE DEF ds
  <2>6. InkOfAll(ds) = InkOfAll(ps) \o Ink(p)
    <3>1. /\ InkOfAll(ds) = InkOfAll(d) \o Ink(b)
          /\ InkOfAll(cs) = InkOfAll(d) \o Ink(r)
      BY <1>1, <2>1, <2>2, <2>5, InkOfAppend
    <3>2. InkOfAll(d) \in Strings /\ Ink(r) \in Strings /\ Ink(p) \in Strings
      BY <1>1, InkOfAdded, InkIn
    <3>3. (InkOfAll(d) \o Ink(r)) \o Ink(p) = InkOfAll(d) \o (Ink(r) \o Ink(p))
      BY <3>2, InkAssociates
    <3> QED
      BY <1>2, <2>2, <3>1, <3>3
  <2>7. WordsOfAll(ds) = WordsOfAll(ps) \o Words(p)
    <3>1. /\ WordsOfAll(ds) = WordsOfAll(d) \o Words(b)
          /\ WordsOfAll(cs) = WordsOfAll(d) \o Words(r)
      BY <1>1, <2>1, <2>2, <2>5, WordsOfAppend
    <3>2. /\ WordsOfAll(d) \in Seq(Strings) /\ Words(r) \in Seq(Strings)
          /\ Words(p) \in Seq(Strings)
      BY <1>1, WordsOfAppend, WordsSpelt
    <3>3. (WordsOfAll(d) \o Words(r)) \o Words(p) = WordsOfAll(d) \o (Words(r) \o Words(p))
      BY <3>2, ListAssociates
    <3> QED
      BY <1>2, <2>2, <3>1, <3>3
  <2>8. Sized(d, ps)
    <3>1. /\ Len(cs) = Len(d) + 1 /\ Len(d) \in Nat /\ \A k \in 1..Len(d) : cs[k] = d[k]
      BY <1>1, <2>1, AppendFacts, EmptyFacts
    <3>2. \A k \in 1..Len(d) : k \in 1..Len(cs)
      BY <3>1
    <3> QED
      BY <1>2, <3>1, <3>2 DEF Sized
  <2>9. Sized(ds, Append(ps, p))
    BY <1>1, <2>2, <2>3, <2>5, <2>8, SizedAppend
  <2>10. Beside(ds)
    BY <1>1, <1>2, <2>1, <2>2, <2>3, <2>5, BesideGrows
  <2> QED
    BY <1>3, <1>5, <2>3, <2>4, <2>6, <2>7, <2>9, <2>10
<1> QED
  BY <1>6, <1>7, <1>8

LEMMA ChunksKeep ==
  ASSUME NEW s \in Strings, NEW cuts
  PROVE  /\ Pieces(Sentences(s, cuts)) \in Seq(Small)
         /\ \E acc \in Packed(Pieces(Sentences(s, cuts))) : Chunks(s, cuts) = Closed(acc)
<1> DEFINE ps   == Pieces(Sentences(s, cuts))
           z(t) == Looped(Packing, Fresh, t)
           X == {t \in Seq(Small) : z(t) \in Packed(t)}
<1>1. <<>> \in X
  <2>1. <<>> \in Seq(Small) /\ z(<<>>) = Fresh /\ Fresh \in Halfway
        /\ Fresh.done = <<>> /\ Fresh.rest = <<>>
    BY LoopedEmpty, FreshFacts, EmptyFacts
  <2>2. Closed(Fresh) = <<>>
    BY <2>1, ClosedIn
  <2>3. Sized(<<>>, <<>>) /\ Beside(<<>>)
    BY DEF Sized, Beside
  <2> QED
    BY <2>1, <2>2, <2>3 DEF Packed
<1>2. ASSUME NEW t \in X, NEW p \in Small PROVE Append(t, p) \in X
  <2>1. t \in Seq(Small) /\ z(t) \in Packed(t) /\ p \in Strings /\ p # <<>>
    BY DEF Small
  <2>2. Append(t, p) \in Seq(Small) /\ t \in Seq(Strings)
    BY <2>1, AppendFacts, SmallStrings
  <2>3. z(Append(t, p)) = Packing[z(t)][p]
    BY <2>1, LoopedAppend
  <2> HIDE DEF z
  <2>4. z(t) \in Halfway
    BY <2>1 DEF Packed
  <2>5. Packing[z(t)][p] = Pack(z(t), p)
    BY <2>1, <2>4 DEF Packing
  <2>6. Pack(z(t), p) \in Packed(Append(t, p))
    BY <2>1, <2>2, PackKeeps
  <2> QED
    BY <2>2, <2>3, <2>5, <2>6
<1>3. ps \in Seq(Small)
  BY SentencesKeep, PiecesKeep
<1>4. Chunks(s, cuts) = Closed(z(ps))
  BY DEF Chunks, Packing, Fresh
<1> HIDE DEF z, ps
<1>5. ps \in X
  <2>1. X \in SUBSET Seq(Small)
    OBVIOUS
  <2> HIDE DEF X
  <2> QED
    BY <1>1, <1>2, <1>3, <2>1, InductiveSequences
<1> QED
  BY <1>3, <1>4, <1>5 DEF ps

(* KeepsText, KeepsWords and Fits for every text and all cuts.               *)
LEMMA TextKept ==
  ASSUME NEW s \in Strings, NEW cuts
  PROVE  KeepsText(s, cuts)
<1> DEFINE ss == Sentences(s, cuts)
<1>1. PICK acc \in Packed(Pieces(ss)) : Chunks(s, cuts) = Closed(acc)
  BY ChunksKeep
<1>2. InkOfAll(Closed(acc)) = InkOfAll(Pieces(ss))
  BY DEF Packed
<1>3. InkOfAll(Pieces(ss)) = InkOfAll(ss) /\ InkOfAll(ss) = Ink(s)
  BY SentencesKeep, PiecesKeep
<1> QED
  BY <1>1, <1>2, <1>3 DEF KeepsText, InkOfAll

LEMMA WordsKept ==
  ASSUME NEW s \in Strings, NEW cuts
  PROVE  KeepsWords(s, cuts)
<1> DEFINE ss    == Sentences(s, cuts)
           words == WordsOfAll(ss)
<1>1. SUFFICES ASSUME \A k \in DOMAIN words : Len(words[k]) <= HardCap
               PROVE  WordsOfAll(Chunks(s, cuts)) = words
  BY DEF KeepsWords
<1>2. ss \in Seq(Whole) /\ ss \in Seq(Strings)
  BY SentencesKeep
<1>3. words \in Seq(Strings)
  BY <1>2, WordsOfAppend, EmptyFacts
<1> HIDE DEF words
<1>4. words \in Seq(Fitting)
  <2>1. \A k \in 1..Len(words) : words[k] \in Fitting
    BY <1>1, <1>3 DEF Fitting
  <2> QED
    BY <1>3, <2>1
<1>5. WordsOfAll(Pieces(ss)) = words
  BY <1>2, <1>4, PiecesKeep DEF words
<1>6. PICK acc \in Packed(Pieces(ss)) : Chunks(s, cuts) = Closed(acc)
  BY ChunksKeep
<1>7. WordsOfAll(Closed(acc)) = WordsOfAll(Pieces(ss))
  BY DEF Packed
<1> QED
  BY <1>5, <1>6, <1>7

LEMMA SizesKept ==
  ASSUME NEW s \in Strings, NEW cuts, Target <= HardCap
  PROVE  Fits(s, cuts)
<1> DEFINE ps == Pieces(Sentences(s, cuts))
           cs == Chunks(s, cuts)
<1>1. ps \in Seq(Small)
  BY ChunksKeep
<1>2. PICK acc \in Packed(ps) : cs = Closed(acc)
  BY ChunksKeep
<1> HIDE DEF ps, cs
<1>3. cs \in Seq(Strings) /\ Sized(cs, ps) /\ Beside(cs)
  BY <1>2, ClosedIn DEF Packed
<1>4. DOMAIN cs = 1..Len(cs) /\ DOMAIN ps = 1..Len(ps)
  BY <1>1, <1>3
<1>5. ASSUME NEW k \in DOMAIN cs
      PROVE  /\ cs[k] # <<>> /\ Len(cs[k]) <= HardCap
             /\ Len(cs[k]) <= Target \/ cs[k] \in ToSet(ps)
  <2>1. /\ k \in 1..Len(cs) /\ cs[k] # <<>>
        /\ Len(cs[k]) <= Target \/ \E i \in 1..Len(ps) : ps[i] = cs[k]
    BY <1>3, <1>4 DEF Sized
  <2>2. CASE Len(cs[k]) <= Target
    <3>1. Len(cs[k]) \in Nat
      BY <1>3, <2>1, EmptyFacts DEF Strings
    <3> QED
      BY <2>1, <2>2, <3>1, CapFacts
  <2>3. CASE \E i \in 1..Len(ps) : ps[i] = cs[k]
    <3>1. PICK i \in 1..Len(ps) : ps[i] = cs[k]
      BY <2>3
    <3>2. ps[i] \in Small /\ i \in DOMAIN ps
      BY <1>1, <1>4
    <3>3. Len(cs[k]) <= HardCap
      BY <3>1, <3>2 DEF Small
    <3>4. cs[k] \in ToSet(ps)
      BY <3>1, <3>2 DEF ToSet
    <3> QED
      BY <2>1, <3>3, <3>4
  <2> QED
    BY <2>1, <2>2, <2>3
<1> QED
  BY <1>3, <1>5 DEF Fits, Beside, ps, cs

(* The chunks of a text of any length, under everything a segmenter can make *)
(* of it, whatever the target and the cap: they say what the text says, in   *)
(* its order; no word that fits is cut in two; and, where the target is      *)
(* within the cap, each is within the cap, is beyond the target only if it   *)
(* is one piece, and would not fit in one chunk with its neighbour.          *)
THEOREM ChunkingIsSound == ASSUME text \in Strings PROVE ChunksSound
<1>1. Strip(text) \in Strings
  BY StripParts
<1>2. ASSUME NEW cuts
      PROVE  /\ KeepsText(Strip(text), cuts) /\ KeepsWords(Strip(text), cuts)
             /\ Target <= HardCap => Fits(Strip(text), cuts)
  BY <1>1, TextKept, WordsKept, SizesKept
<1> QED
  BY <1>2 DEF ChunksSound
================================================================================
