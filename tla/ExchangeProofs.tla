---------------------------- MODULE ExchangeProofs ----------------------------
(***************************************************************************)
(* What holds of Exchange for any number of requests, chunks and frames in *)
(* the socket: as long as no drain has failed, whose frames are on the way *)
(* and what a request has been given.                                      *)
(***************************************************************************)
EXTENDS Exchange, TLAPS

Sent(c)  == pc[c] \in {"header", "body", "yielded"}
Ends(frame) == frame.kind \in {"end", "error"}

(* The frames of its reply that a request has read: the header and so on     *)
Read(c) == IF pc[c] = "header" THEN 0 ELSE Len(heard[c]) + 1

(* The lock is held by the one request that may use the stream, and those    *)
(* behind it are distinct and wait.                                          *)
LockShape ==
  /\ owner = NoOne => queue = <<>>
  /\ owner # NoOne => pc[owner] = "lock" \/ pc[owner] = "draining" \/ Sent(owner)
  /\ \A c \in Clients : pc[c] = "draining" \/ Sent(c) => owner = c
  /\ \A i \in 1..Len(queue) : pc[queue[i]] = "lock" /\ queue[i] # owner
  /\ \A i, j \in 1..Len(queue) : queue[i] = queue[j] => i = j

(* Nothing is known of a request that has not been written.                  *)
Unsent ==
  \A c \in Clients :
    /\ pc[c] \in {"new", "lock", "draining", "header"} => heard[c] = <<>>
    /\ pc[c] \in {"new", "lock", "draining"} =>
         /\ reply[c] = "none" /\ made[c] = 0 /\ serving # c
         /\ \A i \in 1..Len(toChild) : toChild[i] # c

(* A chunk has a number.                                                     *)
Numbered ==
  \A i \in 1..Len(fromChild) : fromChild[i].kind = "chunk" => fromChild[i].n > 0

(* The provider owes at most one reply: the request is on its way, or being  *)
(* served, or its last frame is the last on the way back.  A clean stream    *)
(* owes none.                                                                *)
OneReply ==
  /\ ~alive => serving = NoOne /\ toChild = <<>>
  /\ state = "READY" =>
       /\ ~needsDrain => fromChild = <<>> /\ toChild = <<>> /\ serving = NoOne
       /\ toChild # <<>> =>
            /\ Len(toChild) = 1 /\ serving = NoOne /\ fromChild = <<>>
            /\ reply[toChild[1]] = "none" /\ made[toChild[1]] = 0
       /\ serving # NoOne =>
            \/ reply[serving] = "begun" /\ made[serving] = 0 /\ fromChild = <<>>
            \/ reply[serving] = "streaming"
       /\ \A i \in 1..Len(fromChild) : Ends(fromChild[i]) =>
            i = Len(fromChild) /\ serving = NoOne /\ toChild = <<>>

(* What is on the way while c reads is the rest of its own reply.            *)
Place(c, i) ==
  LET frame == fromChild[i]
      k     == Read(c) + i
  IN /\ frame.of = c
     /\ \/ frame.kind = "header" /\ k = 1
        \/ frame.kind = "chunk" /\ k > 1 /\ frame.n = k - 1
        \/ frame.kind = "end" /\ k > 1 /\ reply[c] = "ended" /\ made[c] = k - 2
        \/ frame.kind = "error"

RestOfReply ==
  state = "READY" => \A c \in Clients : Sent(c) =>
    /\ needsDrain
    /\ toChild # <<>> => toChild[1] = c /\ pc[c] = "header"
    /\ serving # NoOne =>
         /\ serving = c
         /\ reply[c] = "begun" => pc[c] = "header"
         /\ reply[c] = "streaming" => Read(c) + Len(fromChild) = made[c] + 1
    /\ \A i \in 1..Len(fromChild) : Place(c, i)

(* A request that is complete is over on both sides.                         *)
Completed ==
  state = "READY" => \A c \in Clients : outcome[c] = "complete" =>
    /\ pc[c] = "done" /\ serving # c
    /\ \A i \in 1..Len(toChild) : toChild[i] # c

IInv ==
  /\ TypeOK /\ LockShape /\ Unsent /\ Numbered /\ OneReply /\ RestOfReply /\ Completed
  /\ OwnAudio /\ CompleteIsWhole

-----------------------------------------------------------------------------
(* Types, by groups of variables.                                            *)
LockType ==
  /\ owner \in Clients \cup {NoOne} /\ queue \in Seq(Clients)
  /\ pc \in [Clients -> PCs] /\ outcome \in [Clients -> Outcomes]

WireType ==
  /\ state \in {"READY", "FAILED"} /\ needsDrain \in BOOLEAN
  /\ toChild \in Seq(Clients) /\ fromChild \in Seq(Frames)

DataType ==
  /\ heard \in [Clients -> Seq(Chunks)]
  /\ alive \in BOOLEAN /\ serving \in Clients \cup {NoOne}
  /\ reply \in [Clients -> Replies] /\ made \in [Clients -> 0..MaxChunks]

LEMMA TypeParts == TypeOK <=> LockType /\ WireType /\ DataType
  BY DEF TypeOK, LockType, WireType, DataType

LEMMA TypePartsNext == TypeOK' <=> LockType' /\ WireType' /\ DataType'
  BY TypeParts, PTL

(* The first element of a sequence and the rest of it.                       *)
LEMMA TailFacts ==
  ASSUME NEW S, NEW s \in Seq(S), s # <<>>
  PROVE  /\ Len(s) \in Nat \ {0} /\ Head(s) = s[1] /\ s[1] \in S
         /\ Tail(s) \in Seq(S) /\ Len(Tail(s)) = Len(s) - 1
         /\ \A i \in 1..Len(Tail(s)) : Tail(s)[i] = s[i + 1]
  OBVIOUS

(* A sequence without elements.                                              *)
LEMMA NoLength ==
  ASSUME NEW S, NEW s \in Seq(S), Len(s) = 0
  PROVE  s = <<>>
  OBVIOUS

(* A sequence with one element more.                                         *)
LEMMA AppendFacts ==
  ASSUME NEW S, NEW s \in Seq(S), NEW e \in S
  PROVE  /\ Len(s) \in Nat /\ Append(s, e) \in Seq(S)
         /\ Len(Append(s, e)) = Len(s) + 1
         /\ Append(s, e)[Len(s) + 1] = e
         /\ \A i \in 1..Len(s) : Append(s, e)[i] = s[i]
  OBVIOUS

(* A prefix of a sequence.                                                   *)
LEMMA PrefixFacts ==
  ASSUME NEW S, NEW s \in Seq(S), NEW k \in 0..Len(s)
  PROVE  /\ SubSeq(s, 1, k) \in Seq(S) /\ Len(SubSeq(s, 1, k)) = k
         /\ \A i \in 1..k : SubSeq(s, 1, k)[i] = s[i]
  OBVIOUS

-----------------------------------------------------------------------------
(* The start                                                                 *)

LEMMA InitInv == Init => IInv
  <1> SUFFICES ASSUME Init PROVE IInv
    OBVIOUS
  <1>1. TypeOK
    <2>1. <<>> \in Seq(Chunks) /\ <<>> \in Seq(Clients) /\ <<>> \in Seq(Frames)
      OBVIOUS
    <2> HIDE DEF Chunks, Frames
    <2>2. heard \in [Clients -> Seq(Chunks)]
      BY <2>1 DEF Init
    <2>3. made \in [Clients -> 0..MaxChunks]
      BY ExchangeAssumption DEF Init
    <2> QED BY <2>1, <2>2, <2>3 DEF Init, TypeOK, PCs, Outcomes, Replies
  <1>2. LockShape /\ Unsent /\ Numbered
    BY ExchangeAssumption DEF Init, LockShape, Unsent, Sent, Numbered
  <1>3. OneReply /\ RestOfReply
    BY DEF Init, OneReply, RestOfReply, Sent
  <1>4. Completed /\ OwnAudio /\ CompleteIsWhole
    BY DEF Init, Completed, OwnAudio, CompleteIsWhole
  <1> QED BY <1>1, <1>2, <1>3, <1>4 DEF IInv

-----------------------------------------------------------------------------
(* The lock                                                                  *)

(* A request that leaves hands the lock to the first that waits.             *)
LEMMA LeaveLock ==
  ASSUME LockType, LockShape, NEW c \in Clients, owner = c,
         NEW how \in Outcomes, Leave(c, how)
  PROVE  /\ LockType' /\ LockShape'
         /\ \A d \in Clients : pc'[d] = IF d = c THEN "done" ELSE pc[d]
         /\ \A d \in Clients : ~Sent(d)' /\ pc'[d] # "draining"
         /\ outcome' = [outcome EXCEPT ![c] = how]
  <1>1. /\ pc \in [Clients -> PCs] /\ pc' = [pc EXCEPT ![c] = "done"]
        /\ outcome \in [Clients -> Outcomes]
        /\ outcome' = [outcome EXCEPT ![c] = how] /\ queue \in Seq(Clients)
    BY DEF LockType, Leave, Moves
  <1>2. \A d \in Clients : pc'[d] = IF d = c THEN "done" ELSE pc[d]
    BY <1>1
  <1>3. \A d \in Clients : ~Sent(d)' /\ pc'[d] # "draining"
    BY <1>2 DEF LockShape, Sent
  <1>4. pc' \in [Clients -> PCs] /\ outcome' \in [Clients -> Outcomes]
    BY <1>1 DEF PCs
  <1>5. CASE queue = <<>>
    <2>1. owner' = NoOne /\ queue' = <<>>
      BY <1>5 DEF Leave
    <2>2. LockType'
      BY <1>4, <2>1 DEF LockType
    <2>3. LockShape'
      BY <1>3, <2>1 DEF LockShape
    <2> QED BY <1>1, <1>2, <1>3, <2>2, <2>3
  <1>6. CASE queue # <<>>
    <2>1. owner' = queue[1] /\ queue' = Tail(queue)
      BY <1>1, <1>6, TailFacts DEF Leave
    <2>2. /\ Len(queue) \in Nat \ {0} /\ queue[1] \in Clients
          /\ queue' \in Seq(Clients) /\ Len(queue') = Len(queue) - 1
          /\ \A i \in 1..Len(queue') : queue'[i] = queue[i + 1]
      BY <1>1, <1>6, <2>1, TailFacts
    <2>3. LockType'
      BY <1>4, <2>1, <2>2 DEF LockType
    <2>4. \A i \in 1..Len(queue) : queue[i] \in Clients
      BY <1>1
    <2>5. \A i \in 1..Len(queue) : pc'[queue[i]] = "lock"
      BY <1>2, <2>4 DEF LockShape
    <2>6. \A i \in 1..Len(queue') : pc'[queue'[i]] = "lock" /\ queue'[i] # owner'
      BY <2>1, <2>2, <2>5 DEF LockShape
    <2>7. \A i, j \in 1..Len(queue') : queue'[i] = queue'[j] => i = j
      BY <2>2 DEF LockShape
    <2>8. owner' \in Clients /\ pc'[owner'] = "lock"
      BY <2>1, <2>2, <2>5
    <2>9. LockShape'
      BY <1>3, <2>6, <2>7, <2>8, ExchangeAssumption DEF LockShape
    <2> QED BY <1>1, <1>2, <1>3, <2>3, <2>9
  <1> QED BY <1>5, <1>6

(* The owner moves on within its exchange.                                   *)
LEMMA MoveLock ==
  ASSUME LockType, LockShape, NEW c \in Clients, owner = c,
         NEW place \in {"lock", "draining", "header", "body", "yielded"},
         Moves(c, place), UNCHANGED <<owner, queue, outcome>>
  PROVE  /\ LockType' /\ LockShape'
         /\ \A d \in Clients : pc'[d] = IF d = c THEN place ELSE pc[d]
         /\ \A d \in Clients : d # c => ~Sent(d)' /\ ~Sent(d)
  <1>1. /\ pc \in [Clients -> PCs] /\ pc' = [pc EXCEPT ![c] = place]
    BY DEF LockType, Moves
  <1>2. \A d \in Clients : pc'[d] = IF d = c THEN place ELSE pc[d]
    BY <1>1
  <1>3. LockType'
    BY <1>1 DEF LockType, PCs
  <1>4. \A i \in 1..Len(queue) : queue[i] \in Clients
    BY DEF LockType
  <1>5. LockShape'
    BY <1>2, <1>4, ExchangeAssumption DEF LockShape, Sent
  <1>6. \A d \in Clients : d # c => ~Sent(d)' /\ ~Sent(d)
    BY <1>2 DEF LockShape, Sent
  <1> QED BY <1>2, <1>3, <1>5, <1>6

-----------------------------------------------------------------------------
(* What the parts of the invariant are about, one by one                     *)

LEMMA PartsNext ==
  IInv' <=> /\ LockType' /\ WireType' /\ DataType' /\ LockShape' /\ Unsent'
            /\ Numbered' /\ OneReply' /\ RestOfReply' /\ Completed'
            /\ OwnAudio' /\ CompleteIsWhole'
  <1>1. IInv <=> /\ LockType /\ WireType /\ DataType /\ LockShape /\ Unsent
                 /\ Numbered /\ OneReply /\ RestOfReply /\ Completed
                 /\ OwnAudio /\ CompleteIsWhole
    BY TypeParts DEF IInv
  <1> QED BY <1>1, PTL

(* A request is written to a provider that owes nothing, or to one that is   *)
(* given up.                                                                 *)
LEMMA SendInv ==
  ASSUME IInv, NEW c \in Clients, owner = c, pc[c] \in {"lock", "draining"},
         NEW unread \in Seq(Frames), Send(c, unread),
         \A i \in 1..Len(unread) : unread[i].kind = "chunk" => unread[i].n > 0,
         state' \in {"READY", "FAILED"},
         state' = "READY" => /\ state = "READY" /\ unread = <<>>
                             /\ toChild = <<>> /\ serving = NoOne
  PROVE  IInv'
  <1>0. LockType /\ WireType /\ DataType
    BY TypeParts DEF IInv
  <1>1. /\ LockType' /\ LockShape'
        /\ \A d \in Clients : pc'[d] = IF d = c THEN "header" ELSE pc[d]
        /\ \A d \in Clients : d # c => ~Sent(d)'
    BY <1>0, MoveLock DEF IInv, Send
  <1>2. /\ toChild' \in Seq(Clients)
        /\ \A i \in 1..Len(toChild') :
             (i \in 1..Len(toChild) /\ toChild'[i] = toChild[i]) \/ toChild'[i] = c
        /\ toChild = <<>> /\ alive => toChild' = <<c>>
        /\ ~alive => toChild' = toChild
    <2>1. toChild \in Seq(Clients)
      BY <1>0 DEF WireType
    <2>2. CASE ~alive
      <3>1. toChild' = toChild
        BY <2>2 DEF Send
      <3> QED BY <2>1, <2>2, <3>1
    <2>3. CASE alive
      <3>1. toChild' = Append(toChild, c)
        BY <2>3 DEF Send
      <3>2. /\ toChild' \in Seq(Clients) /\ Len(toChild) \in Nat
            /\ Len(toChild') = Len(toChild) + 1
            /\ toChild'[Len(toChild) + 1] = c
            /\ \A i \in 1..Len(toChild) : toChild'[i] = toChild[i]
        BY <2>1, <3>1, AppendFacts
      <3>3. \A i \in 1..Len(toChild') : i \in 1..Len(toChild) \/ i = Len(toChild) + 1
        BY <3>2
      <3>4. toChild = <<>> => toChild' = <<c>>
        BY <3>1
      <3> QED BY <2>3, <3>2, <3>3, <3>4
    <2> QED BY <2>2, <2>3
  <1>3. fromChild' = IF alive THEN unread ELSE <<>>
    BY DEF Send
  <1>4. WireType' /\ DataType'
    <2>1. fromChild' \in Seq(Frames)
      BY <1>3
    <2> QED BY <1>0, <1>2, <2>1 DEF Send, WireType, DataType, providerVars
  <1>5. UNCHANGED <<heard, outcome, providerVars>> /\ needsDrain'
    BY DEF Send
  <1>6. /\ heard[c] = <<>> /\ reply[c] = "none" /\ made[c] = 0
        /\ outcome[c] # "complete" \/ state # "READY"
    BY DEF IInv, Unsent, Completed
  <1>7. Unsent'
    BY <1>1, <1>2, <1>5, <1>6 DEF IInv, Unsent, providerVars
  <1>8. Numbered'
    BY <1>3 DEF Numbered
  <1>9. OneReply'
    <2>1. ~alive => toChild' = <<>> /\ serving = NoOne
      BY <1>2 DEF IInv, OneReply
    <2>2. state' = "READY" => fromChild' = <<>> /\ (alive => toChild' = <<c>>)
      BY <1>2, <1>3
    <2> QED BY <1>5, <1>6, <2>1, <2>2 DEF OneReply, providerVars
  <1>10. RestOfReply'
    <2>1. state' = "READY" => fromChild' = <<>> /\ serving' = NoOne /\ needsDrain'
                              /\ (toChild' # <<>> => toChild'[1] = c)
      BY <1>2, <1>3, <1>5 DEF IInv, OneReply, providerVars
    <2> QED BY <1>1, <2>1 DEF RestOfReply
  <1>11. Completed'
    BY <1>1, <1>2, <1>5, <1>6 DEF IInv, Completed, providerVars
  <1>12. OwnAudio' /\ CompleteIsWhole'
    BY <1>5 DEF IInv, OwnAudio, CompleteIsWhole, providerVars
  <1> QED
    BY <1>1, <1>4, <1>7, <1>8, <1>9, <1>10, <1>11, <1>12, PartsNext

(* A request leaves, complete or not.                                        *)
LEMMA LeaveInv ==
  ASSUME IInv, NEW c \in Clients, owner = c, NEW how \in Outcomes, Leave(c, how),
         WireType', OneReply', Numbered',
         UNCHANGED <<state, heard, toChild, providerVars>>,
         (how = "complete" /\ state = "READY") =>
           /\ reply[c] = "ended" /\ Len(heard[c]) = made[c]
           /\ serving = NoOne /\ toChild = <<>>
  PROVE  IInv'
  <1>0. LockType /\ WireType /\ DataType
    BY TypeParts DEF IInv
  <1>1. /\ LockType' /\ LockShape'
        /\ \A d \in Clients : pc'[d] = IF d = c THEN "done" ELSE pc[d]
        /\ \A d \in Clients : ~Sent(d)' /\ pc'[d] # "draining"
        /\ outcome' = [outcome EXCEPT ![c] = how]
    BY <1>0, LeaveLock DEF IInv
  <1>2. \A d \in Clients : outcome'[d] = IF d = c THEN how ELSE outcome[d]
    BY <1>0, <1>1 DEF LockType
  <1>3. DataType'
    BY <1>0 DEF DataType, providerVars
  <1>4. Unsent'
    BY <1>1 DEF IInv, Unsent, providerVars
  <1>5. RestOfReply'
    BY <1>1 DEF RestOfReply
  <1>6. Completed'
    <2>1. c # NoOne
      BY ExchangeAssumption
    <2>2. state = "READY" /\ toChild = <<>> => Len(toChild) = 0
      OBVIOUS
    <2> QED BY <1>1, <1>2, <2>1, <2>2 DEF IInv, Completed, providerVars
  <1>7. OwnAudio' /\ CompleteIsWhole'
    BY <1>2 DEF IInv, OwnAudio, CompleteIsWhole, providerVars
  <1> QED BY <1>1, <1>3, <1>4, <1>5, <1>6, <1>7, PartsNext

(* A frame is read; the last of a reply leaves nothing on the way.           *)
LEMMA PopFacts ==
  ASSUME IInv, fromChild # <<>>, fromChild' = Tail(fromChild),
         needsDrain' \in BOOLEAN, UNCHANGED <<state, toChild, providerVars>>,
         needsDrain' = needsDrain \/ Ends(fromChild[1])
  PROVE  /\ Head(fromChild) = fromChild[1] /\ fromChild[1] \in Frames
         /\ Len(fromChild) \in Nat \ {0} /\ Len(fromChild') = Len(fromChild) - 1
         /\ \A i \in 1..Len(fromChild') : fromChild'[i] = fromChild[i + 1]
         /\ WireType' /\ OneReply' /\ Numbered'
         /\ state = "READY" /\ Ends(fromChild[1]) =>
              fromChild' = <<>> /\ toChild = <<>> /\ serving = NoOne
  <1>0. WireType
    BY TypeParts DEF IInv
  <1>1. /\ Head(fromChild) = fromChild[1] /\ fromChild[1] \in Frames
        /\ Len(fromChild) \in Nat \ {0} /\ Len(fromChild') = Len(fromChild) - 1
        /\ fromChild' \in Seq(Frames)
        /\ \A i \in 1..Len(fromChild') : fromChild'[i] = fromChild[i + 1]
    BY <1>0, TailFacts DEF WireType
  <1>2. WireType'
    BY <1>0, <1>1 DEF WireType
  <1>3. Numbered'
    BY <1>1 DEF IInv, Numbered
  <1>4. state = "READY" /\ Ends(fromChild[1]) =>
          fromChild' = <<>> /\ toChild = <<>> /\ serving = NoOne
    <2>1. 1 \in 1..Len(fromChild)
      BY <1>1
    <2>2. state = "READY" /\ Ends(fromChild[1]) =>
            1 = Len(fromChild) /\ toChild = <<>> /\ serving = NoOne
      BY <2>1 DEF IInv, OneReply
    <2>3. Len(fromChild) = 1 => fromChild' = <<>>
      BY <1>1
    <2> QED BY <2>2, <2>3
  <1>5. state = "READY" /\ ~Ends(fromChild[1]) => needsDrain'
    BY DEF IInv, OneReply
  <1>6. \A i \in 1..Len(fromChild') :
          /\ i + 1 \in 1..Len(fromChild) /\ fromChild'[i] = fromChild[i + 1]
          /\ i + 1 = Len(fromChild) => i = Len(fromChild')
    <2> TAKE i \in 1..Len(fromChild')
    <2>1. fromChild'[i] = fromChild[i + 1]
      BY <1>1
    <2>2. Len(fromChild) \in Nat \ {0} /\ Len(fromChild') = Len(fromChild) - 1
      BY <1>1
    <2>3. i \in Nat /\ i >= 1 /\ i <= Len(fromChild) - 1
      BY <2>2
    <2>4. i + 1 \in 1..Len(fromChild)
      BY <2>2, <2>3
    <2>5. i + 1 = Len(fromChild) => i = Len(fromChild')
      <3>1. ASSUME NEW n \in Nat \ {0}, i + 1 = n PROVE i = n - 1
        BY <2>3, <3>1
      <3> QED BY <2>2, <3>1
    <2> QED BY <2>1, <2>4, <2>5
  <1>7. OneReply'
    <2>1. state = "READY" => (toChild = <<>>
             /\ (serving # NoOne => reply[serving] = "streaming"))
      BY DEF IInv, OneReply
    <2>2. state = "READY" => \A i \in 1..Len(fromChild') : Ends(fromChild'[i]) =>
            i = Len(fromChild') /\ serving = NoOne /\ toChild = <<>>
      BY <1>6 DEF IInv, OneReply, Ends
    <2> QED
      BY <1>4, <1>5, <2>1, <2>2 DEF IInv, OneReply, Ends, providerVars
  <1> QED BY <1>1, <1>2, <1>3, <1>4, <1>7

(* A frame is read and the request goes on: what is left is still the rest   *)
(* of its reply.                                                             *)
LEMMA ShiftInv ==
  ASSUME IInv, NEW c \in Clients, owner = c, Sent(c), fromChild # <<>>,
         fromChild' = Tail(fromChild), NEW place \in {"body", "yielded"},
         Moves(c, place), DataType', OwnAudio',
         UNCHANGED <<state, needsDrain, owner, queue, outcome, toChild, providerVars>>,
         \A d \in Clients : d # c => heard'[d] = heard[d],
         state = "READY" => Read(c) \in Nat /\ Read(c)' = Read(c) + 1
                            /\ ~Ends(fromChild[1])
  PROVE  IInv'
  <1>0. LockType /\ WireType /\ DataType
    BY TypeParts DEF IInv
  <1>1. /\ LockType' /\ LockShape'
        /\ \A d \in Clients : pc'[d] = IF d = c THEN place ELSE pc[d]
        /\ \A d \in Clients : d # c => ~Sent(d)' /\ ~Sent(d)
    BY <1>0, MoveLock DEF IInv
  <1>2. /\ Len(fromChild) \in Nat \ {0} /\ Len(fromChild') = Len(fromChild) - 1
        /\ \A i \in 1..Len(fromChild') : fromChild'[i] = fromChild[i + 1]
        /\ WireType' /\ OneReply' /\ Numbered'
    <2>1. needsDrain' \in BOOLEAN /\ needsDrain' = needsDrain
      BY <1>0 DEF WireType
    <2> QED BY <2>1, PopFacts
  <1>3. Unsent'
    BY <1>1 DEF IInv, Unsent, providerVars
  <1>4. Completed'
    BY <1>1 DEF IInv, Completed, Sent, providerVars
  <1>5. CompleteIsWhole'
    <2>1. \A d \in Clients : state = "READY" /\ outcome[d] = "complete" => d # c
      BY DEF IInv, Completed, Sent
    <2> QED BY <2>1 DEF IInv, CompleteIsWhole, providerVars
  <1>6. RestOfReply'
    <2> SUFFICES ASSUME state = "READY" PROVE RestOfReply'
      BY DEF RestOfReply
    <2>1. /\ needsDrain /\ toChild = <<>>
          /\ serving # NoOne => serving = c /\ reply[c] = "streaming"
                                /\ Read(c) + Len(fromChild) = made[c] + 1
          /\ \A i \in 1..Len(fromChild) : Place(c, i)
      BY DEF IInv, RestOfReply, OneReply
    <2>2. \A i \in 1..Len(fromChild') : i + 1 \in 1..Len(fromChild) /\ i \in Nat
      BY <1>2
    <2>3. ASSUME NEW i \in 1..Len(fromChild') PROVE Place(c, i)'
      <3>1. Place(c, i + 1) /\ fromChild'[i] = fromChild[i + 1] /\ i \in Nat
        BY <1>2, <2>1, <2>2
      <3>2. Read(c) + (i + 1) = Read(c)' + i
        BY <3>1
      <3> QED BY <3>1, <3>2 DEF Place, providerVars
    <2>4. Read(c)' + Len(fromChild') = Read(c) + Len(fromChild)
      BY <1>2
    <2>5. RestOfReply' <=>
            \A d \in Clients : Sent(d)' =>
              /\ needsDrain'
              /\ toChild' # <<>> => toChild'[1] = d /\ pc'[d] = "header"
              /\ serving' # NoOne =>
                   /\ serving' = d
                   /\ reply'[d] = "begun" => pc'[d] = "header"
                   /\ reply'[d] = "streaming" => Read(d)' + Len(fromChild') = made'[d] + 1
              /\ \A i \in 1..Len(fromChild') : Place(d, i)'
      BY DEF RestOfReply
    <2>6. UNCHANGED <<serving, reply, made>>
      BY DEF providerVars
    <2> QED BY <1>1, <2>1, <2>3, <2>4, <2>5, <2>6
  <1> QED BY <1>1, <1>2, <1>3, <1>4, <1>5, <1>6, PartsNext

-----------------------------------------------------------------------------
(* The daemon's steps                                                        *)

LEMMA ArriveInv == ASSUME IInv, NEW c \in Clients, Arrive(c) PROVE IInv'
  <1>0. LockType /\ WireType /\ DataType
    BY TypeParts DEF IInv
  <1>1. /\ pc[c] = "new" /\ pc \in [Clients -> PCs] /\ queue \in Seq(Clients)
        /\ pc' = [pc EXCEPT ![c] = "lock"]
        /\ UNCHANGED <<state, needsDrain, heard, outcome, toChild, fromChild,
                       alive, serving, reply, made>>
    BY <1>0 DEF LockType, Arrive, Moves, providerVars
  <1>2. \A d \in Clients : pc'[d] = IF d = c THEN "lock" ELSE pc[d]
    BY <1>1
  <1>3. pc' \in [Clients -> PCs]
    BY <1>1 DEF PCs
  <1>4. c # owner /\ \A i \in 1..Len(queue) : queue[i] # c /\ queue[i] \in Clients
    BY <1>1, ExchangeAssumption DEF IInv, LockShape, Sent
  <1>5. LockType' /\ LockShape'
    <2>1. CASE owner = NoOne
      <3>1. owner' = c /\ queue' = <<>>
        BY <2>1 DEF Arrive, IInv, LockShape
      <3>2. LockType'
        BY <1>0, <1>1, <1>3, <3>1 DEF LockType
      <3>3. \A d \in Clients : pc[d] # "draining" /\ ~Sent(d)
        BY <2>1, ExchangeAssumption DEF IInv, LockShape
      <3>4. LockShape'
        BY <1>2, <3>1, <3>3 DEF LockShape, Sent
      <3> QED BY <3>2, <3>4
    <2>2. CASE owner # NoOne
      <3>1. owner' = owner /\ queue' = Append(queue, c)
        BY <2>2 DEF Arrive
      <3>2. /\ Len(queue) \in Nat /\ queue' \in Seq(Clients)
            /\ Len(queue') = Len(queue) + 1
            /\ queue'[Len(queue) + 1] = c
            /\ \A i \in 1..Len(queue) : queue'[i] = queue[i]
        BY <1>1, <3>1, AppendFacts
      <3>3. LockType'
        BY <1>0, <1>1, <1>3, <3>1, <3>2 DEF LockType
      <3>4. \A i \in 1..Len(queue') : i \in 1..Len(queue) \/ i = Len(queue) + 1
        BY <3>2
      <3>5. \A i \in 1..Len(queue') : pc'[queue'[i]] = "lock" /\ queue'[i] # owner'
        BY <1>2, <1>4, <3>1, <3>2, <3>4 DEF IInv, LockShape
      <3>6. \A i, j \in 1..Len(queue') : queue'[i] = queue'[j] => i = j
        BY <1>4, <3>2, <3>4 DEF IInv, LockShape
      <3>7. owner \in Clients
        BY <1>0, <2>2 DEF LockType
      <3>8. LockShape'
        BY <1>2, <1>4, <2>2, <3>1, <3>5, <3>6, <3>7 DEF IInv, LockShape, Sent
      <3> QED BY <3>3, <3>8
    <2> QED BY <2>1, <2>2
  <1>6. WireType' /\ DataType' /\ Numbered'
    BY <1>0, <1>1 DEF IInv, WireType, DataType, Numbered
  <1>7. Unsent'
    BY <1>1, <1>2 DEF IInv, Unsent
  <1>8. OneReply'
    BY <1>1 DEF IInv, OneReply, Ends
  <1>9. \A d \in Clients : Sent(d)' => Sent(d) /\ pc'[d] = pc[d]
    BY <1>2 DEF Sent
  <1>10. RestOfReply'
    BY <1>1, <1>9 DEF IInv, RestOfReply, Place, Read
  <1>11. Completed' /\ OwnAudio' /\ CompleteIsWhole'
    BY <1>1, <1>2 DEF IInv, Completed, OwnAudio, CompleteIsWhole
  <1> QED BY <1>5, <1>6, <1>7, <1>8, <1>10, <1>11, PartsNext

LEMMA BeginInv == ASSUME IInv, NEW c \in Clients, Begin(c) PROVE IInv'
  <1>0. LockType /\ WireType /\ DataType
    BY TypeParts DEF IInv
  <1>1. pc[c] = "lock" /\ owner = c /\ state' = state
    BY DEF Begin
  <1>2. CASE needsDrain
    <2>1. /\ Moves(c, "draining") /\ UNCHANGED <<owner, queue, outcome>>
          /\ UNCHANGED <<state, needsDrain, heard, toChild, fromChild, providerVars>>
      BY <1>2 DEF Begin
    <2>2. /\ LockType' /\ LockShape'
          /\ \A d \in Clients : pc'[d] = IF d = c THEN "draining" ELSE pc[d]
          /\ \A d \in Clients : d # c => ~Sent(d)' /\ ~Sent(d)
      BY <1>0, <1>1, <2>1, MoveLock DEF IInv
    <2>3. WireType' /\ DataType' /\ Numbered' /\ OneReply'
      BY <1>0, <2>1 DEF IInv, WireType, DataType, Numbered, OneReply, Ends, providerVars
    <2>4. RestOfReply'
      BY <2>2 DEF RestOfReply, Sent
    <2>5. Unsent' /\ Completed' /\ OwnAudio' /\ CompleteIsWhole'
      BY <1>1, <2>1, <2>2
      DEF IInv, Unsent, Completed, OwnAudio, CompleteIsWhole, providerVars
    <2> QED BY <2>2, <2>3, <2>4, <2>5, PartsNext
  <1>3. CASE ~needsDrain
    <2>1. Send(c, fromChild)
      BY <1>3 DEF Begin
    <2>2. fromChild \in Seq(Frames) /\ state' \in {"READY", "FAILED"}
      BY <1>0, <1>1 DEF WireType
    <2>3. state' = "READY" => state = "READY" /\ fromChild = <<>>
                              /\ toChild = <<>> /\ serving = NoOne
      BY <1>1, <1>3 DEF IInv, OneReply
    <2>4. \A i \in 1..Len(fromChild) : fromChild[i].kind = "chunk" => fromChild[i].n > 0
      BY DEF IInv, Numbered
    <2> QED BY <1>1, <2>1, <2>2, <2>3, <2>4, SendInv
  <1> QED BY <1>2, <1>3

LEMMA DrainInv == ASSUME IInv, NEW c \in Clients, Drain(c) PROVE IInv'
  <1>0. LockType /\ WireType /\ DataType
    BY TypeParts DEF IInv
  <1>1. pc[c] = "draining" /\ owner = c /\ state' = state /\ fromChild # <<>>
    BY DEF Drain, IInv, LockShape
  <1>2. \A d \in Clients : ~Sent(d)
    BY <1>1 DEF IInv, LockShape, Sent
  <1>3. CASE Head(fromChild).kind = "end"
    <2>1. Send(c, Tail(fromChild))
      BY <1>3 DEF Drain
    <2>2. /\ Len(fromChild) \in Nat \ {0} /\ Head(fromChild) = fromChild[1]
          /\ Tail(fromChild) \in Seq(Frames)
          /\ Len(Tail(fromChild)) = Len(fromChild) - 1
          /\ \A i \in 1..Len(Tail(fromChild)) : Tail(fromChild)[i] = fromChild[i + 1]
      BY <1>0, <1>1, TailFacts DEF WireType
    <2>3. state = "READY" => 1 = Len(fromChild) /\ serving = NoOne /\ toChild = <<>>
      <3>1. 1 \in 1..Len(fromChild) /\ Ends(fromChild[1])
        BY <1>3, <2>2 DEF Ends
      <3> QED BY <3>1 DEF IInv, OneReply
    <2>4. 1 = Len(fromChild) => Tail(fromChild) = <<>>
      <3>1. ASSUME 1 = Len(fromChild) PROVE Len(Tail(fromChild)) = 0
        <4>1. Len(Tail(fromChild)) = 1 - 1
          BY <2>2, <3>1
        <4> QED BY <4>1
      <3> QED BY <2>2, <3>1, NoLength
    <2>5. \A i \in 1..Len(Tail(fromChild)) :
            Tail(fromChild)[i].kind = "chunk" => Tail(fromChild)[i].n > 0
      <3>1. \A i \in 1..Len(Tail(fromChild)) : i + 1 \in 1..Len(fromChild)
        BY <2>2
      <3> QED BY <2>2, <3>1 DEF IInv, Numbered
    <2>6. state' \in {"READY", "FAILED"}
      BY <1>0, <1>1 DEF WireType
    <2> QED BY <1>1, <2>1, <2>2, <2>3, <2>4, <2>5, <2>6, SendInv
  <1>4. CASE Head(fromChild).kind # "end"
    <2>1. /\ fromChild' = Tail(fromChild) /\ needsDrain' = needsDrain
          /\ UNCHANGED <<state, toChild, providerVars>>
          /\ UNCHANGED <<owner, queue, pc, heard, outcome>>
      BY <1>1, <1>4 DEF Drain
    <2>2. needsDrain' \in BOOLEAN
      BY <1>0, <2>1 DEF WireType
    <2>3. WireType' /\ OneReply' /\ Numbered'
      BY <1>1, <2>1, <2>2, PopFacts
    <2>4. LockType' /\ DataType'
      BY <1>0, <2>1 DEF LockType, DataType, providerVars
    <2>5. LockShape' /\ Unsent'
      BY <2>1 DEF IInv, LockShape, Unsent, Sent, providerVars
    <2>6. RestOfReply'
      BY <1>2, <2>1 DEF RestOfReply, Sent
    <2>7. Completed' /\ OwnAudio' /\ CompleteIsWhole'
      BY <2>1 DEF IInv, Completed, OwnAudio, CompleteIsWhole, providerVars
    <2> QED BY <2>3, <2>4, <2>5, <2>6, <2>7, PartsNext
  <1> QED BY <1>3, <1>4

LEMMA DrainFailsInv == ASSUME IInv, NEW c \in Clients, DrainFails(c) PROVE IInv'
  <1>1. fromChild = <<>> /\ <<>> \in Seq(Frames) /\ Send(c, <<>>)
        /\ pc[c] = "draining" /\ state' = "FAILED"
    BY DEF DrainFails
  <1>2. owner = c
    BY <1>1 DEF IInv, LockShape
  <1>3. \A i \in 1..Len(<<>>) : <<>>[i].kind = "chunk" => <<>>[i].n > 0
    OBVIOUS
  <1> QED BY <1>1, <1>2, <1>3, SendInv

LEMMA ResumeInv == ASSUME IInv, NEW c \in Clients, Resume(c) PROVE IInv'
  <1>0. LockType /\ WireType /\ DataType
    BY TypeParts DEF IInv
  <1>1. /\ Moves(c, "body") /\ UNCHANGED <<owner, queue, outcome>>
        /\ UNCHANGED <<state, needsDrain, heard, toChild, fromChild, providerVars>>
    BY DEF Resume
  <1>2. pc[c] = "yielded" /\ owner = c /\ Sent(c)
    BY DEF Resume, IInv, LockShape, Sent
  <1>3. /\ LockType' /\ LockShape'
        /\ \A d \in Clients : pc'[d] = IF d = c THEN "body" ELSE pc[d]
        /\ \A d \in Clients : d # c => ~Sent(d)' /\ ~Sent(d)
    BY <1>0, <1>1, <1>2, MoveLock DEF IInv
  <1>4. WireType' /\ DataType' /\ Numbered' /\ OneReply'
    BY <1>0, <1>1 DEF IInv, WireType, DataType, Numbered, OneReply, Ends, providerVars
  <1>5. Read(c)' = Read(c)
    BY <1>1, <1>2, <1>3 DEF Read
  <1>6. RestOfReply'
    BY <1>1, <1>2, <1>3, <1>5 DEF IInv, RestOfReply, Place, providerVars
  <1>7. Unsent' /\ Completed' /\ OwnAudio' /\ CompleteIsWhole'
    BY <1>1, <1>2, <1>3
    DEF IInv, Unsent, Completed, OwnAudio, CompleteIsWhole, providerVars
  <1> QED BY <1>3, <1>4, <1>6, <1>7, PartsNext

(* Both leave the stream as it stands.                                       *)
LEMMA LeaveOnlyInv ==
  ASSUME IInv, NEW c \in Clients, Sent(c), Leave(c, "error") \/ Leave(c, "aborted"),
         UNCHANGED <<state, needsDrain, heard, toChild, fromChild, providerVars>>
  PROVE  IInv'
  <1>0. LockType /\ WireType /\ DataType
    BY TypeParts DEF IInv
  <1>1. owner = c
    BY DEF IInv, LockShape
  <1>2. PICK how \in {"error", "aborted"} : Leave(c, how)
    OBVIOUS
  <1>3. WireType' /\ OneReply' /\ Numbered'
    BY <1>0 DEF IInv, WireType, OneReply, Numbered, Ends, providerVars
  <1>4. how \in Outcomes /\ how # "complete"
    BY DEF Outcomes
  <1> QED BY <1>1, <1>2, <1>3, <1>4, LeaveInv

LEMMA EofInv == ASSUME IInv, NEW c \in Clients, Eof(c) PROVE IInv'
  BY LeaveOnlyInv DEF Eof, Sent

LEMMA AbandonInv == ASSUME IInv, NEW c \in Clients, Abandon(c) PROVE IInv'
  BY LeaveOnlyInv DEF Abandon, Sent

LEMMA ReadHeaderInv == ASSUME IInv, NEW c \in Clients, ReadHeader(c) PROVE IInv'
  <1>0. LockType /\ WireType /\ DataType
    BY TypeParts DEF IInv
  <1>1. /\ pc[c] = "header" /\ fromChild # <<>> /\ fromChild' = Tail(fromChild)
        /\ UNCHANGED <<state, heard, toChild, providerVars>>
    BY DEF ReadHeader
  <1>2. Sent(c) /\ owner = c /\ heard[c] = <<>>
    BY <1>1 DEF IInv, LockShape, Unsent, Sent
  <1>3. Head(fromChild) = fromChild[1] /\ 1 \in 1..Len(fromChild)
    BY <1>0, <1>1, TailFacts DEF WireType
  <1>4. CASE Head(fromChild).kind = "header" /\ Moves(c, "body")
             /\ UNCHANGED <<needsDrain, owner, queue, outcome>>
    <2>1. DataType' /\ OwnAudio'
      BY <1>0, <1>1 DEF IInv, DataType, OwnAudio, providerVars
    <2>2. pc'[c] = "body"
      BY <1>0, <1>4 DEF LockType, Moves
    <2>3. Read(c) = 0 /\ Read(c)' = 1
      BY <1>1, <1>2, <2>2 DEF Read
    <2>4. ~Ends(fromChild[1])
      BY <1>3, <1>4 DEF Ends
    <2>5. \A d \in Clients : d # c => heard'[d] = heard[d]
      BY <1>1
    <2> QED BY <1>1, <1>2, <1>4, <2>1, <2>3, <2>4, <2>5, ShiftInv
  <1>5. CASE /\ \/ Head(fromChild).kind = "error" /\ needsDrain' = FALSE
                \/ UNCHANGED needsDrain
             /\ Leave(c, "error")
    <2>1. needsDrain' \in BOOLEAN /\ (needsDrain' = needsDrain \/ Ends(fromChild[1]))
      BY <1>0, <1>3, <1>5 DEF WireType, Ends
    <2>2. WireType' /\ OneReply' /\ Numbered'
      BY <1>1, <2>1, PopFacts
    <2>3. "error" \in Outcomes
      BY DEF Outcomes
    <2> QED BY <1>1, <1>2, <1>5, <2>2, <2>3, LeaveInv
  <1> QED BY <1>4, <1>5 DEF ReadHeader

LEMMA ReadBodyInv == ASSUME IInv, NEW c \in Clients, ReadBody(c) PROVE IInv'
  <1>0. LockType /\ WireType /\ DataType
    BY TypeParts DEF IInv
  <1>1. /\ pc[c] = "body" /\ fromChild # <<>> /\ fromChild' = Tail(fromChild)
        /\ UNCHANGED <<state, toChild, providerVars>>
    BY DEF ReadBody
  <1>2. Sent(c) /\ owner = c
    BY <1>1 DEF IInv, LockShape, Sent
  <1>3. /\ Head(fromChild) = fromChild[1] /\ 1 \in 1..Len(fromChild)
        /\ fromChild[1] \in Frames
    BY <1>0, <1>1, TailFacts DEF WireType
  <1>4. heard[c] \in Seq(Chunks) /\ Len(heard[c]) \in Nat
    BY <1>0 DEF DataType
  <1>5. Read(c) = Len(heard[c]) + 1 /\ Read(c) \in Nat
    BY <1>1, <1>4 DEF Read
  <1>6. state = "READY" => Place(c, 1)
    BY <1>2, <1>3 DEF IInv, RestOfReply
  <1>7. CASE /\ fromChild[1].kind = "chunk" /\ Moves(c, "yielded")
             /\ heard' = [heard EXCEPT ![c] =
                            Append(@, [of |-> fromChild[1].of, n |-> fromChild[1].n])]
             /\ UNCHANGED <<needsDrain, owner, queue, outcome>>
    <2> DEFINE e == [of |-> fromChild[1].of, n |-> fromChild[1].n]
    <2>1. e \in Chunks
      <3>1. fromChild[1].n > 0
        BY <1>3, <1>7 DEF IInv, Numbered
      <3>2. fromChild[1].of \in Clients /\ fromChild[1].n \in 0..MaxChunks
        BY <1>3 DEF Frames
      <3> QED BY <3>1, <3>2, ExchangeAssumption DEF Chunks
    <2>2. heard' = [heard EXCEPT ![c] = Append(heard[c], e)]
      BY <1>7
    <2> HIDE DEF e
    <2>3. /\ Append(heard[c], e) \in Seq(Chunks)
          /\ Len(Append(heard[c], e)) = Len(heard[c]) + 1
          /\ Append(heard[c], e)[Len(heard[c]) + 1] = e
          /\ \A i \in 1..Len(heard[c]) : Append(heard[c], e)[i] = heard[c][i]
      BY <1>4, <2>1, AppendFacts
    <2>4. \A d \in Clients :
            heard'[d] = IF d = c THEN Append(heard[c], e) ELSE heard[d]
      BY <1>0, <2>2 DEF DataType
    <2>5. DataType'
      BY <1>0, <1>1, <2>2, <2>3 DEF DataType, providerVars
    <2>6. state = "READY" => e = [of |-> c, n |-> Len(heard[c]) + 1]
      BY <1>3, <1>4, <1>5, <1>6, <1>7 DEF Place, e, Frames
    <2>7. OwnAudio'
      <3> SUFFICES ASSUME state = "READY", NEW d \in Clients, NEW k \in 1..Len(heard'[d])
                   PROVE  heard'[d][k] = [of |-> d, n |-> k]
        BY <1>1 DEF OwnAudio
      <3>1. CASE d # c
        <4>1. heard'[d] = heard[d]
          BY <2>4, <3>1
        <4> QED BY <4>1 DEF IInv, OwnAudio
      <3>2. CASE d = c
        <4>1. heard'[d] = Append(heard[c], e)
          BY <2>4, <3>2
        <4>2. k \in 1..(Len(heard[c]) + 1)
          BY <2>3, <4>1
        <4>3. k \in 1..Len(heard[c]) \/ k = Len(heard[c]) + 1
          BY <1>4, <4>2
        <4>4. k \in 1..Len(heard[c]) => heard'[d][k] = [of |-> d, n |-> k]
          BY <2>3, <3>2, <4>1 DEF IInv, OwnAudio
        <4>5. k = Len(heard[c]) + 1 => heard'[d][k] = [of |-> d, n |-> k]
          BY <2>3, <2>6, <3>2, <4>1
        <4> QED BY <4>3, <4>4, <4>5
      <3> QED BY <3>1, <3>2
    <2>8. pc'[c] = "yielded"
      BY <1>0, <1>7 DEF LockType, Moves
    <2>9. Read(c)' = Read(c) + 1
      BY <1>4, <1>5, <2>3, <2>4, <2>8 DEF Read
    <2>10. ~Ends(fromChild[1])
      BY <1>7 DEF Ends
    <2>11. \A d \in Clients : d # c => heard'[d] = heard[d]
      BY <2>4
    <2> QED BY <1>1, <1>2, <1>5, <1>7, <2>5, <2>7, <2>9, <2>10, <2>11, ShiftInv
  <1>8. CASE /\ fromChild[1].kind = "end" /\ needsDrain' = FALSE
             /\ Leave(c, "complete") /\ UNCHANGED heard
    <2>1. Ends(fromChild[1]) /\ needsDrain' \in BOOLEAN
      BY <1>8 DEF Ends
    <2>2. /\ WireType' /\ OneReply' /\ Numbered'
          /\ state = "READY" => toChild = <<>> /\ serving = NoOne
      BY <1>1, <2>1, PopFacts
    <2>3. state = "READY" => reply[c] = "ended" /\ Len(heard[c]) = made[c]
      BY <1>4, <1>5, <1>6, <1>8 DEF Place
    <2>4. "complete" \in Outcomes
      BY DEF Outcomes
    <2> QED BY <1>1, <1>2, <1>8, <2>2, <2>3, <2>4, LeaveInv
  <1>9. CASE /\ fromChild[1].kind = "error" /\ Leave(c, "error")
             /\ UNCHANGED <<needsDrain, heard>>
    <2>1. WireType' /\ OneReply' /\ Numbered'
      <3>1. needsDrain' \in BOOLEAN /\ needsDrain' = needsDrain
        BY <1>0, <1>9 DEF WireType
      <3> QED BY <1>1, <3>1, PopFacts
    <2>2. "error" \in Outcomes
      BY DEF Outcomes
    <2> QED BY <1>1, <1>2, <1>9, <2>1, <2>2, LeaveInv
  <1>10. CASE /\ fromChild[1].kind = "header"
              /\ UNCHANGED <<needsDrain, owner, queue, pc, outcome, heard>>
    <2>1. state # "READY"      \* no provider writes two headers
      BY <1>4, <1>5, <1>6, <1>10 DEF Place
    <2>2. /\ Moves(c, "body") /\ DataType' /\ OwnAudio'
          /\ UNCHANGED <<state, needsDrain, owner, queue, outcome, toChild, providerVars>>
      <3>1. pc = [pc EXCEPT ![c] = "body"]
        BY <1>0, <1>1 DEF LockType
      <3> QED BY <1>0, <1>1, <1>10, <3>1 DEF IInv, Moves, DataType, OwnAudio, providerVars
    <2>3. \A d \in Clients : d # c => heard'[d] = heard[d]
      BY <1>10
    <2> QED BY <1>1, <1>2, <2>1, <2>2, <2>3, ShiftInv
  <1> QED BY <1>3, <1>7, <1>8, <1>9, <1>10 DEF ReadBody

-----------------------------------------------------------------------------
(* The provider's steps                                                      *)

(* The provider writes one more frame of the reply it is making.             *)
LEMMA WroteInv ==
  ASSUME IInv, serving # NoOne, UNCHANGED <<daemonVars, toChild, alive>>,
         NEW kind \in {"header", "chunk", "end", "error"}, NEW n \in 0..MaxChunks,
         Writes(kind, n), kind = "chunk" => n > 0,
         DataType', serving' \in {serving, NoOne},
         \A d \in Clients : d # serving => reply'[d] = reply[d] /\ made'[d] = made[d],
         kind \in {"end", "error"} => serving' = NoOne,
         serving' # NoOne => reply'[serving] = "streaming",
         (state = "READY" /\ Sent(serving)) =>
           LET k == Read(serving) + Len(fromChild) + 1
           IN /\ \/ kind = "header" /\ k = 1
                 \/ kind = "chunk" /\ k > 1 /\ n = k - 1
                 \/ kind = "end" /\ k > 1 /\ reply'[serving] = "ended"
                                 /\ made'[serving] = k - 2
                 \/ kind = "error"
              /\ serving' # NoOne => k = made'[serving] + 1
  PROVE  IInv'
  <1>0. LockType /\ WireType /\ DataType
    BY TypeParts DEF IInv
  <1> DEFINE e == [kind |-> kind, of |-> serving, n |-> n]
  <1>1. serving \in Clients /\ e \in Frames
    BY <1>0 DEF DataType, Frames
  <1>2. fromChild' = Append(fromChild, e)
    BY DEF Writes
  <1>3. e.kind = kind /\ e.of = serving /\ e.n = n
    OBVIOUS
  <1> HIDE DEF e
  <1>4. /\ Len(fromChild) \in Nat /\ fromChild' \in Seq(Frames)
        /\ Len(fromChild') = Len(fromChild) + 1
        /\ fromChild'[Len(fromChild) + 1] = e
        /\ \A i \in 1..Len(fromChild) : fromChild'[i] = fromChild[i]
    BY <1>0, <1>1, <1>2, AppendFacts DEF WireType
  <1>5. \A i \in 1..Len(fromChild') : i \in 1..Len(fromChild) \/ i = Len(fromChild) + 1
    BY <1>4
  <1>6. UNCHANGED <<state, needsDrain, owner, queue, pc, heard, outcome, toChild, alive>>
    BY DEF daemonVars
  <1>7. LockType' /\ WireType' /\ LockShape' /\ OwnAudio'
    <2>1. LockType' /\ WireType'
      BY <1>0, <1>4, <1>6 DEF LockType, WireType
    <2>2. LockShape'
      BY <1>6 DEF IInv, LockShape, Sent
    <2>3. OwnAudio'
      BY <1>6 DEF IInv, OwnAudio
    <2> QED BY <2>1, <2>2, <2>3
  <1>8. Numbered'
    BY <1>3, <1>4, <1>5 DEF IInv, Numbered
  <1>9. Unsent'
    BY <1>6, ExchangeAssumption DEF IInv, Unsent
  <1>10. Completed' /\ CompleteIsWhole'
    BY <1>6, ExchangeAssumption DEF IInv, Completed, CompleteIsWhole
  <1>11. state = "READY" =>
           /\ needsDrain /\ toChild = <<>>
           /\ \A i \in 1..Len(fromChild) : ~Ends(fromChild[i])
    BY DEF IInv, OneReply
  <1>12. OneReply'
    <2>1. ~alive' => serving' = NoOne /\ toChild' = <<>>
      BY <1>6 DEF IInv, OneReply
    <2>2. Ends(e) => serving' = NoOne
      BY <1>3 DEF Ends
    <2>3. state' = "READY" => \A i \in 1..Len(fromChild') : Ends(fromChild'[i]) =>
            i = Len(fromChild') /\ serving' = NoOne /\ toChild' = <<>>
      <3>1. ASSUME state = "READY", NEW i \in 1..Len(fromChild'), Ends(fromChild'[i])
            PROVE  i = Len(fromChild') /\ serving' = NoOne
        <4>1. i \notin 1..Len(fromChild)
          BY <1>4, <1>11, <3>1
        <4>2. i = Len(fromChild) + 1
          BY <1>5, <4>1
        <4> QED BY <1>4, <2>2, <3>1, <4>2
      <3> QED BY <1>6, <1>11, <3>1
    <2>4. OneReply' <=>
            /\ ~alive' => serving' = NoOne /\ toChild' = <<>>
            /\ state' = "READY" =>
                 /\ ~needsDrain' => fromChild' = <<>> /\ toChild' = <<>> /\ serving' = NoOne
                 /\ toChild' # <<>> =>
                      /\ Len(toChild') = 1 /\ serving' = NoOne /\ fromChild' = <<>>
                      /\ reply'[toChild'[1]] = "none" /\ made'[toChild'[1]] = 0
                 /\ serving' # NoOne =>
                      \/ reply'[serving'] = "begun" /\ made'[serving'] = 0 /\ fromChild' = <<>>
                      \/ reply'[serving'] = "streaming"
                 /\ \A i \in 1..Len(fromChild') : Ends(fromChild'[i]) =>
                      i = Len(fromChild') /\ serving' = NoOne /\ toChild' = <<>>
      BY DEF OneReply, Ends
    <2> QED BY <1>6, <1>11, <2>1, <2>3, <2>4
  <1>13. RestOfReply'
    <2> SUFFICES ASSUME state = "READY", NEW c \in Clients, Sent(c)
                 PROVE  /\ needsDrain' /\ toChild' = <<>>
                        /\ serving' # NoOne =>
                             /\ serving' = c /\ reply'[c] = "streaming"
                             /\ Read(c)' + Len(fromChild') = made'[c] + 1
                        /\ \A i \in 1..Len(fromChild') : Place(c, i)'
      BY <1>6 DEF RestOfReply, Sent
    <2>1. serving = c /\ \A i \in 1..Len(fromChild) : Place(c, i)
      BY DEF IInv, RestOfReply
    <2>2. Read(c)' = Read(c) /\ Read(c) \in Nat
      <3>1. Len(heard[c]) \in Nat
        BY <1>0 DEF DataType
      <3> QED BY <1>6, <3>1 DEF Read
    <2>3. serving' # NoOne => Read(c)' + Len(fromChild') = made'[c] + 1
      BY <1>4, <2>1, <2>2
    <2>4. ASSUME NEW i \in 1..Len(fromChild'), i = Len(fromChild) + 1
          PROVE  Place(c, i)'
      <3>1. fromChild'[i] = e /\ e.of = c
        BY <1>3, <1>4, <2>1, <2>4
      <3> DEFINE k == Read(c) + Len(fromChild) + 1
      <3>2. Read(c)' + i = k
        BY <1>4, <2>2, <2>4
      <3>3. \/ kind = "header" /\ k = 1
            \/ kind = "chunk" /\ k > 1 /\ n = k - 1
            \/ kind = "end" /\ k > 1 /\ reply'[c] = "ended" /\ made'[c] = k - 2
            \/ kind = "error"
        BY <2>1
      <3> HIDE DEF k
      <3> QED BY <1>3, <3>1, <3>2, <3>3 DEF Place
    <2>5. ASSUME NEW i \in 1..Len(fromChild) PROVE Place(c, i)'
      <3>1. fromChild'[i] = fromChild[i] /\ ~Ends(fromChild[i]) /\ Place(c, i)
        BY <1>4, <1>11, <2>1, <2>5
      <3> QED BY <2>2, <3>1 DEF Place, Ends
    <2> QED BY <1>5, <1>6, <1>11, <2>1, <2>3, <2>4, <2>5
  <1> QED
    BY <1>7, <1>8, <1>9, <1>10, <1>12, <1>13, PartsNext

(* What is known of the request that the provider serves.                    *)
LEMMA ServingFacts ==
  ASSUME IInv, serving # NoOne
  PROVE  /\ serving \in Clients /\ reply \in [Clients -> Replies]
         /\ made \in [Clients -> 0..MaxChunks] /\ made[serving] \in Nat
         /\ state = "READY" /\ Sent(serving) =>
              /\ Read(serving) \in Nat /\ Len(fromChild) \in Nat
              /\ reply[serving] = "begun" =>
                   Read(serving) = 0 /\ fromChild = <<>> /\ made[serving] = 0
              /\ reply[serving] = "streaming" =>
                   Read(serving) + Len(fromChild) = made[serving] + 1
  <1>1. WireType /\ DataType
    BY TypeParts DEF IInv
  <1>2. serving \in Clients /\ reply \in [Clients -> Replies]
        /\ made \in [Clients -> 0..MaxChunks]
    BY <1>1 DEF DataType
  <1>3. made[serving] \in Nat
    BY <1>2, ExchangeAssumption
  <1>4. Len(fromChild) \in Nat
    BY <1>1 DEF WireType
  <1>5. Len(heard[serving]) \in Nat
    BY <1>1, <1>2 DEF DataType
  <1>6. Read(serving) \in Nat
    BY <1>5 DEF Read
  <1>7. state = "READY" /\ reply[serving] = "begun" => fromChild = <<>> /\ made[serving] = 0
    BY DEF IInv, OneReply
  <1>8. state = "READY" /\ Sent(serving) =>
              /\ reply[serving] = "begun" => pc[serving] = "header"
              /\ reply[serving] = "streaming" =>
                   Read(serving) + Len(fromChild) = made[serving] + 1
    BY <1>2 DEF IInv, RestOfReply
  <1> QED BY <1>2, <1>3, <1>4, <1>6, <1>7, <1>8 DEF Read

LEMMA WriteHeaderInv == ASSUME IInv, WriteHeader PROVE IInv'
  <1>1. /\ serving # NoOne /\ reply[serving] = "begun" /\ Writes("header", 0)
        /\ reply' = [reply EXCEPT ![serving] = "streaming"]
        /\ UNCHANGED <<daemonVars, toChild, alive>> /\ serving' = serving /\ made' = made
    BY DEF WriteHeader, Becomes
  <1>2. serving \in Clients /\ reply \in [Clients -> Replies]
    BY <1>1, ServingFacts
  <1>3. /\ reply'[serving] = "streaming"
        /\ \A d \in Clients : d # serving => reply'[d] = reply[d] /\ made'[d] = made[d]
    BY <1>1, <1>2
  <1>4. DataType'
    BY <1>1, TypeParts DEF IInv, DataType, Replies, daemonVars
  <1>5. state = "READY" /\ Sent(serving) =>
          Read(serving) + Len(fromChild) + 1 = 1 /\ made'[serving] = 0
    BY <1>1, ServingFacts
  <1>6. 0 \in 0..MaxChunks
    BY ExchangeAssumption
  <1> QED BY <1>1, <1>3, <1>4, <1>5, <1>6, WroteInv

LEMMA WriteChunkInv == ASSUME IInv, WriteChunk PROVE IInv'
  <1>1. /\ serving # NoOne /\ reply[serving] = "streaming"
        /\ made[serving] < MaxChunks /\ Writes("chunk", made[serving] + 1)
        /\ made' = [made EXCEPT ![serving] = made[serving] + 1]
        /\ UNCHANGED <<daemonVars, toChild, alive>> /\ serving' = serving /\ reply' = reply
    BY DEF WriteChunk
  <1>2. serving \in Clients /\ made \in [Clients -> 0..MaxChunks] /\ made[serving] \in Nat
    BY <1>1, ServingFacts
  <1>3. /\ made'[serving] = made[serving] + 1
        /\ \A d \in Clients : d # serving => reply'[d] = reply[d] /\ made'[d] = made[d]
    BY <1>1, <1>2
  <1>4. made[serving] + 1 \in 0..MaxChunks /\ made[serving] + 1 > 0
    BY <1>1, <1>2, ExchangeAssumption
  <1>5. DataType'
    BY <1>1, <1>4, TypeParts DEF IInv, DataType, daemonVars
  <1>6. state = "READY" /\ Sent(serving) =>
          LET k == Read(serving) + Len(fromChild) + 1
          IN  k > 1 /\ made[serving] + 1 = k - 1 /\ k = made'[serving] + 1
    BY <1>1, <1>2, <1>3, ServingFacts
  <1> QED BY <1>1, <1>3, <1>4, <1>5, <1>6, WroteInv

LEMMA WriteEndInv == ASSUME IInv, WriteEnd PROVE IInv'
  <1>1. /\ serving # NoOne /\ reply[serving] = "streaming" /\ Writes("end", 0)
        /\ reply' = [reply EXCEPT ![serving] = "ended"]
        /\ UNCHANGED <<daemonVars, toChild, alive>> /\ serving' = NoOne /\ made' = made
    BY DEF WriteEnd, Becomes
  <1>2. serving \in Clients /\ reply \in [Clients -> Replies] /\ made[serving] \in Nat
    BY <1>1, ServingFacts
  <1>3. /\ reply'[serving] = "ended"
        /\ \A d \in Clients : d # serving => reply'[d] = reply[d] /\ made'[d] = made[d]
    BY <1>1, <1>2
  <1>4. DataType'
    BY <1>1, TypeParts DEF IInv, DataType, Replies, daemonVars
  <1>5. state = "READY" /\ Sent(serving) =>
          LET k == Read(serving) + Len(fromChild) + 1
          IN  k > 1 /\ made'[serving] = k - 2
    BY <1>1, <1>2, ServingFacts
  <1>6. 0 \in 0..MaxChunks
    BY ExchangeAssumption
  <1> QED BY <1>1, <1>3, <1>4, <1>5, <1>6, WroteInv

LEMMA WriteErrorInv == ASSUME IInv, WriteError PROVE IInv'
  <1>1. /\ serving # NoOne /\ Writes("error", 0)
        /\ reply' = [reply EXCEPT ![serving] = "failed"]
        /\ UNCHANGED <<daemonVars, toChild, alive>> /\ serving' = NoOne /\ made' = made
    BY DEF WriteError, Becomes
  <1>2. serving \in Clients /\ reply \in [Clients -> Replies]
    BY <1>1, ServingFacts
  <1>3. \A d \in Clients : d # serving => reply'[d] = reply[d] /\ made'[d] = made[d]
    BY <1>1, <1>2
  <1>4. DataType'
    BY <1>1, TypeParts DEF IInv, DataType, Replies, daemonVars
  <1>5. 0 \in 0..MaxChunks
    BY ExchangeAssumption
  <1> QED BY <1>1, <1>3, <1>4, <1>5, WroteInv

LEMMA ServeInv == ASSUME IInv, Serve PROVE IInv'
  <1>0. LockType /\ WireType /\ DataType
    BY TypeParts DEF IInv
  <1>1. /\ alive /\ serving = NoOne /\ toChild # <<>> /\ toChild' = Tail(toChild)
        /\ serving' = toChild[1] /\ reply' = [reply EXCEPT ![toChild[1]] = "begun"]
        /\ toChild[1] \in Clients /\ toChild' \in Seq(Clients)
        /\ Len(toChild) \in Nat \ {0} /\ Len(toChild') = Len(toChild) - 1
        /\ \A i \in 1..Len(toChild') : toChild'[i] = toChild[i + 1]
        /\ UNCHANGED <<state, needsDrain, owner, queue, pc, heard, outcome, fromChild,
                       alive, made>>
    BY <1>0, TailFacts DEF WireType, Serve, daemonVars
  <1> DEFINE r == toChild[1]
  <1>2. r \in Clients /\ r # NoOne
    BY <1>1, ExchangeAssumption
  <1>3. \A d \in Clients : reply'[d] = IF d = r THEN "begun" ELSE reply[d]
    BY <1>0, <1>1 DEF DataType
  <1>4. 1 \in 1..Len(toChild) /\ \A i \in 1..Len(toChild') : i + 1 \in 1..Len(toChild)
    BY <1>1
  <1>5. state = "READY" => /\ toChild' = <<>> /\ fromChild = <<>> /\ needsDrain
                           /\ reply[r] = "none" /\ made[r] = 0
    <2>1. state = "READY" => /\ Len(toChild) = 1 /\ fromChild = <<>> /\ needsDrain
                             /\ reply[r] = "none" /\ made[r] = 0
      BY <1>1 DEF IInv, OneReply
    <2>2. ASSUME Len(toChild) = 1 PROVE toChild' = <<>>
      <3>1. Len(toChild') = 1 - 1
        BY <1>1, <2>2
      <3> QED BY <1>1, <3>1, NoLength
    <2> QED BY <2>1, <2>2
  <1>6. LockType' /\ LockShape' /\ WireType' /\ Numbered'
    BY <1>0, <1>1 DEF IInv, LockType, LockShape, Sent, WireType, Numbered
  <1>7. DataType'
    BY <1>0, <1>1 DEF DataType, Replies
  <1>8. ASSUME NEW d \in Clients, \A i \in 1..Len(toChild) : toChild[i] # d
        PROVE  d # r /\ \A i \in 1..Len(toChild') : toChild'[i] # d
    BY <1>1, <1>4, <1>8
  <1>9. Unsent'
    BY <1>1, <1>3, <1>8 DEF IInv, Unsent
  <1>10. Completed' /\ CompleteIsWhole' /\ OwnAudio'
    BY <1>1, <1>3, <1>8 DEF IInv, Completed, CompleteIsWhole, OwnAudio
  <1>11. OneReply'
    <2>1. reply'[serving'] = "begun" /\ made'[serving'] = made[r]
      BY <1>1, <1>2, <1>3
    <2> QED BY <1>1, <1>5, <2>1 DEF OneReply, Ends
  <1>12. RestOfReply'
    <2> SUFFICES ASSUME state = "READY", NEW c \in Clients, Sent(c)
                 PROVE  /\ needsDrain' /\ toChild' = <<>> /\ fromChild' = <<>>
                        /\ serving' = c /\ reply'[c] = "begun" /\ pc'[c] = "header"
      BY <1>1 DEF RestOfReply, Sent
    <2>1. r = c /\ pc[c] = "header"
      BY <1>1 DEF IInv, RestOfReply
    <2> QED BY <1>1, <1>3, <1>5, <2>1
  <1> QED BY <1>6, <1>7, <1>9, <1>10, <1>11, <1>12, PartsNext

LEMMA CrashInv == ASSUME IInv, Crash PROVE IInv'
  <1>0. LockType /\ WireType /\ DataType
    BY TypeParts DEF IInv
  <1>1. /\ alive' = FALSE /\ serving' = NoOne /\ toChild' = <<>>
        /\ UNCHANGED <<state, needsDrain, owner, queue, pc, heard, outcome, reply, made>>
    BY DEF Crash, daemonVars
  <1>2. PICK k \in 0..Len(fromChild) : fromChild' = SubSeq(fromChild, 1, k)
    BY DEF Crash
  <1>3. /\ fromChild' \in Seq(Frames) /\ Len(fromChild') = k
        /\ \A i \in 1..k : fromChild'[i] = fromChild[i]
    BY <1>0, <1>2, PrefixFacts DEF WireType
  <1>4. Len(fromChild) \in Nat /\ k \in Nat /\ k <= Len(fromChild)
    BY <1>0, <1>2 DEF WireType
  <1>5. \A i \in 1..Len(fromChild') :
          i \in 1..Len(fromChild) /\ fromChild'[i] = fromChild[i]
    BY <1>3, <1>4
  <1>6. <<>> \in Seq(Clients) /\ Len(<<>>) = 0
    OBVIOUS
  <1>7. LockType' /\ LockShape' /\ WireType' /\ DataType' /\ Numbered'
    BY <1>0, <1>1, <1>3, <1>5, <1>6
    DEF IInv, LockType, LockShape, Sent, WireType, DataType, Numbered
  <1>8. Unsent' /\ Completed' /\ CompleteIsWhole' /\ OwnAudio'
    BY <1>1, <1>6, ExchangeAssumption
    DEF IInv, Unsent, Completed, CompleteIsWhole, OwnAudio
  <1>9. OneReply'
    <2>1. ASSUME fromChild = <<>> PROVE fromChild' = <<>>
      <3>1. Len(fromChild) = 0
        BY <2>1
      <3>2. Len(fromChild') = 0
        BY <1>3, <1>4, <3>1
      <3> QED BY <1>3, <3>2, NoLength
    <2>2. ASSUME state = "READY", NEW i \in 1..Len(fromChild'), Ends(fromChild'[i])
          PROVE  i = Len(fromChild')
      <3>1. i \in 1..Len(fromChild) /\ Ends(fromChild[i])
        BY <1>5, <2>2 DEF Ends
      <3>2. i = Len(fromChild)
        BY <2>2, <3>1 DEF IInv, OneReply
      <3>3. i <= k /\ k <= i /\ i \in Nat
        BY <1>3, <1>4, <3>2
      <3>4. i = k
        BY <1>4, <3>3
      <3> QED BY <1>3, <3>4
    <2>3. state = "READY" /\ ~needsDrain => fromChild = <<>>
      BY DEF IInv, OneReply
    <2> QED BY <1>1, <2>1, <2>2, <2>3 DEF OneReply, Ends
  <1>10. RestOfReply'
    <2> SUFFICES ASSUME state = "READY", NEW c \in Clients, Sent(c)
                 PROVE  needsDrain' /\ \A i \in 1..Len(fromChild') : Place(c, i)'
      BY <1>1 DEF RestOfReply, Sent
    <2>1. needsDrain /\ \A i \in 1..Len(fromChild) : Place(c, i)
      BY DEF IInv, RestOfReply
    <2>2. Read(c)' = Read(c)
      BY <1>1 DEF Read
    <2> QED BY <1>1, <1>5, <2>1, <2>2 DEF Place
  <1> QED BY <1>7, <1>8, <1>9, <1>10, PartsNext

LEMMA StutterInv == ASSUME IInv, UNCHANGED vars PROVE IInv'
  <1>0. LockType /\ WireType /\ DataType
    BY TypeParts DEF IInv
  <1>1. UNCHANGED <<state, needsDrain, owner, queue, pc, heard, outcome, toChild,
                    fromChild, alive, serving, reply, made>>
    BY DEF vars, daemonVars, providerVars
  <1>2. LockType' /\ WireType' /\ DataType'
    BY <1>0, <1>1 DEF LockType, WireType, DataType
  <1>3. LockShape' /\ Unsent' /\ Numbered'
    BY <1>1 DEF IInv, LockShape, Unsent, Numbered, Sent
  <1>4. OneReply' /\ Completed' /\ OwnAudio' /\ CompleteIsWhole'
    BY <1>1 DEF IInv, OneReply, Completed, OwnAudio, CompleteIsWhole, Ends
  <1>5. RestOfReply'
    BY <1>1 DEF IInv, RestOfReply, Place, Read, Sent
  <1> QED BY <1>2, <1>4, <1>5, <1>3, PartsNext

-----------------------------------------------------------------------------
(* The results                                                               *)

LEMMA NextInv == IInv /\ [Next]_vars => IInv'
  <1> SUFFICES ASSUME IInv, [Next]_vars PROVE IInv'
    OBVIOUS
  <1>1. ASSUME NEW c \in Clients,
               \/ Arrive(c) \/ Begin(c) \/ Drain(c) \/ DrainFails(c)
               \/ ReadHeader(c) \/ ReadBody(c) \/ Eof(c) \/ Resume(c) \/ Abandon(c)
        PROVE  IInv'
    BY <1>1, ArriveInv, BeginInv, DrainInv, DrainFailsInv, ReadHeaderInv,
       ReadBodyInv, EofInv, ResumeInv, AbandonInv
  <1>2. CASE Serve \/ WriteHeader \/ WriteChunk \/ WriteEnd \/ WriteError \/ Crash
    BY <1>2, ServeInv, WriteHeaderInv, WriteChunkInv, WriteEndInv, WriteErrorInv, CrashInv
  <1>3. CASE UNCHANGED vars
    BY <1>3, StutterInv
  <1> QED BY <1>1, <1>2, <1>3 DEF Next

LEMMA Inductive == Spec => []IInv
  BY InitInv, NextInv, PTL DEF Spec

(* The types of all variables of the exchange are kept by every step of the  *)
(* daemon and of the provider (supervisor.py:306-425).                       *)
THEOREM ExchangeTypes == Spec => []TypeOK
  <1>1. IInv => TypeOK
    BY DEF IInv
  <1> QED BY <1>1, Inductive, PTL

(* A stream that counts as clean while nobody uses it has nothing of an      *)
(* earlier request on the way, in either direction                           *)
(* (needs_drain, supervisor.py:132-136).                                     *)
THEOREM IdleStreamIsClean == Spec => []CleanWhenIdle
  <1>1. IInv => CleanWhenIdle
    BY DEF IInv, OneReply, CleanWhenIdle
  <1> QED BY <1>1, Inductive, PTL

(* As long as no drain has failed, what a consumer is given is its own       *)
(* reply's chunks, from the first and without a gap, however many requests   *)
(* share the stream and wherever their consumers left                        *)
(* (the loop of synthesize, supervisor.py:393-400).                          *)
THEOREM ConsumersHearTheirOwn == Spec => []OwnAudio
  <1>1. IInv => OwnAudio
    BY DEF IInv
  <1> QED BY <1>1, Inductive, PTL

(* A generator that returned normally gave its consumer every chunk of a     *)
(* reply that the provider finished (supervisor.py:399-401).                 *)
THEOREM CompleteReplies == Spec => []CompleteIsWhole
  <1>1. IInv => CompleteIsWhole
    BY DEF IInv
  <1> QED BY <1>1, Inductive, PTL

(* The exchanges of one process exclude each other: no two requests are      *)
(* between the writing of the request and the last frame they read of the    *)
(* reply (request_lock, supervisor.py:131,369).                              *)
THEOREM OneExchangeAtATime ==
  Spec => [](\A c, d \in Clients : Sent(c) /\ Sent(d) => c = d)
  <1>1. IInv => \A c, d \in Clients : Sent(c) /\ Sent(d) => c = d
    BY DEF IInv, LockShape
  <1> QED BY <1>1, Inductive, PTL

=============================================================================
