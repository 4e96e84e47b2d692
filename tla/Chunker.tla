------------------------------- MODULE Chunker -------------------------------
(***************************************************************************)
(* How a text is cut into the chunks that are synthesized one by one       *)
(* (providers/{omnivoice,longcat-audiodit,qwen3-tts}/src/*/chunker.py).    *)
(*                                                                         *)
(* A text is a sequence of letters, blanks, full stops and commas.  Every  *)
(* text of at most MaxText characters is checked, under everything a       *)
(* sentence segmenter can make of it.                                      *)
(***************************************************************************)
EXTENDS Naturals, Subsequence, SequencesExt

CONSTANTS
  Target,  \* TARGET_CHARS
  HardCap, \* HARD_CAP_CHARS
  MaxText  \* bound: characters of a text

ASSUME ChunkerAssumption ==
  Target \in Nat /\ HardCap \in Nat \ {0} /\ MaxText \in Nat

VARIABLE text

Characters == {"letter", "blank", "stop", "comma"}
Strings == Seq(Characters)
Texts == BoundedSeq(Characters, MaxText)

(* What the loops below have to their name: the strings that are finished,   *)
(* and one that is not.                                                      *)
Halfway == [done : Seq(Strings), rest : Strings]

(* "if p" of the comprehensions and of the loops: empty strings are dropped. *)
Added(ss, s) == IF s = <<>> THEN ss ELSE Append(ss, s)
Closed(acc) == Added(acc.done, acc.rest)

-----------------------------------------------------------------------------
Inked(s) == {i \in DOMAIN s : s[i] # "blank"}
Strip(s) == IF Inked(s) = {} THEN <<>> ELSE SubSeq(s, Min(Inked(s)), Max(Inked(s)))

(* The stretches of a text between the cuts, each cut after a character, of  *)
(* which "at" have been read.                                                *)
Read(cuts) ==
  [acc \in [done : Seq(Strings), rest : Strings, at : Nat] |-> [c \in Characters |->
     LET stretch == Append(acc.rest, c)
         cut     == acc.at + 1 \in cuts
     IN [done |-> IF cut THEN Added(acc.done, Strip(stretch)) ELSE acc.done,
         rest |-> IF cut THEN <<>> ELSE stretch,
         at   |-> acc.at + 1]]]

Sentences(s, cuts) ==
  LET read == Looped(Read(cuts), [done |-> <<>>, rest |-> <<>>, at |-> 0], s)
  IN Added(read.done, Strip(read.rest))

(* _regex_segment: a sentence ends at a stop that a blank follows.           *)
RegexCuts(s) == {i \in 1..(Len(s) - 1) : s[i] = "stop" /\ s[i + 1] = "blank"}

(* _pysbd_segment: the library may end a sentence at any stop, and the       *)
(* regular expression is what is left when it fails.                         *)
Segmentations(s) == {RegexCuts(s)} \cup SUBSET {i \in DOMAIN s : s[i] = "stop"}

CutAtCap(s) == HardCap  \* mutant: no look for a break

(* The place after the last soft break in the head of an oversized sentence, *)
(* else after its last blank, else the cap itself.                           *)
Cut(s) ==
  LET soft  == {i \in 2..HardCap : s[i] = "blank"
                  /\ \E j \in 1..(i - 1) : s[j] = "comma"
                       /\ \A k \in (j + 1)..i : s[k] = "blank"}
      blank == {i \in 2..HardCap : s[i] = "blank"}
  IN IF soft # {} THEN Max(soft) ELSE IF blank # {} THEN Max(blank) ELSE HardCap

(* One turn of the loop that shortens a sentence, if the loop still runs.    *)
Shorten(acc) ==
  LET head == SubSeq(acc.rest, 1, Cut(acc.rest))
      tail == SubSeq(acc.rest, Cut(acc.rest) + 1, Len(acc.rest))
  IN IF Len(acc.rest) <= HardCap THEN acc
     ELSE [done |-> Added(acc.done, Strip(head)), rest |-> Strip(tail)]

(* The pieces of a stripped sentence.  Every turn takes a character at       *)
(* least, so that there are no more of them than characters.                 *)
SplitOversized(s) ==
  Closed(Looped([acc \in Halfway |-> [c \in Characters |-> Shorten(acc)]],
                [done |-> <<>>, rest |-> s], s))

Pieces(ss) == FlattenSeq([k \in DOMAIN ss |-> SplitOversized(ss[k])])

(* Short pieces are packed together as long as the target allows it.         *)
Pack(acc, s) ==
  IF acc.rest # <<>> /\ Len(acc.rest) + 1 + Len(s) > Target
  THEN [done |-> Append(acc.done, acc.rest), rest |-> s]
  ELSE [done |-> acc.done,
        rest |-> IF acc.rest = <<>> THEN s ELSE Append(acc.rest, "blank") \o s]

(* chunk: the chunks of a text under a segmentation of it.                   *)
Chunks(s, cuts) ==
  Closed(Looped([acc \in Halfway |-> [p \in Strings |-> Pack(acc, p)]],
                [done |-> <<>>, rest |-> <<>>], Pieces(Sentences(s, cuts))))

-----------------------------------------------------------------------------
Ink(s) == Picked(s, Inked(s))

Spell == [acc \in Halfway |-> [c \in Characters |->
            IF c = "blank" THEN [done |-> Closed(acc), rest |-> <<>>]
            ELSE [done |-> acc.done, rest |-> Append(acc.rest, c)]]]

Words(s) == Closed(Looped(Spell, [done |-> <<>>, rest |-> <<>>], s))
WordsOfAll(ss) == FlattenSeq([k \in DOMAIN ss |-> Words(ss[k])])

(* Nothing that is written is lost, repeated or moved, whatever is cut.      *)
KeepsText(s, cuts) == Ink(FlattenSeq(Chunks(s, cuts))) = Ink(s)

(* "Never split mid-word": only a word longer than the cap is cut.           *)
KeepsWords(s, cuts) ==
  LET words == WordsOfAll(Sentences(s, cuts))
      fit   == \A k \in DOMAIN words : Len(words[k]) <= HardCap
  IN fit => WordsOfAll(Chunks(s, cuts)) = words

(* A chunk is within the cap, only a single sentence or piece of one is      *)
(* beyond the target, and two neighbours would not fit in one chunk.         *)
Fits(s, cuts) ==
  LET cs == Chunks(s, cuts)
      alone == ToSet(Pieces(Sentences(s, cuts)))
  IN /\ \A k \in DOMAIN cs : cs[k] # <<>> /\ Len(cs[k]) <= HardCap
     /\ \A k \in DOMAIN cs : Len(cs[k]) <= Target \/ cs[k] \in alone
     /\ \A k \in 1..(Len(cs) - 1) : Len(cs[k]) + 1 + Len(cs[k + 1]) > Target

(* The chunks say what the text says, in its order, and no word that fits is *)
(* cut in two (the goals in omnivoice's chunker.py).  The sizes hold where   *)
(* the target is within the cap: the environment variables of qwen3-tts may  *)
(* say otherwise.                                                            *)
ChunksSound ==
  \A cuts \in Segmentations(Strip(text)) :
    /\ KeepsText(Strip(text), cuts) /\ KeepsWords(Strip(text), cuts)
    /\ Target <= HardCap => Fits(Strip(text), cuts)
=============================================================================
