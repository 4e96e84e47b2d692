------------------------------ MODULE VoiceFiles ------------------------------
(***************************************************************************)
(* What the providers make of the clips a user drops into their voices     *)
(* directories (providers/*/src/*/voices.py), and the voices that two of   *)
(* them bring along.                                                       *)
(*                                                                         *)
(* A clip <id>.<lang>.wav is a record: its id, a sequence of the parts     *)
(* between dots, the language after the last dot ("" for none), and the    *)
(* state of its neighbours, the transcript .txt and the sidecar .toml.     *)
(***************************************************************************)
EXTENDS Naturals, Subsequence, SequencesExt

CONSTANTS
  ClipOrder, \* every clip a user may drop, sorted by file name
  Languages, \* ALLOWED_LANGS of each provider
  Built      \* the ids of each provider's built-in voices, sorted

States == {"none", "empty", "fine", "garbled"}  \* garbled: not UTF-8

Clips == ToSet(ClipOrder)

ASSUME VoiceFilesAssumption ==
  /\ ClipOrder \in Seq(Clips)
  /\ \A c \in Clips : Len(c.id) > 0 /\ {c.text, c.meta} \subseteq States

-----------------------------------------------------------------------------
(* Which clips are voices, provider by provider.                             *)
MossTakes(c) == c.lang \in Languages["moss-tts-nano"]

PocketTakes(c) ==
  c.lang \in Languages["pocket-tts"] /\ c.id \notin ToSet(Built["pocket-tts"])

OmnivoiceTakes(c) == c.lang # ""

LongcatTakes(c) == c.lang \in Languages["longcat-audiodit"] /\ c.text = "fine"

Qwen3Takes(c) == c.lang \in Languages["qwen3-tts"] /\ c.text = "fine"

Takes(p, c) ==
  \/ p = "moss-tts-nano" /\ MossTakes(c)
  \/ p = "pocket-tts" /\ PocketTakes(c)
  \/ p = "omnivoice" /\ OmnivoiceTakes(c)
  \/ p = "longcat-audiodit" /\ LongcatTakes(c)
  \/ p = "qwen3-tts" /\ Qwen3Takes(c)

(* A scan catches OSError and TOMLDecodeError only: a neighbour that it reads*)
(* and that is not UTF-8 ends it, and with it the warmup.                    *)
EndsScan(p, c) ==
  \/ Takes(p, c) /\ c.meta = "garbled"
  \/ /\ c.text = "garbled"
     /\ \/ p = "omnivoice" /\ OmnivoiceTakes(c)
        \/ p \in {"longcat-audiodit", "qwen3-tts"} /\ c.lang \in Languages[p]

Readable(p, dir) == \A c \in dir : ~EndsScan(p, c)

ScanVoices(p, dir) ==
  LET clips == Picked(ClipOrder, {k \in DOMAIN ClipOrder :
                 ClipOrder[k] \in dir /\ Takes(p, ClipOrder[k])})
  IN [k \in DOMAIN clips |-> [id |-> clips[k].id, tags |-> <<clips[k].lang>>]]

Presets(p) == [k \in DOMAIN Built[p] |-> [id |-> Built[p][k], tags |-> <<"en">>]]

ListAll(found) == found  \* mutant: one voice for each clip

(* _voices is a dictionary by id: an id has the place of its first clip, and *)
(* the last clip is the one it is listed and spoken with.                    *)
ListDict(found) ==
  LET last(id)  == CHOOSE k \in DOMAIN found : found[k].id = id
                     /\ \A l \in DOMAIN found : found[l].id = id => l <= k
      fresh     == {k \in DOMAIN found :
                      \A l \in 1..(k - 1) : found[l].id # found[k].id}
  IN Picked([k \in DOMAIN found |-> found[last(found[k].id)]], fresh)

(* list_voices_pb, which every warmup answers with.                          *)
Announced(p, dir) == ListDict(Presets(p) \o ScanVoices(p, dir))
=============================================================================
