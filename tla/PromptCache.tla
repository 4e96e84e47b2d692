------------------------------ MODULE PromptCache ------------------------------
(***************************************************************************)
(* What the voice-cloning providers keep of a reference clip: the prompt   *)
(* that the model needs, in the memory of the process, and for omnivoice   *)
(* and pocket-tts also in a file below ~/.cache that outlives it.          *)
(*                                                                         *)
(* The user owns the clip, and may replace or delete it at any moment.  A  *)
(* version is what (path, mtime, size, transcript) identify: replacing a   *)
(* clip gives a version that was never there before.                       *)
(***************************************************************************)
EXTENDS ProviderKinds, Naturals

CONSTANT MaxEdits  \* bound: changes the user makes to the clip

VARIABLES
  clip, edits, \* the version on disk, 0 for none; versions so far
  files,       \* the cache directory: [key, made, whole], made of a version
  memory,      \* _prompt_cache / _state_cache: [key, made], at most one
  step,        \* how far the request has got in resolving its prompt
  key,         \* the version that stat() showed, 0 if it failed
  used,        \* the version the prompt was made from, 0 before
  since, asked \* the clip when the process started, when the request did

cacheVars == <<clip, edits, files, memory, step, key, used, since, asked>>

Versions == 1..(MaxEdits + 1)
Steps    == {"no", "ask", "build", "sweep", "save", "have", "failed"}

CacheTypeOK ==
  /\ clip \in Versions \cup {0} /\ edits \in Versions /\ clip <= edits
  /\ files \subseteq [key : Versions, made : Versions, whole : BOOLEAN]
  /\ memory \subseteq [key : Versions \cup {0}, made : Versions]
  /\ step \in Steps
  /\ {key, used, since, asked} \subseteq 0..(MaxEdits + 2)

CacheInit ==
  /\ clip = 1 /\ edits = 1 /\ files = {} /\ memory = {}
  /\ step = "no" /\ key = 0 /\ used = 0 /\ since = 0 /\ asked = 0

(* The user drops a new clip in the place of the old one, or deletes it.     *)
EditClip ==
  /\ kind # "kokoro" /\ edits <= MaxEdits
  /\ edits' = edits + 1 /\ clip' \in {0, edits'} \ {clip}
  /\ UNCHANGED <<files, memory, step, key, used, since, asked>>

(* What a process that is gone remembers                                     *)
ForgetPrompts ==
  /\ memory' = {} /\ step' = "no" /\ key' = 0 /\ used' = 0
  /\ since' = 0 /\ asked' = 0 /\ UNCHANGED <<clip, edits, files>>

(* _rescan_voices drops the prompts of the voices it no longer finds.        *)
Prune ==
  /\ memory' = IF clip = 0 THEN {} ELSE memory
  /\ since' = IF clip = 0 THEN edits + 1 ELSE since

AskPrompt ==
  /\ step' = "ask" /\ key' = 0 /\ used' = 0
  /\ UNCHANGED <<clip, edits, files, memory, since, asked>>

(* The prompt is the model's now, or the request is over.                    *)
PromptDone ==
  /\ step' = "no" /\ key' = 0 /\ used' = 0 /\ asked' = 0
  /\ UNCHANGED <<clip, edits, files, memory, since>>

NoPrompt == step' = "have" /\ used' = 0
            /\ UNCHANGED <<clip, edits, files, memory, key, since, asked>>

Has(made) == step' = "have" /\ used' = made
Fails     == step' = "failed" /\ UNCHANGED used

-----------------------------------------------------------------------------
(* moss-tts-nano and longcat-audiodit remember the prompt by the voice's id. *)

Recall ==
  /\ step = "ask" /\ kind # "pocket" /\ memory # {}
  /\ \E m \in memory : Has(m.made)
  /\ UNCHANGED <<clip, edits, files, memory, key, since, asked>>

EncodeClip ==
  /\ step = "ask" /\ kind \in {"moss", "longcat"} /\ memory = {}
  /\ \/ clip # 0 /\ memory' = {[key |-> 0, made |-> clip]} /\ Has(clip)
     \/ Fails /\ UNCHANGED memory
  /\ UNCHANGED <<clip, edits, files, key, since, asked>>

-----------------------------------------------------------------------------
(* omnivoice: _get_clone_prompt.  The file name holds a digest of the stat() *)
(* of the clip and of the transcript.                                        *)

CachedFile == {f \in files : f.key = clip}

LookUpAnyVersion ==    \* mutant: the digest is left out of the file's name
  /\ step = "ask" /\ kind = "omnivoice" /\ memory = {}
  /\ key' = clip
  /\ LET found == {f \in files : clip # 0} IN
     \/ /\ \E f \in found : f.whole /\ Has(f.made)
                            /\ memory' = {[key |-> 0, made |-> f.made]}
        /\ UNCHANGED files
     \/ /\ \A f \in found : ~f.whole
        /\ files' = files \ found
        /\ step' = "build" /\ UNCHANGED <<memory, used>>
  /\ UNCHANGED <<clip, edits, since, asked>>

LookUp ==
  /\ step = "ask" /\ kind = "omnivoice" /\ memory = {}
  /\ key' = clip
  /\ \/ /\ \E f \in CachedFile : f.whole /\ Has(f.made)
                                /\ memory' = {[key |-> 0, made |-> f.made]}
        /\ UNCHANGED files
     \/ /\ \A f \in CachedFile : ~f.whole  \* unreadable: unlinked and rebuilt
        /\ files' = files \ CachedFile
        /\ step' = "build" /\ UNCHANGED <<memory, used>>
  /\ UNCHANGED <<clip, edits, since, asked>>

(* The model reads the clip itself, which may have changed since the stat(). *)
Build ==
  /\ step = "build" /\ kind = "omnivoice"
  /\ \/ /\ clip # 0 /\ used' = clip /\ memory' = {[key |-> 0, made |-> clip]}
        /\ step' = IF key = 0 THEN "have" ELSE "sweep"
     \/ Fails /\ UNCHANGED memory
  /\ UNCHANGED <<clip, edits, files, key, since, asked>>

(* Files of other versions are swept, then the prompt is written in place.   *)
(* An error of either is logged and the prompt is used all the same.         *)
SaveBegins ==
  /\ step = "sweep" /\ kind = "omnivoice"
  /\ \/ /\ files' = {f \in files : f.key = key}
                      \cup {[key |-> key, made |-> used, whole |-> FALSE]}
        /\ step' = "save"
     \/ step' = "have" /\ files' \in {files, {f \in files : f.key = key}}
  /\ UNCHANGED <<clip, edits, memory, key, used, since, asked>>

-----------------------------------------------------------------------------
(* pocket-tts: _get_voice_state.  Memory and file are keyed by the mtime.    *)

RecallState ==
  /\ step = "ask" /\ kind = "pocket" /\ clip # 0
  /\ \E m \in memory : m.key = clip /\ Has(m.made)
  /\ UNCHANGED <<clip, edits, files, memory, key, since, asked>>

(* stat() raises for a clip that is gone, the model for a file that is cut   *)
(* short: that file is not removed.                                          *)
LookUpState ==
  /\ step = "ask" /\ kind = "pocket"
  /\ \A m \in memory : m.key # clip
  /\ key' = clip
  /\ \/ \E f \in CachedFile : /\ f.whole /\ Has(f.made)
                              /\ memory' = {[key |-> clip, made |-> f.made]}
     \/ /\ clip = 0 \/ \E f \in CachedFile : ~f.whole
        /\ Fails /\ UNCHANGED memory
     \/ /\ clip # 0 /\ CachedFile = {}
        /\ step' = "build" /\ UNCHANGED <<memory, used>>
  /\ UNCHANGED <<clip, edits, files, since, asked>>

(* Without the gated cloning model, or the clip, nothing can be encoded.     *)
EncodeState ==
  /\ step = "build" /\ kind = "pocket"
  /\ \/ clip # 0 /\ used' = clip /\ step' = "sweep"
     \/ Fails
  /\ UNCHANGED <<clip, edits, files, memory, key, since, asked>>

(* Every file of the voice is swept; if the directory forbids it, they stay. *)
ExportBegins ==
  /\ step = "sweep" /\ kind = "pocket"
  /\ \E left \in {{}, files} :
       files' = left \cup {[key |-> key, made |-> used, whole |-> FALSE]}
  /\ step' = "save"
  /\ UNCHANGED <<clip, edits, memory, key, used, since, asked>>

-----------------------------------------------------------------------------
(* The file is complete; or the save fails, leaving what it has written.     *)
SaveEnds ==
  /\ step = "save" /\ step' = "have"
  /\ LET others == {f \in files : f.key # key} IN
     \/ \E done \in BOOLEAN :
          files' = others \cup {[key |-> key, made |-> used, whole |-> done]}
     \/ files' = others
  /\ memory' = IF kind = "pocket" THEN {[key |-> key, made |-> used]}
               ELSE memory
  /\ UNCHANGED <<clip, edits, key, used, since, asked>>

PromptStep ==
  \/ Recall \/ EncodeClip \/ LookUp \/ Build \/ SaveBegins
  \/ RecallState \/ LookUpState \/ EncodeState \/ ExportBegins \/ SaveEnds

-----------------------------------------------------------------------------
================================================================================
