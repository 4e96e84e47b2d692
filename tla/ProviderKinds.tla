----------------------------- MODULE ProviderKinds -----------------------------
(***************************************************************************)
(* The six provider packages, qwen3-tts in its two modes: raw passthrough, *)
(* and with the chunker and its hold-back buffer (TTS_QWEN3_CHUNKER).      *)
(***************************************************************************)
VARIABLE kind  \* the provider whose process is modelled; never changes

Kinds == {"kokoro", "pocket", "moss", "longcat", "omnivoice", "qwen3",
          "qwen3Held"}

Bridged == {"pocket", "moss", "qwen3", "qwen3Held"}  \* a thread and a queue
Qwen3   == {"qwen3", "qwen3Held"}
Cloning == {"pocket", "moss", "longcat", "omnivoice"} \* they keep prompts
================================================================================
