--------------------------- MODULE MCVoiceCatalogue ---------------------------
(* Providers, voices and clips for TLC.  The clip "hobbits.omnivoice" looks  *)
(* like the suffixed id of a collision, and two clips share the id "hobbits".*)
EXTENDS VoiceCatalogue

AllProviders == <<"kokoro-onnx", "longcat-audiodit", "moss-tts-nano",
                  "omnivoice", "pocket-tts", "qwen3-tts">>

OneOrTwo == {s \in SUBSET Providers : Cardinality(s) \in {1, 2}}

Clip(id, lang, text, meta) == [id |-> id, lang |-> lang, text |-> text, meta |-> meta]

AllClips ==
  << Clip(<<"alba">>, "en", "fine", "empty"),
     Clip(<<"bella">>, "zh", "none", "garbled"),
     Clip(<<"hobbits">>, "en", "fine", "fine"),
     Clip(<<"hobbits", "omnivoice">>, "en", "fine", "none"),
     Clip(<<"hobbits">>, "sw", "garbled", "none"),
     Clip(<<"hobbits">>, "", "fine", "none"),
     Clip(<<"hobbits">>, "zh", "empty", "none") >>

VoiceIds == {<<"alba">>, <<"bella">>, <<"hobbits">>, <<"hobbits", "omnivoice">>}

AllLanguages == [p \in Providers |->
                   IF p \in {"kokoro-onnx", "omnivoice"} THEN {} ELSE {"en", "zh"}]

AllBuilt == [p \in Providers |->
               IF p = "kokoro-onnx" THEN << <<"bella">>, <<"hobbits">> >>
               ELSE IF p = "pocket-tts" THEN << <<"alba">> >> ELSE <<>>]

SomeAllowlists == [p \in Providers |->
                     IF p = "moss-tts-nano" THEN {<<"hobbits">>, <<"alba">>} ELSE {}]

SomeLocales ==
  [p \in Providers |->
     IF p = "omnivoice"
     THEN << [ids |-> VoiceIds, tags |-> <<>>],
             [ids |-> {<<"hobbits">>}, tags |-> <<"fr", "de">>],
             [ids |-> VoiceIds, tags |-> <<"it">>] >>
     ELSE <<>>]
=============================================================================
