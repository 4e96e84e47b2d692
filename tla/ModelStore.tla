------------------------------ MODULE ModelStore ------------------------------
(***************************************************************************)
(* One provider package on the disk: its venv, the upstream source vendored *)
(* beside it and the model files, as scripts/install_provider.py,           *)
(* download_models.py and uninstall_provider.py write them, step by step,   *)
(* and as the provider's engine.py finds them when it loads the model.      *)
(*                                                                         *)
(* Any step may fail, or be the last one before the script is killed.  A    *)
(* rename or a write of a small file is one step.                           *)
(***************************************************************************)
EXTENDS Naturals, Sequences

VARIABLES
  package, \* the provider; never changes
  gpu,     \* the host has CUDA; never changes
  venv,    \* none, bare (a python and not all packages) or ready
  vendor,  \* none, torn (no .git), cloned or pinned
  files,   \* each artefact: absent, part, short, near or whole
  links,   \* the names that the upstream of moss-tts-nano expects
  script,  \* the next step of the script that runs
  skip,    \* --skip-models, or no --purge-models
  todo,    \* artefacts that the script has yet to come to
  cut,     \* a transfer of the last download ended early, unnoticed
  settled, \* the last script is one that fetches models, and went through
  engine   \* the last load since the last script: none, up or failed

storeVars == <<package, gpu, venv, vendor, files, links, script, skip, todo,
               cut, settled, engine>>

Packages == {"kokoro-onnx", "longcat-audiodit", "moss-tts-nano", "omnivoice",
             "qwen3-tts", "pocket-tts"}
Vendored == {"longcat-audiodit", "moss-tts-nano"}

(* What download_models fetches, in its order; --with-int8 adds to it.  The  *)
(* weights of pocket-tts go to the Hugging Face cache.                       *)
Fetched(p) ==
  CASE p = "kokoro-onnx"   -> <<"fp16", "voices">>
    [] p = "moss-tts-nano" -> <<"tts", "tokenizer">>
    [] p = "pocket-tts"    -> <<"hub">>
    [] OTHER               -> <<"snapshot">>
Artefacts(p) == {Fetched(p)[i] : i \in DOMAIN Fetched(p)}
                  \cup (IF p = "kokoro-onnx" THEN {"int8"} ELSE {})

(* MODEL_ARTEFACTS, which knows three of the six packages                    *)
ModelArtefacts(p) ==
  CASE p = "kokoro-onnx" -> <<"int8", "fp16", "voices">>
    [] p \in {"longcat-audiodit", "moss-tts-nano"} -> Fetched(p)
    [] OTHER -> <<>>

Steps == {"idle", "vendor", "checkout", "sync", "fetch", "end", "venv",
          "source", "purge"}

StoreTypeOK ==
  /\ package \in Packages /\ {gpu, links, skip, cut, settled} \subseteq BOOLEAN
  /\ venv \in {"none", "bare", "ready"}
  /\ vendor \in {"none", "torn", "cloned", "pinned"}
  /\ vendor # "none" => package \in Vendored
  /\ files \in [Artefacts(package) ->
                  {"absent", "part", "short", "near", "whole"}]
  /\ links => package = "moss-tts-nano"
  /\ script \in Steps /\ todo \in Seq(Artefacts(package))
  /\ engine \in {"none", "up", "failed"}

StoreInit ==
  /\ package \in Packages /\ gpu \in BOOLEAN
  /\ venv = "none" /\ vendor = "none" /\ links = FALSE
  /\ files = [f \in Artefacts(package) |-> "absent"]
  /\ script = "idle" /\ skip = FALSE /\ todo = <<>>
  /\ cut = FALSE /\ settled = FALSE /\ engine = "none"

Python == venv # "none"   \* .venv/bin/python exists

Goes(step) == script' = step
Die        == script' = "idle"

-----------------------------------------------------------------------------
(* install_provider                                                          *)

InstallProvider ==
  /\ script = "idle" /\ skip' \in BOOLEAN /\ settled' = FALSE
  /\ Goes(IF package \in Vendored THEN "vendor" ELSE "sync") /\ engine' = "none"
  /\ UNCHANGED <<package, gpu, venv, vendor, files, links, todo, cut>>

(* Clone unless there is a .git; git does not clone into what is left of a   *)
(* directory.                                                                *)
Clone ==
  /\ script = "vendor"
  /\ \/ vendor \in {"cloned", "pinned"} /\ Goes("checkout") /\ UNCHANGED vendor
     \/ vendor = "none" /\ Goes("checkout") /\ vendor' = "cloned"
     \/ vendor \in {"none", "torn"} /\ Die /\ UNCHANGED vendor
  /\ UNCHANGED <<package, gpu, venv, files, links, skip, todo, cut, settled,
                 engine>>

Checkout ==
  /\ script = "checkout"
  /\ \/ vendor' = "pinned" /\ Goes("sync")
     \/ UNCHANGED vendor /\ Die
  /\ UNCHANGED <<package, gpu, venv, files, links, skip, todo, cut, settled,
                 engine>>

(* A sync that fails may have made the venv, or have left one half changed.  *)
SyncVenv ==
  /\ script = "sync"
  /\ \/ venv' = "ready" /\ Goes(IF skip THEN "end" ELSE "fetch")
        /\ todo' = (IF skip THEN <<>> ELSE Fetched(package))
        /\ cut' = (cut /\ skip)
     \/ venv' \in {venv, "bare"} /\ Die /\ UNCHANGED <<todo, cut>>
  /\ UNCHANGED <<package, gpu, vendor, files, links, skip, settled, engine>>

InstallEnds ==
  /\ script = "end" /\ Goes("idle") /\ settled' = ~skip
  /\ UNCHANGED <<package, gpu, venv, vendor, files, links, skip, todo, cut,
                 engine>>

-----------------------------------------------------------------------------
(* download_models, as a part of it or alone (with --with-int8 or not)       *)

DownloadModels ==
  /\ script = "idle" /\ Goes("fetch") /\ skip' = TRUE
  /\ cut' = FALSE /\ settled' = FALSE /\ engine' = "none"
  /\ \/ todo' = Fetched(package)
     \/ package = "kokoro-onnx" /\ todo' = Append(Fetched(package), "int8")
  /\ UNCHANGED <<package, gpu, venv, vendor, files, links>>

SizeIsOkIfThere(f) == files[f] # "absent"  \* mutant: the size is not compared

(* Within 5 % or 1 MB of what is expected                                    *)
SizeOk(f) == files[f] \in {"near", "whole"}

FetchVars == <<package, gpu, venv, vendor, links, skip, engine>>

SkipFile(f) == SizeOk(f) /\ todo' = Tail(todo) /\ UNCHANGED <<files, script, cut>>

(* The file whose size is off goes before the new one is fetched.            *)
UnlinkFile(f) ==
  /\ ~SizeOk(f) /\ files[f] # "absent"
  /\ files' = [files EXCEPT ![f] = "absent"] /\ UNCHANGED <<script, todo, cut>>

(* The end of the data is taken for the end of the file, whatever its        *)
(* Content-Length said, and the partial file renamed.                        *)
Download(f) ==
  /\ files[f] = "absent"
  /\ \/ \E size \in {"short", "near", "whole"} :
          /\ files' = [files EXCEPT ![f] = size]
          /\ cut' = (cut \/ size # "whole")
          /\ todo' = Tail(todo) /\ UNCHANGED script
     \/ Die /\ UNCHANGED <<files, todo, cut>>

FetchSet(f) == package = "kokoro-onnx"
               /\ (SkipFile(f) \/ UnlinkFile(f) \/ Download(f))

(* snapshot_download, in the venv's python, makes the directory first and    *)
(* goes on with what an earlier one has left.                                *)
HfSnapshot(f) ==
  /\ package \notin {"kokoro-onnx", "pocket-tts"} /\ Python
  /\ \/ venv = "ready" /\ files' = [files EXCEPT ![f] = "whole"]
        /\ todo' = Tail(todo) /\ UNCHANGED script
     \/ files' = [files EXCEPT ![f] = IF @ = "absent" THEN "part" ELSE @]
        /\ Die /\ UNCHANGED todo
  /\ UNCHANGED cut

(* A preset that cannot be fetched is not an error, the weights are.         *)
FetchPocket(f) ==
  /\ package = "pocket-tts" /\ Python
  /\ \/ venv = "ready" /\ files' = [files EXCEPT ![f] = "whole"]
        /\ todo' = Tail(todo) /\ UNCHANGED script
     \/ files' = [files EXCEPT ![f] = IF @ = "absent" THEN "part" ELSE @]
        /\ Die /\ UNCHANGED todo
  /\ UNCHANGED cut

NoPython == package # "kokoro-onnx" /\ ~Python /\ Die
            /\ UNCHANGED <<files, todo, cut>>

Fetch ==
  /\ script = "fetch" /\ todo # <<>> /\ UNCHANGED <<FetchVars, settled>>
  /\ \/ FetchSet(Head(todo)) \/ HfSnapshot(Head(todo))
     \/ FetchPocket(Head(todo)) \/ NoPython

FetchEnds ==
  /\ script = "fetch" /\ todo = <<>>
  /\ IF skip THEN Goes("idle") /\ settled' = TRUE
             ELSE Goes("end") /\ UNCHANGED settled
  /\ UNCHANGED <<FetchVars, files, todo, cut>>

-----------------------------------------------------------------------------
(* uninstall_provider, with --purge-models or not, and once confirmed        *)

UninstallProvider ==
  /\ script = "idle" /\ skip' \in BOOLEAN
  /\ Goes("venv") /\ settled' = FALSE /\ engine' = "none"
  /\ UNCHANGED <<package, gpu, venv, vendor, files, links, todo, cut>>

RemoveVenv ==
  /\ script = "venv" /\ venv' = "none" /\ Goes("source")
  /\ UNCHANGED <<package, gpu, vendor, files, links, skip, todo, cut, settled,
                 engine>>

RemoveSource ==
  /\ script = "source" /\ vendor' = "none"
  /\ IF skip THEN Goes("idle") /\ UNCHANGED todo
             ELSE Goes("purge") /\ todo' = ModelArtefacts(package)
  /\ UNCHANGED <<package, gpu, venv, files, links, skip, cut, settled, engine>>

PurgeModel ==
  /\ script = "purge" /\ todo # <<>>
  /\ files' = [files EXCEPT ![Head(todo)] = "absent"]
  /\ links' = FALSE /\ todo' = Tail(todo)
  /\ UNCHANGED <<package, gpu, venv, vendor, script, skip, cut, settled, engine>>

PurgeEnds ==
  /\ script = "purge" /\ todo = <<>> /\ Goes("idle")
  /\ UNCHANGED <<package, gpu, venv, vendor, files, links, skip, todo, cut,
                 settled, engine>>

(* The script is killed, maybe in the middle of a tree it removes.           *)
Interrupt ==
  /\ script # "idle" /\ Die /\ todo' = <<>>
  /\ venv' \in {venv} \cup (IF script = "venv" /\ Python
                            THEN {"bare", "none"} ELSE {})
  /\ vendor' \in {vendor} \cup
       (IF script = "source" /\ vendor # "none" THEN {"torn"} ELSE
        IF script = "vendor" /\ vendor = "none" THEN {"cloned"} ELSE {})
  /\ files' \in {files,
       IF script = "purge" /\ todo # <<>> /\ package # "kokoro-onnx"
          /\ files[Head(todo)] = "whole"
       THEN [files EXCEPT ![Head(todo)] = "part"] ELSE files}
  /\ UNCHANGED <<package, gpu, links, skip, cut, settled, engine>>

-----------------------------------------------------------------------------
(* build_kokoro and the other builders.  Refused: an error of the engine's   *)
(* own.  Whole: what it reads is what was published.                         *)

(* fp16 where there is one, whatever is in it                                *)
KokoroModel == IF files["fp16"] # "absent" THEN "fp16" ELSE "int8"

KokoroRefuses == files[KokoroModel] = "absent" \/ files["voices"] = "absent"
KokoroWhole   == files[KokoroModel] = "whole" /\ files["voices"] = "whole"

LongcatRefuses == ~gpu \/ vendor = "none" \/ files["snapshot"] = "absent"
MossRefuses    == vendor = "none" \/ files["tts"] = "absent"
                    \/ files["tokenizer"] = "absent"
Qwen3Refuses   == ~gpu  \* without a directory it asks the Hugging Face cache

Refuses ==
  CASE package = "kokoro-onnx"      -> KokoroRefuses
    [] package = "longcat-audiodit" -> LongcatRefuses
    [] package = "moss-tts-nano"    -> MossRefuses
    [] package = "qwen3-tts"        -> Qwen3Refuses
    [] OTHER                        -> FALSE

LongcatWhole == vendor = "pinned" /\ files["snapshot"] = "whole"
MossWhole    == vendor = "pinned" /\ files["tts"] = "whole"
                  /\ files["tokenizer"] = "whole"
Qwen3Whole   == files["snapshot"] = "whole"
PocketWhole  == files["hub"] = "whole"

(* FlashInfer and torch.compile are tried, and done without when they fail.  *)
OmnivoiceWhole == files["snapshot"] = "whole"

AllWhole ==
  CASE package = "kokoro-onnx"      -> KokoroWhole
    [] package = "longcat-audiodit" -> LongcatWhole
    [] package = "moss-tts-nano"    -> MossWhole
    [] package = "qwen3-tts"        -> Qwen3Whole
    [] package = "pocket-tts"       -> PocketWhole
    [] package = "omnivoice"        -> OmnivoiceWhole

(* The links are made at the first load, in a directory that the service     *)
(* unit makes read-only (ReadOnlyPaths, ProtectHome).                        *)
LinkFails(sandboxed) ==
  package = "moss-tts-nano" /\ ~Refuses /\ ~links /\ sandboxed

Loadable(sandboxed) ==
  venv = "ready" /\ ~Refuses /\ AllWhole /\ ~LinkFails(sandboxed)

LoadEngine(sandboxed) ==
  /\ Python /\ script = "idle"
  /\ links' = (links \/ (package = "moss-tts-nano" /\ venv = "ready"
                           /\ ~Refuses /\ ~sandboxed))
  /\ \/ Loadable(sandboxed) /\ engine' = "up"
     \/ ~Loadable(sandboxed) /\ engine' = "failed"
     \/ venv = "ready" /\ ~Refuses /\ ~AllWhole /\ ~LinkFails(sandboxed)
        /\ engine' = "up"
  /\ UNCHANGED <<package, gpu, venv, vendor, files, script, skip, todo, cut,
                 settled>>

StoreStep ==
  \/ Clone \/ Checkout \/ SyncVenv \/ InstallEnds \/ Fetch \/ FetchEnds
  \/ RemoveVenv \/ RemoveSource \/ PurgeModel \/ PurgeEnds \/ Interrupt

-----------------------------------------------------------------------------
(* No transfer was cut short: neither in the last download, unnoticed, nor   *)
(* in an earlier one, by so little that the size still is ok.                *)
Untruncated == ~cut /\ \A f \in Artefacts(package) : files[f] # "near"

(* After a download or an installation that went through, whatever was there *)
(* before of others that did not, the engine loads, if the host is fit for   *)
(* it.  The exception is the first load of moss-tts-nano under the service   *)
(* unit, which cannot write its links.                                       *)
InstalledLoads ==
  /\ settled /\ Untruncated /\ venv = "ready"
  /\ package \in {"longcat-audiodit", "qwen3-tts"} => gpu
  /\ engine = "failed"
  => package = "moss-tts-nano" /\ ~links

================================================================================
