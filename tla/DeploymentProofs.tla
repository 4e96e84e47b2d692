--------------------------- MODULE DeploymentProofs ---------------------------
(***************************************************************************)
(* Theorems about the installation (Deployment): what a provider that has   *)
(* been installed loads (ModelStore), and what the scripts leave of the     *)
(* system's configuration and of the user's speechd.conf (Install).         *)
(***************************************************************************)
EXTENDS Deployment, SubsequenceProofs

-----------------------------------------------------------------------------
(* The inductive invariant of ModelStore                                     *)

(* Everything that download_models is to fetch is there, or a transfer was   *)
(* cut short and not noticed, or it still is on the list.                    *)
Fetchable == {f \in Artefacts(package) :
                \E i \in DOMAIN Fetched(package) : Fetched(package)[i] = f}

There(f) == cut \/ files[f] \in {"near", "whole"}

ToDo(f) == \E i \in DOMAIN todo : todo[i] = f

(* A venv that is ready was made after the upstream source was pinned, and   *)
(* goes before it.                                                           *)
VenvAfterSource ==
  /\ script \in {"vendor", "checkout"} => package \in Vendored
  /\ package \in Vendored =>
       /\ venv = "ready" \/ script = "sync" => vendor = "pinned"
       /\ script = "checkout" => vendor \in {"cloned", "pinned"}
       /\ script = "source" => venv = "none"

FetchedSoFar ==
  /\ script = "fetch" => \A f \in Fetchable : There(f) \/ ToDo(f)
  /\ (script = "end" /\ ~skip) \/ settled => \A f \in Fetchable : There(f)

(* A script that starts forgets the last load, and nothing else than a load  *)
(* happens between scripts.                                                  *)
BetweenScripts == engine # "none" \/ settled => script = "idle"

StoreInv == StoreTypeOK /\ VenvAfterSource /\ FetchedSoFar /\ BetweenScripts
            /\ InstalledLoads

-----------------------------------------------------------------------------
(* The lists of artefacts                                                    *)

LEMMA ListsOfArtefacts ==
  ASSUME NEW p \in Packages
  PROVE  /\ Fetched(p) \in Seq(Artefacts(p))
         /\ ModelArtefacts(p) \in Seq(Artefacts(p))
         /\ p = "kokoro-onnx" =>
              /\ Artefacts(p) = {"fp16", "voices", "int8"}
              /\ Append(Fetched(p), "int8") \in Seq(Artefacts(p))
<1>1. CASE p = "kokoro-onnx"
  <2>1. Fetched(p) = <<"fp16", "voices">>
    BY <1>1 DEF Fetched
  <2>2. Artefacts(p) = {"fp16", "voices", "int8"}
    BY <1>1, <2>1 DEF Artefacts
  <2>3. ModelArtefacts(p) = <<"int8", "fp16", "voices">>
    BY <1>1 DEF ModelArtefacts
  <2>4. <<"fp16", "voices">> \in Seq({"fp16", "voices", "int8"})
        /\ <<"int8", "fp16", "voices">> \in Seq({"fp16", "voices", "int8"})
    OBVIOUS
  <2>5. Append(<<"fp16", "voices">>, "int8") \in Seq({"fp16", "voices", "int8"})
    BY <2>4
  <2> QED
    BY <2>1, <2>2, <2>3, <2>4, <2>5
<1>2. CASE p # "kokoro-onnx"
  <2>1. Artefacts(p) = {Fetched(p)[i] : i \in DOMAIN Fetched(p)}
    BY <1>2 DEF Artefacts
  <2>2. Fetched(p) \in {<<"tts", "tokenizer">>, <<"hub">>, <<"snapshot">>}
    BY <1>2 DEF Fetched, Packages
  <2>3. Fetched(p) \in Seq(Artefacts(p))
    <3>1. CASE Fetched(p) = <<"tts", "tokenizer">>
      BY <2>1, <3>1
    <3>2. CASE Fetched(p) = <<"hub">>
      BY <2>1, <3>2
    <3>3. CASE Fetched(p) = <<"snapshot">>
      BY <2>1, <3>3
    <3> QED
      BY <2>2, <3>1, <3>2, <3>3
  <2>4. ModelArtefacts(p) = Fetched(p) \/ ModelArtefacts(p) = <<>>
    BY <1>2 DEF ModelArtefacts
  <2>5. <<>> \in Seq(Artefacts(p))
    OBVIOUS
  <2> QED
    BY <1>2, <2>3, <2>4, <2>5
<1> QED
  BY <1>1, <1>2

-----------------------------------------------------------------------------
(* Each step of the scripts keeps StoreInv.                                  *)

LEMMA StoreStart == ASSUME StoreInit PROVE StoreInv
<1>1. StoreTypeOK
  <2>1. {gpu, links, skip, cut, settled} \subseteq BOOLEAN
    BY DEF StoreInit
  <2>2. files \in [Artefacts(package) ->
                     {"absent", "part", "short", "near", "whole"}]
    BY DEF StoreInit
  <2>3. todo \in Seq(Artefacts(package))
    BY DEF StoreInit
  <2> QED
    BY <2>1, <2>2, <2>3 DEF StoreInit, StoreTypeOK, Steps
<1>2. VenvAfterSource /\ FetchedSoFar /\ BetweenScripts
  BY DEF StoreInit, VenvAfterSource, FetchedSoFar, BetweenScripts
<1>3. InstalledLoads
  BY DEF StoreInit, InstalledLoads
<1> QED
  BY <1>1, <1>2, <1>3 DEF StoreInv

LEMMA InstallProviderKeepsStore == ASSUME StoreInv, InstallProvider PROVE StoreInv'
<1> USE DEF StoreInv, InstallProvider, Goes, Die, FetchVars
<1>1. StoreTypeOK'
  <2>1. {gpu, links, skip, cut, settled}' \subseteq BOOLEAN
    BY DEF StoreTypeOK
  <2>2. /\ package' \in Packages /\ venv' \in {"none", "bare", "ready"}
        /\ vendor' \in {"none", "torn", "cloned", "pinned"}
        /\ vendor' # "none" => package' \in Vendored
        /\ links' => package' = "moss-tts-nano"
        /\ script' \in Steps /\ engine' \in {"none", "up", "failed"}
    BY DEF StoreTypeOK, VenvAfterSource, Steps, Vendored
  <2>3. files' \in [Artefacts(package') ->
                      {"absent", "part", "short", "near", "whole"}]
    BY DEF StoreTypeOK
  <2>4. todo' \in Seq(Artefacts(package'))
    <3>1. todo' \in {todo, <<>>, Fetched(package), ModelArtefacts(package),
                    Append(Fetched(package), "int8"),
                    IF todo = <<>> THEN <<>> ELSE Tail(todo)}
          /\ package' = package
      OBVIOUS
    <3>2. <<>> \in Seq(Artefacts(package))
      OBVIOUS
    <3> QED
      BY <3>1, <3>2, ListsOfArtefacts DEF StoreTypeOK
  <2> QED
    BY <2>1, <2>2, <2>3, <2>4 DEF StoreTypeOK, Steps
<1>2. VenvAfterSource'
  BY DEF VenvAfterSource, StoreTypeOK, Vendored
<1>3. FetchedSoFar'
  BY DEF FetchedSoFar, BetweenScripts, Fetchable, There, ToDo, StoreTypeOK
<1>4. BetweenScripts' /\ InstalledLoads'
  BY DEF BetweenScripts, InstalledLoads, Untruncated, StoreTypeOK
<1> QED
  BY <1>1, <1>2, <1>3, <1>4

LEMMA DownloadModelsKeepsStore == ASSUME StoreInv, DownloadModels PROVE StoreInv'
<1> USE DEF StoreInv, DownloadModels, Goes, Die, FetchVars
<1>1. StoreTypeOK'
  <2>1. {gpu, links, skip, cut, settled}' \subseteq BOOLEAN
    BY DEF StoreTypeOK
  <2>2. /\ package' \in Packages /\ venv' \in {"none", "bare", "ready"}
        /\ vendor' \in {"none", "torn", "cloned", "pinned"}
        /\ vendor' # "none" => package' \in Vendored
        /\ links' => package' = "moss-tts-nano"
        /\ script' \in Steps /\ engine' \in {"none", "up", "failed"}
    BY DEF StoreTypeOK, VenvAfterSource, Steps, Vendored
  <2>3. files' \in [Artefacts(package') ->
                      {"absent", "part", "short", "near", "whole"}]
    BY DEF StoreTypeOK
  <2>4. todo' \in Seq(Artefacts(package'))
    <3>1. todo' \in {todo, <<>>, Fetched(package), ModelArtefacts(package),
                    Append(Fetched(package), "int8"),
                    IF todo = <<>> THEN <<>> ELSE Tail(todo)}
          /\ package' = package
      OBVIOUS
    <3>2. <<>> \in Seq(Artefacts(package))
      OBVIOUS
    <3> QED
      BY <3>1, <3>2, ListsOfArtefacts DEF StoreTypeOK
  <2> QED
    BY <2>1, <2>2, <2>3, <2>4 DEF StoreTypeOK, Steps
<1>2. VenvAfterSource'
  BY DEF VenvAfterSource, StoreTypeOK, Vendored
<1>3. FetchedSoFar'
  BY DEF FetchedSoFar, BetweenScripts, Fetchable, There, ToDo, StoreTypeOK
<1>4. BetweenScripts' /\ InstalledLoads'
  BY DEF BetweenScripts, InstalledLoads, Untruncated, StoreTypeOK
<1> QED
  BY <1>1, <1>2, <1>3, <1>4

LEMMA UninstallProviderKeepsStore == ASSUME StoreInv, UninstallProvider PROVE StoreInv'
<1> USE DEF StoreInv, UninstallProvider, Goes, Die, FetchVars
<1>1. StoreTypeOK'
  <2>1. {gpu, links, skip, cut, settled}' \subseteq BOOLEAN
    BY DEF StoreTypeOK
  <2>2. /\ package' \in Packages /\ venv' \in {"none", "bare", "ready"}
        /\ vendor' \in {"none", "torn", "cloned", "pinned"}
        /\ vendor' # "none" => package' \in Vendored
        /\ links' => package' = "moss-tts-nano"
        /\ script' \in Steps /\ engine' \in {"none", "up", "failed"}
    BY DEF StoreTypeOK, VenvAfterSource, Steps, Vendored
  <2>3. files' \in [Artefacts(package') ->
                      {"absent", "part", "short", "near", "whole"}]
    BY DEF StoreTypeOK
  <2>4. todo' \in Seq(Artefacts(package'))
    <3>1. todo' \in {todo, <<>>, Fetched(package), ModelArtefacts(package),
                    Append(Fetched(package), "int8"),
                    IF todo = <<>> THEN <<>> ELSE Tail(todo)}
          /\ package' = package
      OBVIOUS
    <3>2. <<>> \in Seq(Artefacts(package))
      OBVIOUS
    <3> QED
      BY <3>1, <3>2, ListsOfArtefacts DEF StoreTypeOK
  <2> QED
    BY <2>1, <2>2, <2>3, <2>4 DEF StoreTypeOK, Steps
<1>2. VenvAfterSource'
  BY DEF VenvAfterSource, StoreTypeOK, Vendored
<1>3. FetchedSoFar'
  BY DEF FetchedSoFar, BetweenScripts, Fetchable, There, ToDo, StoreTypeOK
<1>4. BetweenScripts' /\ InstalledLoads'
  BY DEF BetweenScripts, InstalledLoads, Untruncated, StoreTypeOK
<1> QED
  BY <1>1, <1>2, <1>3, <1>4

LEMMA CloneKeepsStore == ASSUME StoreInv, Clone PROVE StoreInv'
<1> USE DEF StoreInv, Clone, Goes, Die, FetchVars
<1>1. StoreTypeOK'
  <2>1. {gpu, links, skip, cut, settled}' \subseteq BOOLEAN
    BY DEF StoreTypeOK
  <2>2. /\ package' \in Packages /\ venv' \in {"none", "bare", "ready"}
        /\ vendor' \in {"none", "torn", "cloned", "pinned"}
        /\ vendor' # "none" => package' \in Vendored
        /\ links' => package' = "moss-tts-nano"
        /\ script' \in Steps /\ engine' \in {"none", "up", "failed"}
    BY DEF StoreTypeOK, VenvAfterSource, Steps, Vendored
  <2>3. files' \in [Artefacts(package') ->
                      {"absent", "part", "short", "near", "whole"}]
    BY DEF StoreTypeOK
  <2>4. todo' \in Seq(Artefacts(package'))
    <3>1. todo' \in {todo, <<>>, Fetched(package), ModelArtefacts(package),
                    Append(Fetched(package), "int8"),
                    IF todo = <<>> THEN <<>> ELSE Tail(todo)}
          /\ package' = package
      OBVIOUS
    <3>2. <<>> \in Seq(Artefacts(package))
      OBVIOUS
    <3> QED
      BY <3>1, <3>2, ListsOfArtefacts DEF StoreTypeOK
  <2> QED
    BY <2>1, <2>2, <2>3, <2>4 DEF StoreTypeOK, Steps
<1>2. VenvAfterSource'
  BY DEF VenvAfterSource, StoreTypeOK, Vendored
<1>3. FetchedSoFar'
  BY DEF FetchedSoFar, BetweenScripts, Fetchable, There, ToDo, StoreTypeOK
<1>4. BetweenScripts' /\ InstalledLoads'
  BY DEF BetweenScripts, InstalledLoads, Untruncated, StoreTypeOK
<1> QED
  BY <1>1, <1>2, <1>3, <1>4

LEMMA CheckoutKeepsStore == ASSUME StoreInv, Checkout PROVE StoreInv'
<1> USE DEF StoreInv, Checkout, Goes, Die, FetchVars
<1>1. StoreTypeOK'
  <2>1. {gpu, links, skip, cut, settled}' \subseteq BOOLEAN
    BY DEF StoreTypeOK
  <2>2. /\ package' \in Packages /\ venv' \in {"none", "bare", "ready"}
        /\ vendor' \in {"none", "torn", "cloned", "pinned"}
        /\ vendor' # "none" => package' \in Vendored
        /\ links' => package' = "moss-tts-nano"
        /\ script' \in Steps /\ engine' \in {"none", "up", "failed"}
    BY DEF StoreTypeOK, VenvAfterSource, Steps, Vendored
  <2>3. files' \in [Artefacts(package') ->
                      {"absent", "part", "short", "near", "whole"}]
    BY DEF StoreTypeOK
  <2>4. todo' \in Seq(Artefacts(package'))
    <3>1. todo' \in {todo, <<>>, Fetched(package), ModelArtefacts(package),
                    Append(Fetched(package), "int8"),
                    IF todo = <<>> THEN <<>> ELSE Tail(todo)}
          /\ package' = package
      OBVIOUS
    <3>2. <<>> \in Seq(Artefacts(package))
      OBVIOUS
    <3> QED
      BY <3>1, <3>2, ListsOfArtefacts DEF StoreTypeOK
  <2> QED
    BY <2>1, <2>2, <2>3, <2>4 DEF StoreTypeOK, Steps
<1>2. VenvAfterSource'
  BY DEF VenvAfterSource, StoreTypeOK, Vendored
<1>3. FetchedSoFar'
  BY DEF FetchedSoFar, BetweenScripts, Fetchable, There, ToDo, StoreTypeOK
<1>4. BetweenScripts' /\ InstalledLoads'
  BY DEF BetweenScripts, InstalledLoads, Untruncated, StoreTypeOK
<1> QED
  BY <1>1, <1>2, <1>3, <1>4

LEMMA SyncVenvKeepsStore == ASSUME StoreInv, SyncVenv PROVE StoreInv'
<1> USE DEF StoreInv, SyncVenv, Goes, Die, FetchVars
<1>1. StoreTypeOK'
  <2>1. {gpu, links, skip, cut, settled}' \subseteq BOOLEAN
    BY DEF StoreTypeOK
  <2>2. /\ package' \in Packages /\ venv' \in {"none", "bare", "ready"}
        /\ vendor' \in {"none", "torn", "cloned", "pinned"}
        /\ vendor' # "none" => package' \in Vendored
        /\ links' => package' = "moss-tts-nano"
        /\ script' \in Steps /\ engine' \in {"none", "up", "failed"}
    BY DEF StoreTypeOK, VenvAfterSource, Steps, Vendored
  <2>3. files' \in [Artefacts(package') ->
                      {"absent", "part", "short", "near", "whole"}]
    BY DEF StoreTypeOK
  <2>4. todo' \in Seq(Artefacts(package'))
    <3>1. todo' \in {todo, <<>>, Fetched(package), ModelArtefacts(package),
                    Append(Fetched(package), "int8"),
                    IF todo = <<>> THEN <<>> ELSE Tail(todo)}
          /\ package' = package
      OBVIOUS
    <3>2. <<>> \in Seq(Artefacts(package))
      OBVIOUS
    <3> QED
      BY <3>1, <3>2, ListsOfArtefacts DEF StoreTypeOK
  <2> QED
    BY <2>1, <2>2, <2>3, <2>4 DEF StoreTypeOK, Steps
<1>2. VenvAfterSource'
  BY DEF VenvAfterSource, StoreTypeOK, Vendored
<1>3. FetchedSoFar'
  BY DEF FetchedSoFar, BetweenScripts, Fetchable, There, ToDo, StoreTypeOK
<1>4. BetweenScripts' /\ InstalledLoads'
  BY DEF BetweenScripts, InstalledLoads, Untruncated, StoreTypeOK
<1> QED
  BY <1>1, <1>2, <1>3, <1>4

LEMMA InstallEndsKeepsStore == ASSUME StoreInv, InstallEnds PROVE StoreInv'
<1> USE DEF StoreInv, InstallEnds, Goes, Die, FetchVars
<1>1. StoreTypeOK'
  <2>1. {gpu, links, skip, cut, settled}' \subseteq BOOLEAN
    BY DEF StoreTypeOK
  <2>2. /\ package' \in Packages /\ venv' \in {"none", "bare", "ready"}
        /\ vendor' \in {"none", "torn", "cloned", "pinned"}
        /\ vendor' # "none" => package' \in Vendored
        /\ links' => package' = "moss-tts-nano"
        /\ script' \in Steps /\ engine' \in {"none", "up", "failed"}
    BY DEF StoreTypeOK, VenvAfterSource, Steps, Vendored
  <2>3. files' \in [Artefacts(package') ->
                      {"absent", "part", "short", "near", "whole"}]
    BY DEF StoreTypeOK
  <2>4. todo' \in Seq(Artefacts(package'))
    <3>1. todo' \in {todo, <<>>, Fetched(package), ModelArtefacts(package),
                    Append(Fetched(package), "int8"),
                    IF todo = <<>> THEN <<>> ELSE Tail(todo)}
          /\ package' = package
      OBVIOUS
    <3>2. <<>> \in Seq(Artefacts(package))
      OBVIOUS
    <3> QED
      BY <3>1, <3>2, ListsOfArtefacts DEF StoreTypeOK
  <2> QED
    BY <2>1, <2>2, <2>3, <2>4 DEF StoreTypeOK, Steps
<1>2. VenvAfterSource'
  BY DEF VenvAfterSource, StoreTypeOK, Vendored
<1>3. FetchedSoFar'
  BY DEF FetchedSoFar, BetweenScripts, Fetchable, There, ToDo, StoreTypeOK
<1>4. BetweenScripts' /\ InstalledLoads'
  BY DEF BetweenScripts, InstalledLoads, Untruncated, StoreTypeOK
<1> QED
  BY <1>1, <1>2, <1>3, <1>4

LEMMA FetchEndsKeepsStore == ASSUME StoreInv, FetchEnds PROVE StoreInv'
<1> USE DEF StoreInv, FetchEnds, Goes, Die, FetchVars
<1>1. StoreTypeOK'
  <2>1. {gpu, links, skip, cut, settled}' \subseteq BOOLEAN
    BY DEF StoreTypeOK
  <2>2. /\ package' \in Packages /\ venv' \in {"none", "bare", "ready"}
        /\ vendor' \in {"none", "torn", "cloned", "pinned"}
        /\ vendor' # "none" => package' \in Vendored
        /\ links' => package' = "moss-tts-nano"
        /\ script' \in Steps /\ engine' \in {"none", "up", "failed"}
    BY DEF StoreTypeOK, VenvAfterSource, Steps, Vendored
  <2>3. files' \in [Artefacts(package') ->
                      {"absent", "part", "short", "near", "whole"}]
    BY DEF StoreTypeOK
  <2>4. todo' \in Seq(Artefacts(package'))
    <3>1. todo' \in {todo, <<>>, Fetched(package), ModelArtefacts(package),
                    Append(Fetched(package), "int8"),
                    IF todo = <<>> THEN <<>> ELSE Tail(todo)}
          /\ package' = package
      OBVIOUS
    <3>2. <<>> \in Seq(Artefacts(package))
      OBVIOUS
    <3> QED
      BY <3>1, <3>2, ListsOfArtefacts DEF StoreTypeOK
  <2> QED
    BY <2>1, <2>2, <2>3, <2>4 DEF StoreTypeOK, Steps
<1>2. VenvAfterSource'
  BY DEF VenvAfterSource, StoreTypeOK, Vendored
<1>3. FetchedSoFar'
  BY DEF FetchedSoFar, BetweenScripts, Fetchable, There, ToDo, StoreTypeOK
<1>4. BetweenScripts' /\ InstalledLoads'
  BY DEF BetweenScripts, InstalledLoads, Untruncated, StoreTypeOK
<1> QED
  BY <1>1, <1>2, <1>3, <1>4

LEMMA RemoveVenvKeepsStore == ASSUME StoreInv, RemoveVenv PROVE StoreInv'
<1> USE DEF StoreInv, RemoveVenv, Goes, Die, FetchVars
<1>1. StoreTypeOK'
  <2>1. {gpu, links, skip, cut, settled}' \subseteq BOOLEAN
    BY DEF StoreTypeOK
  <2>2. /\ package' \in Packages /\ venv' \in {"none", "bare", "ready"}
        /\ vendor' \in {"none", "torn", "cloned", "pinned"}
        /\ vendor' # "none" => package' \in Vendored
        /\ links' => package' = "moss-tts-nano"
        /\ script' \in Steps /\ engine' \in {"none", "up", "failed"}
    BY DEF StoreTypeOK, VenvAfterSource, Steps, Vendored
  <2>3. files' \in [Artefacts(package') ->
                      {"absent", "part", "short", "near", "whole"}]
    BY DEF StoreTypeOK
  <2>4. todo' \in Seq(Artefacts(package'))
    <3>1. todo' \in {todo, <<>>, Fetched(package), ModelArtefacts(package),
                    Append(Fetched(package), "int8"),
                    IF todo = <<>> THEN <<>> ELSE Tail(todo)}
          /\ package' = package
      OBVIOUS
    <3>2. <<>> \in Seq(Artefacts(package))
      OBVIOUS
    <3> QED
      BY <3>1, <3>2, ListsOfArtefacts DEF StoreTypeOK
  <2> QED
    BY <2>1, <2>2, <2>3, <2>4 DEF StoreTypeOK, Steps
<1>2. VenvAfterSource'
  BY DEF VenvAfterSource, StoreTypeOK, Vendored
<1>3. FetchedSoFar'
  BY DEF FetchedSoFar, BetweenScripts, Fetchable, There, ToDo, StoreTypeOK
<1>4. BetweenScripts' /\ InstalledLoads'
  BY DEF BetweenScripts, InstalledLoads, Untruncated, StoreTypeOK
<1> QED
  BY <1>1, <1>2, <1>3, <1>4

LEMMA RemoveSourceKeepsStore == ASSUME StoreInv, RemoveSource PROVE StoreInv'
<1> USE DEF StoreInv, RemoveSource, Goes, Die, FetchVars
<1>1. StoreTypeOK'
  <2>1. {gpu, links, skip, cut, settled}' \subseteq BOOLEAN
    BY DEF StoreTypeOK
  <2>2. /\ package' \in Packages /\ venv' \in {"none", "bare", "ready"}
        /\ vendor' \in {"none", "torn", "cloned", "pinned"}
        /\ vendor' # "none" => package' \in Vendored
        /\ links' => package' = "moss-tts-nano"
        /\ script' \in Steps /\ engine' \in {"none", "up", "failed"}
    BY DEF StoreTypeOK, VenvAfterSource, Steps, Vendored
  <2>3. files' \in [Artefacts(package') ->
                      {"absent", "part", "short", "near", "whole"}]
    BY DEF StoreTypeOK
  <2>4. todo' \in Seq(Artefacts(package'))
    <3>1. todo' \in {todo, <<>>, Fetched(package), ModelArtefacts(package),
                    Append(Fetched(package), "int8"),
                    IF todo = <<>> THEN <<>> ELSE Tail(todo)}
          /\ package' = package
      OBVIOUS
    <3>2. <<>> \in Seq(Artefacts(package))
      OBVIOUS
    <3> QED
      BY <3>1, <3>2, ListsOfArtefacts DEF StoreTypeOK
  <2> QED
    BY <2>1, <2>2, <2>3, <2>4 DEF StoreTypeOK, Steps
<1>2. VenvAfterSource'
  BY DEF VenvAfterSource, StoreTypeOK, Vendored
<1>3. FetchedSoFar'
  BY DEF FetchedSoFar, BetweenScripts, Fetchable, There, ToDo, StoreTypeOK
<1>4. BetweenScripts' /\ InstalledLoads'
  BY DEF BetweenScripts, InstalledLoads, Untruncated, StoreTypeOK
<1> QED
  BY <1>1, <1>2, <1>3, <1>4

LEMMA PurgeModelKeepsStore == ASSUME StoreInv, PurgeModel PROVE StoreInv'
<1> USE DEF StoreInv, PurgeModel, Goes, Die, FetchVars
<1>1. StoreTypeOK'
  <2>1. {gpu, links, skip, cut, settled}' \subseteq BOOLEAN
    BY DEF StoreTypeOK
  <2>2. /\ package' \in Packages /\ venv' \in {"none", "bare", "ready"}
        /\ vendor' \in {"none", "torn", "cloned", "pinned"}
        /\ vendor' # "none" => package' \in Vendored
        /\ links' => package' = "moss-tts-nano"
        /\ script' \in Steps /\ engine' \in {"none", "up", "failed"}
    BY DEF StoreTypeOK, VenvAfterSource, Steps, Vendored
  <2>3. files' \in [Artefacts(package') ->
                      {"absent", "part", "short", "near", "whole"}]
    BY DEF StoreTypeOK
  <2>4. todo' \in Seq(Artefacts(package'))
    <3>1. todo' \in {todo, <<>>, Fetched(package), ModelArtefacts(package),
                    Append(Fetched(package), "int8"),
                    IF todo = <<>> THEN <<>> ELSE Tail(todo)}
          /\ package' = package
      OBVIOUS
    <3>2. <<>> \in Seq(Artefacts(package))
      OBVIOUS
    <3> QED
      BY <3>1, <3>2, ListsOfArtefacts DEF StoreTypeOK
  <2> QED
    BY <2>1, <2>2, <2>3, <2>4 DEF StoreTypeOK, Steps
<1>2. VenvAfterSource'
  BY DEF VenvAfterSource, StoreTypeOK, Vendored
<1>3. FetchedSoFar'
  BY DEF FetchedSoFar, BetweenScripts, Fetchable, There, ToDo, StoreTypeOK
<1>4. BetweenScripts' /\ InstalledLoads'
  BY DEF BetweenScripts, InstalledLoads, Untruncated, StoreTypeOK
<1> QED
  BY <1>1, <1>2, <1>3, <1>4

LEMMA PurgeEndsKeepsStore == ASSUME StoreInv, PurgeEnds PROVE StoreInv'
<1> USE DEF StoreInv, PurgeEnds, Goes, Die, FetchVars
<1>1. StoreTypeOK'
  <2>1. {gpu, links, skip, cut, settled}' \subseteq BOOLEAN
    BY DEF StoreTypeOK
  <2>2. /\ package' \in Packages /\ venv' \in {"none", "bare", "ready"}
        /\ vendor' \in {"none", "torn", "cloned", "pinned"}
        /\ vendor' # "none" => package' \in Vendored
        /\ links' => package' = "moss-tts-nano"
        /\ script' \in Steps /\ engine' \in {"none", "up", "failed"}
    BY DEF StoreTypeOK, VenvAfterSource, Steps, Vendored
  <2>3. files' \in [Artefacts(package') ->
                      {"absent", "part", "short", "near", "whole"}]
    BY DEF StoreTypeOK
  <2>4. todo' \in Seq(Artefacts(package'))
    <3>1. todo' \in {todo, <<>>, Fetched(package), ModelArtefacts(package),
                    Append(Fetched(package), "int8"),
                    IF todo = <<>> THEN <<>> ELSE Tail(todo)}
          /\ package' = package
      OBVIOUS
    <3>2. <<>> \in Seq(Artefacts(package))
      OBVIOUS
    <3> QED
      BY <3>1, <3>2, ListsOfArtefacts DEF StoreTypeOK
  <2> QED
    BY <2>1, <2>2, <2>3, <2>4 DEF StoreTypeOK, Steps
<1>2. VenvAfterSource'
  BY DEF VenvAfterSource, StoreTypeOK, Vendored
<1>3. FetchedSoFar'
  BY DEF FetchedSoFar, BetweenScripts, Fetchable, There, ToDo, StoreTypeOK
<1>4. BetweenScripts' /\ InstalledLoads'
  BY DEF BetweenScripts, InstalledLoads, Untruncated, StoreTypeOK
<1> QED
  BY <1>1, <1>2, <1>3, <1>4

LEMMA InterruptKeepsStore == ASSUME StoreInv, Interrupt PROVE StoreInv'
<1> USE DEF StoreInv, Interrupt, Goes, Die, FetchVars
<1>1. StoreTypeOK'
  <2>1. {gpu, links, skip, cut, settled}' \subseteq BOOLEAN
    BY DEF StoreTypeOK
  <2>2. /\ package' \in Packages /\ venv' \in {"none", "bare", "ready"}
        /\ vendor' \in {"none", "torn", "cloned", "pinned"}
        /\ vendor' # "none" => package' \in Vendored
        /\ links' => package' = "moss-tts-nano"
        /\ script' \in Steps /\ engine' \in {"none", "up", "failed"}
    BY DEF StoreTypeOK, VenvAfterSource, Steps, Vendored
  <2>3. files' \in [Artefacts(package') ->
                      {"absent", "part", "short", "near", "whole"}]
    BY DEF StoreTypeOK
  <2>4. todo' \in Seq(Artefacts(package'))
    <3>1. todo' \in {todo, <<>>, Fetched(package), ModelArtefacts(package),
                    Append(Fetched(package), "int8"),
                    IF todo = <<>> THEN <<>> ELSE Tail(todo)}
          /\ package' = package
      OBVIOUS
    <3>2. <<>> \in Seq(Artefacts(package))
      OBVIOUS
    <3> QED
      BY <3>1, <3>2, ListsOfArtefacts DEF StoreTypeOK
  <2> QED
    BY <2>1, <2>2, <2>3, <2>4 DEF StoreTypeOK, Steps
<1>2. VenvAfterSource'
  BY DEF VenvAfterSource, StoreTypeOK, Vendored
<1>3. FetchedSoFar'
  BY DEF FetchedSoFar, BetweenScripts, Fetchable, There, ToDo, StoreTypeOK
<1>4. BetweenScripts' /\ InstalledLoads'
  BY DEF BetweenScripts, InstalledLoads, Untruncated, StoreTypeOK
<1> QED
  BY <1>1, <1>2, <1>3, <1>4

(* The fetch of one artefact, which is the first of the list                 *)
LEMMA FetchKeepsStore == ASSUME StoreInv, Fetch PROVE StoreInv'
<1> DEFINE f == Head(todo)
<1>1. /\ script = "fetch" /\ todo # <<>> /\ settled = FALSE /\ engine = "none"
      /\ UNCHANGED <<package, gpu, venv, vendor, links, skip, engine, settled>>
      /\ todo \in Seq(Artefacts(package)) /\ f \in Artefacts(package)
      /\ f = todo[1] /\ package \in Packages
      /\ files \in [Artefacts(package) ->
                      {"absent", "part", "short", "near", "whole"}]
      /\ {cut, gpu, links, skip, settled} \subseteq BOOLEAN
  BY DEF Fetch, FetchVars, StoreInv, StoreTypeOK, BetweenScripts
(* What a step may do: leave, start over with the artefact, or have it.      *)
<1>2. /\ script' = "fetch" \/ script' = "idle"
      /\ cut' \in BOOLEAN /\ (cut => cut')
      /\ files' \in [Artefacts(package) ->
                       {"absent", "part", "short", "near", "whole"}]
      /\ \A a \in Artefacts(package) : a # f => files'[a] = files[a]
      /\ \/ todo' = todo
         \/ todo' = Tail(todo)
            /\ (cut' \/ files'[f] \in {"near", "whole"})
  <2>1. CASE FetchSet(f)
    <3>1. CASE SkipFile(f)
      BY <1>1, <3>1 DEF SkipFile, SizeOk
    <3>2. CASE UnlinkFile(f)
      BY <1>1, <3>2 DEF UnlinkFile
    <3>3. CASE Download(f)
      <4>1. CASE Die /\ UNCHANGED <<files, todo, cut>>
        BY <1>1, <4>1 DEF Die
      <4>2. CASE \E size \in {"short", "near", "whole"} :
                   /\ files' = [files EXCEPT ![f] = size]
                   /\ cut' = (cut \/ size # "whole")
                   /\ todo' = Tail(todo) /\ UNCHANGED script
        <5>1. PICK size \in {"short", "near", "whole"} :
                   /\ files' = [files EXCEPT ![f] = size]
                   /\ cut' = (cut \/ size # "whole")
                   /\ todo' = Tail(todo) /\ UNCHANGED script
          BY <4>2
        <5>2. cut' \in BOOLEAN
          BY <5>1
        <5>3. cut \/ size # "whole" => cut'
          BY <5>1
        <5> QED
          BY <1>1, <5>1, <5>2, <5>3
      <4> QED
        BY <3>3, <4>1, <4>2 DEF Download
    <3> QED
      BY <2>1, <3>1, <3>2, <3>3 DEF FetchSet
  <2>2. CASE HfSnapshot(f)
    BY <1>1, <2>2 DEF HfSnapshot, Die
  <2>3. CASE FetchPocket(f)
    BY <1>1, <2>3 DEF FetchPocket, Die
  <2>4. CASE NoPython
    BY <1>1, <2>4 DEF NoPython, Die
  <2> QED
    BY <2>1, <2>2, <2>3, <2>4 DEF Fetch
<1> HIDE DEF f
<1>3. todo' \in Seq(Artefacts(package))
  <2>1. Tail(todo) \in Seq(Artefacts(package))
    BY <1>1
  <2> QED
    BY <1>1, <1>2, <2>1, Zenon
<1>4. StoreTypeOK'
  <2>1. {gpu, links, skip, cut, settled}' \subseteq BOOLEAN
    BY <1>1, <1>2
  <2>2. script' \in Steps
    BY <1>2 DEF Steps
  <2> QED
    BY <1>1, <1>2, <1>3, <2>1, <2>2 DEF StoreInv, StoreTypeOK
<1>5. VenvAfterSource'
  BY <1>1, <1>2 DEF StoreInv, VenvAfterSource
<1>6. FetchedSoFar'
  <2>1. ASSUME NEW a \in Fetchable, script' = "fetch"
        PROVE  There(a)' \/ ToDo(a)'
    <3>1. a \in Artefacts(package) /\ (There(a) \/ ToDo(a))
      BY <1>1 DEF StoreInv, FetchedSoFar, Fetchable
    <3>2. CASE todo' = todo
      <4>1. CASE ToDo(a)
        BY <3>2, <4>1 DEF ToDo
      <4>2. CASE There(a) /\ a # f
        BY <1>1, <1>2, <3>1, <4>2 DEF There
      <4>3. CASE a = f
        <5>1. 1 \in DOMAIN todo' /\ todo'[1] = a
          BY <1>1, <3>2, <4>3
        <5> QED
          BY <5>1 DEF ToDo
      <4> QED
        BY <3>1, <4>1, <4>2, <4>3
    <3>3. CASE todo' = Tail(todo) /\ (cut' \/ files'[f] \in {"near", "whole"})
      <4>1. CASE a = f
        BY <3>3, <4>1 DEF There
      <4>2. CASE There(a) /\ a # f
        BY <1>1, <1>2, <3>1, <4>2 DEF There
      <4>3. CASE ToDo(a) /\ a # f
        <5>1. PICK i \in DOMAIN todo : todo[i] = a
          BY <4>3 DEF ToDo
        <5>2. i # 1 /\ i \in 1..Len(todo)
          BY <1>1, <4>3, <5>1
        <5>3. i - 1 \in DOMAIN Tail(todo) /\ Tail(todo)[i - 1] = a
          BY <1>1, <5>1, <5>2
        <5> QED
          BY <3>3, <5>3 DEF ToDo
      <4> QED
        BY <3>1, <4>1, <4>2, <4>3
    <3> QED
      BY <1>2, <3>2, <3>3
  <2>2. Fetchable' = Fetchable
    BY <1>1 DEF Fetchable
  <2>3. script' # "end" /\ settled' = FALSE
    BY <1>1, <1>2
  <2> QED
    BY <2>1, <2>2, <2>3 DEF FetchedSoFar
<1>7. BetweenScripts' /\ InstalledLoads'
  BY <1>1 DEF BetweenScripts, InstalledLoads
<1> QED
  BY <1>4, <1>5, <1>6, <1>7 DEF StoreInv

(* The artefacts that AllWhole looks at are those that are fetched.          *)
LEMMA FetchedIsWhole ==
  ASSUME StoreTypeOK, VenvAfterSource, venv = "ready", Untruncated,
         \A f \in Fetchable : There(f)
  PROVE  /\ AllWhole
         /\ Refuses => package \in {"longcat-audiodit", "qwen3-tts"} /\ ~gpu
<1>1. \A f \in Artefacts(package) :
        f \in Fetchable => files[f] = "whole"
  <2>1. \A f \in Artefacts(package) :
          files[f] \in {"absent", "part", "short", "near", "whole"}
    BY DEF StoreTypeOK
  <2> QED
    BY <2>1 DEF Untruncated, There, StoreTypeOK
<1>2. package \in Vendored => vendor = "pinned"
  BY DEF VenvAfterSource
<1>3. package \in Packages
  BY DEF StoreTypeOK
<1>4. ASSUME NEW i \in DOMAIN Fetched(package)
      PROVE  files[Fetched(package)[i]] = "whole"
  BY <1>1 DEF Fetchable, Artefacts
<1>5. CASE package = "kokoro-onnx"
  <2>1. Fetched(package) = <<"fp16", "voices">>
    BY <1>5 DEF Fetched
  <2>2. files["fp16"] = "whole" /\ files["voices"] = "whole"
    <3>1. 1 \in DOMAIN Fetched(package) /\ 2 \in DOMAIN Fetched(package)
          /\ Fetched(package)[1] = "fp16" /\ Fetched(package)[2] = "voices"
      BY <2>1
    <3> QED
      BY <1>4, <3>1
  <2>3. KokoroWhole /\ ~KokoroRefuses
    BY <2>2 DEF KokoroWhole, KokoroRefuses, KokoroModel
  <2> QED
    BY <1>5, <2>3 DEF AllWhole, Refuses
<1>6. CASE package = "moss-tts-nano"
  <2>1. Fetched(package) = <<"tts", "tokenizer">>
    BY <1>6 DEF Fetched
  <2>2. files["tts"] = "whole" /\ files["tokenizer"] = "whole"
    <3>1. 1 \in DOMAIN Fetched(package) /\ 2 \in DOMAIN Fetched(package)
          /\ Fetched(package)[1] = "tts" /\ Fetched(package)[2] = "tokenizer"
      BY <2>1
    <3> QED
      BY <1>4, <3>1
  <2> QED
    BY <1>2, <1>6, <2>2
    DEF AllWhole, Refuses, MossWhole, MossRefuses, Vendored
<1>7. CASE package = "pocket-tts"
  <2>1. Fetched(package) = <<"hub">>
    BY <1>7 DEF Fetched
  <2>2. files["hub"] = "whole"
    <3>1. 1 \in DOMAIN Fetched(package) /\ Fetched(package)[1] = "hub"
      BY <2>1
    <3> QED
      BY <1>4, <3>1
  <2> QED
    BY <1>7, <2>2 DEF AllWhole, Refuses, PocketWhole
<1>8. CASE package \in {"longcat-audiodit", "omnivoice", "qwen3-tts"}
  <2>1. Fetched(package) = <<"snapshot">>
    BY <1>8 DEF Fetched
  <2>2. files["snapshot"] = "whole"
    <3>1. 1 \in DOMAIN Fetched(package) /\ Fetched(package)[1] = "snapshot"
      BY <2>1
    <3> QED
      BY <1>4, <3>1
  <2>3. CASE package = "longcat-audiodit"
    BY <1>2, <2>2, <2>3
    DEF AllWhole, Refuses, LongcatWhole, LongcatRefuses, Vendored
  <2>4. CASE package = "omnivoice"
    BY <2>2, <2>4 DEF AllWhole, Refuses, OmnivoiceWhole
  <2>5. CASE package = "qwen3-tts"
    BY <2>2, <2>5 DEF AllWhole, Refuses, Qwen3Whole, Qwen3Refuses
  <2> QED
    BY <1>8, <2>3, <2>4, <2>5
<1> QED
  BY <1>3, <1>5, <1>6, <1>7, <1>8 DEF Packages

LEMMA LoadEngineKeepsStore ==
  ASSUME StoreInv, NEW unit \in BOOLEAN, LoadEngine(unit) PROVE StoreInv'
<1>1. /\ script = "idle" /\ engine' \in {"up", "failed"}
      /\ UNCHANGED <<package, gpu, venv, vendor, files, script, skip, todo, cut,
                     settled>>
  BY DEF LoadEngine
<1>2. (links => links') /\ links' \in BOOLEAN
      /\ (links' => package = "moss-tts-nano")
  BY DEF LoadEngine, StoreInv, StoreTypeOK
<1>3. StoreTypeOK'
  <2>1. {gpu, links, skip, cut, settled}' \subseteq BOOLEAN
    BY <1>1, <1>2 DEF StoreInv, StoreTypeOK
  <2> QED
    BY <1>1, <1>2, <2>1 DEF StoreInv, StoreTypeOK
<1>4. VenvAfterSource'
  BY <1>1 DEF StoreInv, VenvAfterSource
<1>5. FetchedSoFar'
  BY <1>1 DEF StoreInv, FetchedSoFar, There, ToDo, Fetchable
<1>6. BetweenScripts'
  BY <1>1 DEF BetweenScripts
<1>7. InstalledLoads'
  <2>1. SUFFICES ASSUME settled, Untruncated, venv = "ready", engine' = "failed",
                        package \in {"longcat-audiodit", "qwen3-tts"} => gpu
                 PROVE  package = "moss-tts-nano" /\ ~links'
    BY <1>1 DEF InstalledLoads, Untruncated
  <2>2. AllWhole /\ ~Refuses
    <3>1. \A f \in Fetchable : There(f)
      BY <2>1 DEF StoreInv, FetchedSoFar
    <3> QED
      BY <2>1, <3>1, FetchedIsWhole DEF StoreInv
  <2>3. LinkFails(unit)
    BY <2>1, <2>2 DEF LoadEngine, Loadable
  <2> QED
    BY <2>3 DEF LinkFails, LoadEngine
<1> QED
  BY <1>3, <1>4, <1>5, <1>6, <1>7 DEF StoreInv

LEMMA StoreUnchanged == ASSUME StoreInv, UNCHANGED storeVars PROVE StoreInv'
  BY DEF StoreInv, storeVars, StoreTypeOK, VenvAfterSource, FetchedSoFar,
         BetweenScripts, InstalledLoads, Untruncated, There, ToDo, Fetchable

LEMMA StoreStepKeepsStore == ASSUME StoreInv, StoreStep PROVE StoreInv'
  BY CloneKeepsStore, CheckoutKeepsStore, SyncVenvKeepsStore,
     InstallEndsKeepsStore, FetchKeepsStore, FetchEndsKeepsStore,
     RemoveVenvKeepsStore, RemoveSourceKeepsStore, PurgeModelKeepsStore,
     PurgeEndsKeepsStore, InterruptKeepsStore DEF StoreStep

(* The store's variables keep their types, and what has been installed       *)
(* loads, after any sequence of scripts, failures and kills.                 *)
THEOREM StoreInvariant == Spec => []StoreInv
<1>1. Init => StoreInv
  BY StoreStart DEF Init
<1>2. ASSUME StoreInv, [Next]_vars PROVE StoreInv'
  <2>1. CASE StartScript
    BY <1>2, <2>1, InstallProviderKeepsStore, DownloadModelsKeepsStore,
       UninstallProviderKeepsStore, StoreUnchanged DEF StartScript
  <2>2. CASE Provide
    BY <1>2, <2>2, StoreStepKeepsStore, LoadEngineKeepsStore DEF Provide
  <2>3. CASE Setup
    BY <1>2, <2>3, StoreUnchanged DEF Setup
  <2>4. CASE UNCHANGED vars
    BY <1>2, <2>4, StoreUnchanged DEF vars
  <2> QED
    BY <1>2, <2>1, <2>2, <2>3, <2>4 DEF Next
<1> QED
  BY <1>1, <1>2, PTL DEF Spec

(* After a download or an installation that went through, whatever was there *)
(* before of others that did not or were killed, the engine loads, if the    *)
(* host is fit for it and no transfer was cut short unnoticed; but for the   *)
(* first load of moss-tts-nano under the service unit (download_models.py,   *)
(* install_provider.py, engine.py).                                          *)
THEOREM InstallationLoads == Spec => []InstalledLoads
<1>1. StoreInv => InstalledLoads
  BY DEF StoreInv
<1> QED
  BY <1>1, StoreInvariant, PTL

-----------------------------------------------------------------------------
(* The inductive invariant of Install                                        *)

(* The file that a script writes is one that it has read or made.            *)
FilesRead ==
  /\ setup \in {"legacy", "append", "enable"} => conf # NoFile
  /\ setup = "strip" => text # NoFile

(* What install.py has written when it comes to each of its steps            *)
InstalledSoFar ==
  /\ setup \in {"service", "config", "modconf", "seed", "legacy", "append",
                "enable"}
       => {"neural-tts.socket", "neural-tts-control.socket"} \subseteq units
  /\ setup \in {"config", "modconf", "seed", "legacy", "append", "enable"}
       => units = Units /\ service = at
  /\ setup \in {"modconf", "seed", "legacy", "append", "enable"} => enabled # {}
  /\ setup \in {"seed", "legacy", "append", "enable"}
       => modconf = {"neural-tts.conf"}
  /\ setup \in {"append", "enable"} => ~Has(conf, {"legacy"})
  /\ setup = "enable" /\ ~declined
       => Has(conf, {at} \cup (IF at = "here" THEN {"off"} ELSE {}))

(* What uninstall.py has removed                                             *)
RemovedSoFar ==
  /\ setup \in {"unlink", "unconf", "read", "strip"} => ~sockets
  /\ setup \in {"unconf", "read", "strip"} => units = {}
  /\ setup \in {"read", "strip"} => modconf = {}

(* An outcome is what the last script had, until the next one or an edit.    *)
OutcomeIsLast == outcome # "none" => setup = "idle"

SetupInv == InstallTypeOK /\ FilesRead /\ InstalledSoFar /\ RemovedSoFar
            /\ OutcomeIsLast /\ OneLinePerRepo /\ InstallComplete
            /\ UninstallLeavesNone

-----------------------------------------------------------------------------
(* The lines that Without leaves                                             *)

OneOfEach(lines) ==
  \A i, j \in DOMAIN lines : lines[i] = lines[j] /\ lines[i] \in Repos => i = j

LEMMA NoFileHasNoLines == NoFile \notin Seq(Lines)
<1>1. SUFFICES ASSUME NoFile \in Seq(Lines) PROVE FALSE
  OBVIOUS
<1>2. NoFile[1] \in Lines
  <2>1. Len(NoFile) = 1
    BY DEF NoFile
  <2> QED
    BY <1>1, <2>1
<1> QED
  BY <1>2 DEF NoFile, Lines, Repos

LEMMA KeptLines ==
  ASSUME NEW lines \in Seq(Lines), NEW S
  PROVE  \E K \in SUBSET (1..Len(lines)) :
           /\ Dropped(lines, S) = Picked(lines, K)
           /\ \A i \in K : lines[i] \notin S
           /\ \A i \in (1..Len(lines)) \ K :
                lines[i] \in S \cup {"marker", "blank"}
<1> DEFINE gone == S \cup {"marker"}
           K == {i \in DOMAIN lines :
                   /\ lines[i] \notin gone
                   /\ ~(lines[i] = "blank" /\ i > 1 /\ lines[i - 1] \in gone)}
<1>1. Dropped(lines, S) = Picked(lines, K)
  BY DEF Dropped
<1>2. DOMAIN lines = 1..Len(lines)
  OBVIOUS
<1>3. K \in SUBSET (1..Len(lines)) /\ \A i \in K : lines[i] \notin S
  BY <1>2
<1>4. \A i \in (1..Len(lines)) \ K : lines[i] \in S \cup {"marker", "blank"}
  BY <1>2
<1> QED
  BY <1>1, <1>3, <1>4

LEMMA RStripFacts ==
  ASSUME NEW lines \in Seq(Lines)
  PROVE  \E m \in 0..Len(lines) :
           /\ RStrip(lines) = SubSeq(lines, 1, m)
           /\ \A i \in (m + 1)..Len(lines) : lines[i] = "blank"
<1> DEFINE I == {i \in 1..Len(lines) : lines[i] # "blank"}
           m == IF I # {} THEN Max(I) ELSE 0
<1>1. RStrip(lines) = SubSeq(lines, 1, m)
  BY DEF RStrip, SelectLastInSeq
<1>2. Len(lines) \in Nat
  OBVIOUS
<1>3. CASE I = {}
  <2>1. m = 0
    BY <1>3
  <2> QED
    BY <1>1, <1>2, <1>3, <2>1
<1>4. CASE I # {}
  <2>1. I \in SUBSET Nat /\ \A y \in I : y <= Len(lines)
    BY <1>2
  <2> HIDE DEF I
  <2>2. \E x \in I : \A y \in I : x >= y
    BY <1>2, <1>4, <2>1, GreatestMember
  <2>3. Max(I) \in I /\ \A y \in I : Max(I) >= y
    BY <2>2 DEF Max
  <2>4. m \in I /\ \A y \in I : m >= y
    BY <1>4, <2>3
  <2> HIDE DEF m
  <2>5. m \in 0..Len(lines)
    BY <2>4 DEF I
  <2>6. ASSUME NEW i \in (m + 1)..Len(lines) PROVE lines[i] = "blank"
    <3>1. i \in 1..Len(lines) /\ ~(m >= i)
      BY <1>2, <2>5
    <3>2. i \notin I
      BY <2>4, <3>1
    <3> QED
      BY <3>1, <3>2 DEF I
  <2> QED
    BY <1>1, <2>5, <2>6
<1> QED
  BY <1>3, <1>4

(* What is left comes from other lines, none of which are of S, and in their *)
(* order.                                                                    *)
LEMMA WithoutFacts ==
  ASSUME NEW lines \in Seq(Lines), NEW S
  PROVE  /\ Without(lines, S) \in Seq(Lines) /\ ~Has(Without(lines, S), S)
         /\ OneOfEach(lines) => OneOfEach(Without(lines, S))
         /\ \A E : E \cap (S \cup {"marker", "blank"}) = {}
              => Only(Without(lines, S), E) = Only(lines, E)
<1>1. PICK K \in SUBSET (1..Len(lines)) :
           /\ Dropped(lines, S) = Picked(lines, K)
           /\ \A i \in K : lines[i] \notin S
           /\ \A i \in (1..Len(lines)) \ K :
                lines[i] \in S \cup {"marker", "blank"}
  BY KeptLines
<1>2. PICK d \in Seq(Lines) : d = Picked(lines, K)
  BY PickedType
<1>3. PICK g : Enumerates(g, d, lines, K)
  BY <1>2, PickedPlaces
<1>4. PICK m \in 0..Len(d) :
           /\ RStrip(d) = SubSeq(d, 1, m)
           /\ \A i \in (m + 1)..Len(d) : d[i] = "blank"
  BY RStripFacts
<1>5. PICK w \in Seq(Lines) : w = SubSeq(d, 1, m)
  BY PrefixFacts
<1>6. Without(lines, S) = w
  BY <1>1, <1>2, <1>4, <1>5 DEF Without
<1>7. Len(w) = m /\ \A i \in 1..m : w[i] = d[i]
  BY <1>5, PrefixFacts
<1>8. \A i \in 1..m : i \in 1..Len(d) /\ w[i] = lines[g[i]] /\ g[i] \in K
                      /\ g[i] \in 1..Len(lines)
  BY <1>3, <1>7 DEF Enumerates
<1>9. DOMAIN w = 1..m /\ DOMAIN lines = 1..Len(lines)
  BY <1>7
<1>10. ~Has(w, S)
  BY <1>1, <1>8, <1>9 DEF Has
<1>11. ASSUME OneOfEach(lines) PROVE OneOfEach(w)
  <2>1. SUFFICES ASSUME NEW i \in 1..m, NEW j \in 1..m, w[i] = w[j], w[i] \in Repos
                 PROVE  i = j
    BY <1>9 DEF OneOfEach
  <2>2. g[i] = g[j]
    BY <1>8, <1>9, <1>11, <2>1 DEF OneOfEach
  <2>3. i \in 1..Len(d) /\ j \in 1..Len(d) /\ g[i] \in Nat /\ g[j] \in Nat
    BY <1>8
  <2>4. i < j => g[i] < g[j]
    BY <1>3, <2>3 DEF Enumerates
  <2>5. j < i => g[j] < g[i]
    BY <1>3, <2>3 DEF Enumerates
  <2> QED
    BY <2>2, <2>3, <2>4, <2>5
<1>12. ASSUME NEW E, E \cap (S \cup {"marker", "blank"}) = {}
       PROVE  Only(w, E) = Only(lines, E)
  <2>1. Only(d, E) = Only(lines, E)
    <3>1. \A i \in 1..Len(lines) : lines[i] \in E => i \in K
      BY <1>1, <1>12
    <3> QED
      BY <1>2, <3>1, OnlyOfPicked
  <2>2. Only(w, E) = Only(d, E)
    <3>1. \A i \in (m + 1)..Len(d) : d[i] \notin E
      BY <1>4, <1>12
    <3> QED
      BY <1>5, <3>1, OnlyOfPrefix
  <2> QED
    BY <2>1, <2>2
<1> QED
  BY <1>6, <1>10, <1>11, <1>12

OwnLines == {"own", "mine", "off"}

LEMMA MineIsOnly == ASSUME NEW lines PROVE Mine(lines) = Only(lines, OwnLines)
  BY DEF Mine, Only, OwnLines

(* The scripts' own removals leave every line of the user's.                 *)
LEMMA MineOfWithout ==
  ASSUME NEW lines \in Seq(Lines), NEW S \in SUBSET Targets
  PROVE  Mine(Without(lines, S)) = Mine(lines)
<1>1. OwnLines \cap (S \cup {"marker", "blank"}) = {}
  BY DEF OwnLines, Targets, Repos
<1> QED
  BY <1>1, WithoutFacts, MineIsOnly

(* A line at the end                                                         *)
LEMMA LineAppended ==
  ASSUME NEW lines \in Seq(Lines), NEW l \in Lines
  PROVE  /\ Append(lines, l) \in Seq(Lines) /\ Append(lines, l) # NoFile
         /\ \A S : Has(Append(lines, l), S) <=> Has(lines, S) \/ l \in S
         /\ OneOfEach(lines) /\ (l \in Repos => ~Has(lines, {l}))
              => OneOfEach(Append(lines, l))
<1>1. PICK u \in Seq(Lines) : u = Append(lines, l)
  BY AppendFacts, Zenon
<1>2. Len(u) = Len(lines) + 1 /\ u[Len(lines) + 1] = l
      /\ \A i \in 1..Len(lines) : u[i] = lines[i]
  BY <1>1, AppendFacts
<1>3. Len(lines) \in Nat /\ DOMAIN lines = 1..Len(lines) /\ DOMAIN u = 1..Len(u)
  OBVIOUS
<1>4. \A i \in DOMAIN u : i \in DOMAIN lines \/ i = Len(u)
  BY <1>2, <1>3
<1>5. Len(u) \in DOMAIN u /\ u[Len(u)] = l
      /\ \A i \in DOMAIN lines : i \in DOMAIN u /\ u[i] = lines[i]
  BY <1>2, <1>3
<1>6. ASSUME NEW S PROVE Has(u, S) <=> Has(lines, S) \/ l \in S
  BY <1>4, <1>5 DEF Has
<1>7. ASSUME OneOfEach(lines), l \in Repos => ~Has(lines, {l})
      PROVE  OneOfEach(u)
  BY <1>4, <1>5, <1>7 DEF OneOfEach, Has
<1> QED
  BY <1>1, <1>6, <1>7, NoFileHasNoLines

LEMMA ThreeAppended ==
  ASSUME NEW lines \in Seq(Lines), NEW a \in Lines, NEW b \in Lines, NEW c \in Lines
  PROVE  lines \o <<a, b, c>> = Append(Append(Append(lines, a), b), c)
<1>1. PICK u \in Seq(Lines) : u = Append(lines, a)
  BY AppendFacts, Zenon
<1>2. PICK v \in Seq(Lines) : v = Append(u, b)
  BY AppendFacts, Zenon
<1>3. PICK w \in Seq(Lines) : w = Append(v, c)
  BY AppendFacts, Zenon
<1>4. PICK x \in Seq(Lines) : x = lines \o <<a, b, c>>
  <2>1. <<a, b, c>> \in Seq(Lines)
    OBVIOUS
  <2>2. lines \o <<a, b, c>> \in Seq(Lines)
    BY <2>1
  <2> QED
    BY <2>2, Zenon
<1>5. PICK n \in Nat : n = Len(lines)
  OBVIOUS
<1>6. /\ Len(u) = n + 1 /\ u[n + 1] = a /\ \A i \in 1..n : u[i] = lines[i]
  BY <1>1, <1>5, AppendFacts
<1>7. /\ Len(v) = n + 2 /\ v[n + 2] = b /\ \A i \in 1..(n + 1) : v[i] = u[i]
  <2>1. Len(v) = Len(u) + 1 /\ v[Len(u) + 1] = b /\ \A i \in 1..Len(u) : v[i] = u[i]
    BY <1>2, AppendFacts
  <2> QED
    BY <1>6, <2>1
<1>8. /\ Len(w) = n + 3 /\ w[n + 3] = c /\ \A i \in 1..(n + 2) : w[i] = v[i]
  <2>1. Len(w) = Len(v) + 1 /\ w[Len(v) + 1] = c /\ \A i \in 1..Len(v) : w[i] = v[i]
    BY <1>3, AppendFacts
  <2> QED
    BY <1>7, <2>1
<1>9. /\ Len(x) = n + 3 /\ \A i \in 1..n : x[i] = lines[i]
      /\ x[n + 1] = a /\ x[n + 2] = b /\ x[n + 3] = c
  BY <1>4, <1>5
<1>10. \A i \in 1..(n + 3) : x[i] = w[i]
  <2>1. \A i \in 1..(n + 3) : i \in 1..n \/ i = n + 1 \/ i = n + 2 \/ i = n + 3
    OBVIOUS
  <2>2. \A i \in 1..n : i \in 1..(n + 1) /\ i \in 1..(n + 2)
    OBVIOUS
  <2>3. n + 1 \in 1..(n + 1) /\ n + 1 \in 1..(n + 2) /\ n + 2 \in 1..(n + 2)
    OBVIOUS
  <2> QED
    BY <1>6, <1>7, <1>8, <1>9, <2>1, <2>2, <2>3
<1> QED
  BY <1>1, <1>2, <1>3, <1>4, <1>8, <1>9, <1>10, SameSequence

-----------------------------------------------------------------------------
(* Each step of install.py, of uninstall.py and of the user keeps SetupInv.  *)

LEMMA SetupStart == ASSUME InstallInit, MaxEdits \in Nat PROVE SetupInv
<1>1. InstallTypeOK
  <2>1. {at, service} \subseteq Repos /\ units \subseteq Units
        /\ {sockets, declined} \subseteq BOOLEAN
    BY DEF InstallInit, Repos
  <2>2. conf = NoFile \/ conf \in Seq(Lines)
    <3>1. <<"own">> \in Seq(Lines) /\ Old \in Seq(Lines)
      BY DEF Old, Lines
    <3> QED
      BY <3>1 DEF InstallInit
  <2>3. modconf \subseteq Files
    BY DEF InstallInit, Files
  <2> QED
    BY <2>1, <2>2, <2>3 DEF InstallInit, InstallTypeOK
<1>2. FilesRead /\ InstalledSoFar /\ RemovedSoFar /\ OutcomeIsLast
      /\ InstallComplete /\ UninstallLeavesNone
  BY DEF InstallInit, FilesRead, InstalledSoFar, RemovedSoFar, OutcomeIsLast,
         InstallComplete, UninstallLeavesNone
<1>3. OneLinePerRepo
  <2>1. ASSUME NEW i \in DOMAIN conf, conf # NoFile PROVE conf[i] \notin Repos
    BY <2>1 DEF InstallInit, Old, Repos
  <2> QED
    BY <2>1 DEF OneLinePerRepo
<1> QED
  BY <1>1, <1>2, <1>3 DEF SetupInv

LEMMA InstallPyKeepsSetup ==
  ASSUME SetupInv, MaxEdits \in Nat, InstallPy PROVE SetupInv'
<1> USE DEF SetupInv, InstallPy, At, To, Keep
<1>1. InstallTypeOK'
  <2>1. {at, service}' \subseteq Repos /\ units' \subseteq Units
    BY DEF InstallTypeOK, Units
  <2>2. {sockets, declined}' \subseteq BOOLEAN
    BY DEF InstallTypeOK
  <2>3. modconf' \subseteq Files
    BY DEF InstallTypeOK, Files
  <2>4. conf' = NoFile \/ conf' \in Seq(Lines)
    BY DEF InstallTypeOK
  <2>5. text' = NoFile \/ text' \in Seq(Lines)
    BY DEF InstallTypeOK
  <2>6. outcome' \in {"none", "installed", "removed"} /\ edits' \in 0..MaxEdits
    BY DEF InstallTypeOK
  <2> QED
    BY <2>1, <2>2, <2>3, <2>4, <2>5, <2>6 DEF InstallTypeOK
<1>2. FilesRead'
  BY DEF FilesRead
<1>3. InstalledSoFar'
  BY DEF InstalledSoFar, InstallTypeOK, Units, Has
<1>4. RemovedSoFar'
  BY DEF RemovedSoFar
<1>5. OutcomeIsLast'
  BY DEF OutcomeIsLast
<1>6. OneLinePerRepo'
  BY DEF OneLinePerRepo
<1>7. InstallComplete'
  BY DEF InstallComplete, OutcomeIsLast, InstalledSoFar, Has, Units
<1>8. UninstallLeavesNone'
  BY DEF UninstallLeavesNone, OutcomeIsLast, RemovedSoFar, Has, Targets
<1> QED
  BY <1>1, <1>2, <1>3, <1>4, <1>5, <1>6, <1>7, <1>8

LEMMA PreflightKeepsSetup ==
  ASSUME SetupInv, MaxEdits \in Nat, Preflight PROVE SetupInv'
<1> USE DEF SetupInv, Preflight, At, To, Keep
<1>1. InstallTypeOK'
  <2>1. {at, service}' \subseteq Repos /\ units' \subseteq Units
    BY DEF InstallTypeOK, Units
  <2>2. {sockets, declined}' \subseteq BOOLEAN
    BY DEF InstallTypeOK
  <2>3. modconf' \subseteq Files
    BY DEF InstallTypeOK, Files
  <2>4. conf' = NoFile \/ conf' \in Seq(Lines)
    BY DEF InstallTypeOK
  <2>5. text' = NoFile \/ text' \in Seq(Lines)
    BY DEF InstallTypeOK
  <2>6. outcome' \in {"none", "installed", "removed"} /\ edits' \in 0..MaxEdits
    BY DEF InstallTypeOK
  <2> QED
    BY <2>1, <2>2, <2>3, <2>4, <2>5, <2>6 DEF InstallTypeOK
<1>2. FilesRead'
  BY DEF FilesRead
<1>3. InstalledSoFar'
  BY DEF InstalledSoFar, InstallTypeOK, Units, Has
<1>4. RemovedSoFar'
  BY DEF RemovedSoFar
<1>5. OutcomeIsLast'
  BY DEF OutcomeIsLast
<1>6. OneLinePerRepo'
  BY DEF OneLinePerRepo
<1>7. InstallComplete'
  BY DEF InstallComplete, OutcomeIsLast, InstalledSoFar, Has, Units
<1>8. UninstallLeavesNone'
  BY DEF UninstallLeavesNone, OutcomeIsLast, RemovedSoFar, Has, Targets
<1> QED
  BY <1>1, <1>2, <1>3, <1>4, <1>5, <1>6, <1>7, <1>8

LEMMA InstallSocketsKeepsSetup ==
  ASSUME SetupInv, MaxEdits \in Nat, InstallSockets PROVE SetupInv'
<1> USE DEF SetupInv, InstallSockets, At, To, Keep
<1>1. InstallTypeOK'
  <2>1. {at, service}' \subseteq Repos /\ units' \subseteq Units
    BY DEF InstallTypeOK, Units
  <2>2. {sockets, declined}' \subseteq BOOLEAN
    BY DEF InstallTypeOK
  <2>3. modconf' \subseteq Files
    BY DEF InstallTypeOK, Files
  <2>4. conf' = NoFile \/ conf' \in Seq(Lines)
    BY DEF InstallTypeOK
  <2>5. text' = NoFile \/ text' \in Seq(Lines)
    BY DEF InstallTypeOK
  <2>6. outcome' \in {"none", "installed", "removed"} /\ edits' \in 0..MaxEdits
    BY DEF InstallTypeOK
  <2> QED
    BY <2>1, <2>2, <2>3, <2>4, <2>5, <2>6 DEF InstallTypeOK
<1>2. FilesRead'
  BY DEF FilesRead
<1>3. InstalledSoFar'
  BY DEF InstalledSoFar, InstallTypeOK, Units, Has
<1>4. RemovedSoFar'
  BY DEF RemovedSoFar
<1>5. OutcomeIsLast'
  BY DEF OutcomeIsLast
<1>6. OneLinePerRepo'
  BY DEF OneLinePerRepo
<1>7. InstallComplete'
  BY DEF InstallComplete, OutcomeIsLast, InstalledSoFar, Has, Units
<1>8. UninstallLeavesNone'
  BY DEF UninstallLeavesNone, OutcomeIsLast, RemovedSoFar, Has, Targets
<1> QED
  BY <1>1, <1>2, <1>3, <1>4, <1>5, <1>6, <1>7, <1>8

LEMMA InstallServiceKeepsSetup ==
  ASSUME SetupInv, MaxEdits \in Nat, InstallService PROVE SetupInv'
<1> USE DEF SetupInv, InstallService, At, To, Keep
<1>1. InstallTypeOK'
  <2>1. {at, service}' \subseteq Repos /\ units' \subseteq Units
    BY DEF InstallTypeOK, Units
  <2>2. {sockets, declined}' \subseteq BOOLEAN
    BY DEF InstallTypeOK
  <2>3. modconf' \subseteq Files
    BY DEF InstallTypeOK, Files
  <2>4. conf' = NoFile \/ conf' \in Seq(Lines)
    BY DEF InstallTypeOK
  <2>5. text' = NoFile \/ text' \in Seq(Lines)
    BY DEF InstallTypeOK
  <2>6. outcome' \in {"none", "installed", "removed"} /\ edits' \in 0..MaxEdits
    BY DEF InstallTypeOK
  <2> QED
    BY <2>1, <2>2, <2>3, <2>4, <2>5, <2>6 DEF InstallTypeOK
<1>2. FilesRead'
  BY DEF FilesRead
<1>3. InstalledSoFar'
  BY DEF InstalledSoFar, InstallTypeOK, Units, Has
<1>4. RemovedSoFar'
  BY DEF RemovedSoFar
<1>5. OutcomeIsLast'
  BY DEF OutcomeIsLast
<1>6. OneLinePerRepo'
  BY DEF OneLinePerRepo
<1>7. InstallComplete'
  BY DEF InstallComplete, OutcomeIsLast, InstalledSoFar, Has, Units
<1>8. UninstallLeavesNone'
  BY DEF UninstallLeavesNone, OutcomeIsLast, RemovedSoFar, Has, Targets
<1> QED
  BY <1>1, <1>2, <1>3, <1>4, <1>5, <1>6, <1>7, <1>8

LEMMA InstallModuleConfKeepsSetup ==
  ASSUME SetupInv, MaxEdits \in Nat, InstallModuleConf PROVE SetupInv'
<1> USE DEF SetupInv, InstallModuleConf, At, To, Keep
<1>1. InstallTypeOK'
  <2>1. {at, service}' \subseteq Repos /\ units' \subseteq Units
    BY DEF InstallTypeOK, Units
  <2>2. {sockets, declined}' \subseteq BOOLEAN
    BY DEF InstallTypeOK
  <2>3. modconf' \subseteq Files
    BY DEF InstallTypeOK, Files
  <2>4. conf' = NoFile \/ conf' \in Seq(Lines)
    BY DEF InstallTypeOK
  <2>5. text' = NoFile \/ text' \in Seq(Lines)
    BY DEF InstallTypeOK
  <2>6. outcome' \in {"none", "installed", "removed"} /\ edits' \in 0..MaxEdits
    BY DEF InstallTypeOK
  <2> QED
    BY <2>1, <2>2, <2>3, <2>4, <2>5, <2>6 DEF InstallTypeOK
<1>2. FilesRead'
  BY DEF FilesRead
<1>3. InstalledSoFar'
  BY DEF InstalledSoFar, InstallTypeOK, Units, Has
<1>4. RemovedSoFar'
  BY DEF RemovedSoFar
<1>5. OutcomeIsLast'
  BY DEF OutcomeIsLast
<1>6. OneLinePerRepo'
  BY DEF OneLinePerRepo
<1>7. InstallComplete'
  BY DEF InstallComplete, OutcomeIsLast, InstalledSoFar, Has, Units
<1>8. UninstallLeavesNone'
  BY DEF UninstallLeavesNone, OutcomeIsLast, RemovedSoFar, Has, Targets
<1> QED
  BY <1>1, <1>2, <1>3, <1>4, <1>5, <1>6, <1>7, <1>8

LEMMA SystemdEnableKeepsSetup ==
  ASSUME SetupInv, MaxEdits \in Nat, SystemdEnable PROVE SetupInv'
<1> USE DEF SetupInv, SystemdEnable, At, To, Keep
<1>1. InstallTypeOK'
  <2>1. {at, service}' \subseteq Repos /\ units' \subseteq Units
    BY DEF InstallTypeOK, Units
  <2>2. {sockets, declined}' \subseteq BOOLEAN
    BY DEF InstallTypeOK
  <2>3. modconf' \subseteq Files
    BY DEF InstallTypeOK, Files
  <2>4. conf' = NoFile \/ conf' \in Seq(Lines)
    BY DEF InstallTypeOK
  <2>5. text' = NoFile \/ text' \in Seq(Lines)
    BY DEF InstallTypeOK
  <2>6. outcome' \in {"none", "installed", "removed"} /\ edits' \in 0..MaxEdits
    BY DEF InstallTypeOK
  <2> QED
    BY <2>1, <2>2, <2>3, <2>4, <2>5, <2>6 DEF InstallTypeOK
<1>2. FilesRead'
  BY DEF FilesRead
<1>3. InstalledSoFar'
  BY DEF InstalledSoFar, InstallTypeOK, Units, Has
<1>4. RemovedSoFar'
  BY DEF RemovedSoFar
<1>5. OutcomeIsLast'
  BY DEF OutcomeIsLast
<1>6. OneLinePerRepo'
  BY DEF OneLinePerRepo
<1>7. InstallComplete'
  BY DEF InstallComplete, OutcomeIsLast, InstalledSoFar, Has, Units
<1>8. UninstallLeavesNone'
  BY DEF UninstallLeavesNone, OutcomeIsLast, RemovedSoFar, Has, Targets
<1> QED
  BY <1>1, <1>2, <1>3, <1>4, <1>5, <1>6, <1>7, <1>8

LEMMA UninstallPyKeepsSetup ==
  ASSUME SetupInv, MaxEdits \in Nat, UninstallPy PROVE SetupInv'
<1> USE DEF SetupInv, UninstallPy, At, To, Keep
<1>1. InstallTypeOK'
  <2>1. {at, service}' \subseteq Repos /\ units' \subseteq Units
    BY DEF InstallTypeOK, Units
  <2>2. {sockets, declined}' \subseteq BOOLEAN
    BY DEF InstallTypeOK
  <2>3. modconf' \subseteq Files
    BY DEF InstallTypeOK, Files
  <2>4. conf' = NoFile \/ conf' \in Seq(Lines)
    BY DEF InstallTypeOK
  <2>5. text' = NoFile \/ text' \in Seq(Lines)
    BY DEF InstallTypeOK
  <2>6. outcome' \in {"none", "installed", "removed"} /\ edits' \in 0..MaxEdits
    BY DEF InstallTypeOK
  <2> QED
    BY <2>1, <2>2, <2>3, <2>4, <2>5, <2>6 DEF InstallTypeOK
<1>2. FilesRead'
  BY DEF FilesRead
<1>3. InstalledSoFar'
  BY DEF InstalledSoFar, InstallTypeOK, Units, Has
<1>4. RemovedSoFar'
  BY DEF RemovedSoFar
<1>5. OutcomeIsLast'
  BY DEF OutcomeIsLast
<1>6. OneLinePerRepo'
  BY DEF OneLinePerRepo
<1>7. InstallComplete'
  BY DEF InstallComplete, OutcomeIsLast, InstalledSoFar, Has, Units
<1>8. UninstallLeavesNone'
  BY DEF UninstallLeavesNone, OutcomeIsLast, RemovedSoFar, Has, Targets
<1> QED
  BY <1>1, <1>2, <1>3, <1>4, <1>5, <1>6, <1>7, <1>8

LEMMA DisableKeepsSetup ==
  ASSUME SetupInv, MaxEdits \in Nat, Disable PROVE SetupInv'
<1> USE DEF SetupInv, Disable, At, To, Keep
<1>1. InstallTypeOK'
  <2>1. {at, service}' \subseteq Repos /\ units' \subseteq Units
    BY DEF InstallTypeOK, Units
  <2>2. {sockets, declined}' \subseteq BOOLEAN
    BY DEF InstallTypeOK
  <2>3. modconf' \subseteq Files
    BY DEF InstallTypeOK, Files
  <2>4. conf' = NoFile \/ conf' \in Seq(Lines)
    BY DEF InstallTypeOK
  <2>5. text' = NoFile \/ text' \in Seq(Lines)
    BY DEF InstallTypeOK
  <2>6. outcome' \in {"none", "installed", "removed"} /\ edits' \in 0..MaxEdits
    BY DEF InstallTypeOK
  <2> QED
    BY <2>1, <2>2, <2>3, <2>4, <2>5, <2>6 DEF InstallTypeOK
<1>2. FilesRead'
  BY DEF FilesRead
<1>3. InstalledSoFar'
  BY DEF InstalledSoFar, InstallTypeOK, Units, Has
<1>4. RemovedSoFar'
  BY DEF RemovedSoFar
<1>5. OutcomeIsLast'
  BY DEF OutcomeIsLast
<1>6. OneLinePerRepo'
  BY DEF OneLinePerRepo
<1>7. InstallComplete'
  BY DEF InstallComplete, OutcomeIsLast, InstalledSoFar, Has, Units
<1>8. UninstallLeavesNone'
  BY DEF UninstallLeavesNone, OutcomeIsLast, RemovedSoFar, Has, Targets
<1> QED
  BY <1>1, <1>2, <1>3, <1>4, <1>5, <1>6, <1>7, <1>8

LEMMA RemoveUnitsKeepsSetup ==
  ASSUME SetupInv, MaxEdits \in Nat, RemoveUnits PROVE SetupInv'
<1> USE DEF SetupInv, RemoveUnits, At, To, Keep
<1>1. InstallTypeOK'
  <2>1. {at, service}' \subseteq Repos /\ units' \subseteq Units
    BY DEF InstallTypeOK, Units
  <2>2. {sockets, declined}' \subseteq BOOLEAN
    BY DEF InstallTypeOK
  <2>3. modconf' \subseteq Files
    BY DEF InstallTypeOK, Files
  <2>4. conf' = NoFile \/ conf' \in Seq(Lines)
    BY DEF InstallTypeOK
  <2>5. text' = NoFile \/ text' \in Seq(Lines)
    BY DEF InstallTypeOK
  <2>6. outcome' \in {"none", "installed", "removed"} /\ edits' \in 0..MaxEdits
    BY DEF InstallTypeOK
  <2> QED
    BY <2>1, <2>2, <2>3, <2>4, <2>5, <2>6 DEF InstallTypeOK
<1>2. FilesRead'
  BY DEF FilesRead
<1>3. InstalledSoFar'
  BY DEF InstalledSoFar, InstallTypeOK, Units, Has
<1>4. RemovedSoFar'
  BY DEF RemovedSoFar
<1>5. OutcomeIsLast'
  BY DEF OutcomeIsLast
<1>6. OneLinePerRepo'
  BY DEF OneLinePerRepo
<1>7. InstallComplete'
  BY DEF InstallComplete, OutcomeIsLast, InstalledSoFar, Has, Units
<1>8. UninstallLeavesNone'
  BY DEF UninstallLeavesNone, OutcomeIsLast, RemovedSoFar, Has, Targets
<1> QED
  BY <1>1, <1>2, <1>3, <1>4, <1>5, <1>6, <1>7, <1>8

LEMMA RemoveModuleConfKeepsSetup ==
  ASSUME SetupInv, MaxEdits \in Nat, RemoveModuleConf PROVE SetupInv'
<1> USE DEF SetupInv, RemoveModuleConf, At, To, Keep
<1>1. InstallTypeOK'
  <2>1. {at, service}' \subseteq Repos /\ units' \subseteq Units
    BY DEF InstallTypeOK, Units
  <2>2. {sockets, declined}' \subseteq BOOLEAN
    BY DEF InstallTypeOK
  <2>3. modconf' \subseteq Files
    BY DEF InstallTypeOK, Files
  <2>4. conf' = NoFile \/ conf' \in Seq(Lines)
    BY DEF InstallTypeOK
  <2>5. text' = NoFile \/ text' \in Seq(Lines)
    BY DEF InstallTypeOK
  <2>6. outcome' \in {"none", "installed", "removed"} /\ edits' \in 0..MaxEdits
    BY DEF InstallTypeOK
  <2> QED
    BY <2>1, <2>2, <2>3, <2>4, <2>5, <2>6 DEF InstallTypeOK
<1>2. FilesRead'
  BY DEF FilesRead
<1>3. InstalledSoFar'
  BY DEF InstalledSoFar, InstallTypeOK, Units, Has
<1>4. RemovedSoFar'
  BY DEF RemovedSoFar
<1>5. OutcomeIsLast'
  BY DEF OutcomeIsLast
<1>6. OneLinePerRepo'
  BY DEF OneLinePerRepo
<1>7. InstallComplete'
  BY DEF InstallComplete, OutcomeIsLast, InstalledSoFar, Has, Units
<1>8. UninstallLeavesNone'
  BY DEF UninstallLeavesNone, OutcomeIsLast, RemovedSoFar, Has, Targets
<1> QED
  BY <1>1, <1>2, <1>3, <1>4, <1>5, <1>6, <1>7, <1>8

LEMMA ReadConfKeepsSetup ==
  ASSUME SetupInv, MaxEdits \in Nat, ReadConf PROVE SetupInv'
<1> USE DEF SetupInv, ReadConf, At, To, Keep
<1>1. InstallTypeOK'
  <2>1. {at, service}' \subseteq Repos /\ units' \subseteq Units
    BY DEF InstallTypeOK, Units
  <2>2. {sockets, declined}' \subseteq BOOLEAN
    BY DEF InstallTypeOK
  <2>3. modconf' \subseteq Files
    BY DEF InstallTypeOK, Files
  <2>4. conf' = NoFile \/ conf' \in Seq(Lines)
    BY DEF InstallTypeOK
  <2>5. text' = NoFile \/ text' \in Seq(Lines)
    BY DEF InstallTypeOK
  <2>6. outcome' \in {"none", "installed", "removed"} /\ edits' \in 0..MaxEdits
    BY DEF InstallTypeOK
  <2> QED
    BY <2>1, <2>2, <2>3, <2>4, <2>5, <2>6 DEF InstallTypeOK
<1>2. FilesRead'
  BY DEF FilesRead
<1>3. InstalledSoFar'
  BY DEF InstalledSoFar, InstallTypeOK, Units, Has
<1>4. RemovedSoFar'
  BY DEF RemovedSoFar
<1>5. OutcomeIsLast'
  BY DEF OutcomeIsLast
<1>6. OneLinePerRepo'
  BY DEF OneLinePerRepo
<1>7. InstallComplete'
  BY DEF InstallComplete, OutcomeIsLast, InstalledSoFar, Has, Units
<1>8. UninstallLeavesNone'
  BY DEF UninstallLeavesNone, OutcomeIsLast, RemovedSoFar, Has, Targets
<1> QED
  BY <1>1, <1>2, <1>3, <1>4, <1>5, <1>6, <1>7, <1>8

LEMMA KillSetupKeepsSetup ==
  ASSUME SetupInv, MaxEdits \in Nat, KillSetup PROVE SetupInv'
<1> USE DEF SetupInv, KillSetup, At, To, Keep
<1>1. InstallTypeOK'
  <2>1. {at, service}' \subseteq Repos /\ units' \subseteq Units
    BY DEF InstallTypeOK, Units
  <2>2. {sockets, declined}' \subseteq BOOLEAN
    BY DEF InstallTypeOK
  <2>3. modconf' \subseteq Files
    BY DEF InstallTypeOK, Files
  <2>4. conf' = NoFile \/ conf' \in Seq(Lines)
    BY DEF InstallTypeOK
  <2>5. text' = NoFile \/ text' \in Seq(Lines)
    BY DEF InstallTypeOK
  <2>6. outcome' \in {"none", "installed", "removed"} /\ edits' \in 0..MaxEdits
    BY DEF InstallTypeOK
  <2> QED
    BY <2>1, <2>2, <2>3, <2>4, <2>5, <2>6 DEF InstallTypeOK
<1>2. FilesRead'
  BY DEF FilesRead
<1>3. InstalledSoFar'
  BY DEF InstalledSoFar, InstallTypeOK, Units, Has
<1>4. RemovedSoFar'
  BY DEF RemovedSoFar
<1>5. OutcomeIsLast'
  BY DEF OutcomeIsLast
<1>6. OneLinePerRepo'
  BY DEF OneLinePerRepo
<1>7. InstallComplete'
  BY DEF InstallComplete, OutcomeIsLast, InstalledSoFar, Has, Units
<1>8. UninstallLeavesNone'
  BY DEF UninstallLeavesNone, OutcomeIsLast, RemovedSoFar, Has, Targets
<1> QED
  BY <1>1, <1>2, <1>3, <1>4, <1>5, <1>6, <1>7, <1>8

LEMMA UserMovesRepoKeepsSetup ==
  ASSUME SetupInv, MaxEdits \in Nat, UserMovesRepo PROVE SetupInv'
<1> USE DEF SetupInv, UserMovesRepo, UserDoes, At, To, Keep
<1>1. InstallTypeOK'
  <2>1. {at, service}' \subseteq Repos /\ units' \subseteq Units
    BY DEF InstallTypeOK, Units
  <2>2. {sockets, declined}' \subseteq BOOLEAN
    BY DEF InstallTypeOK
  <2>3. modconf' \subseteq Files
    BY DEF InstallTypeOK, Files
  <2>4. conf' = NoFile \/ conf' \in Seq(Lines)
    BY DEF InstallTypeOK
  <2>5. text' = NoFile \/ text' \in Seq(Lines)
    BY DEF InstallTypeOK
  <2>6. outcome' \in {"none", "installed", "removed"} /\ edits' \in 0..MaxEdits
    BY DEF InstallTypeOK
  <2> QED
    BY <2>1, <2>2, <2>3, <2>4, <2>5, <2>6 DEF InstallTypeOK
<1>2. FilesRead'
  BY DEF FilesRead
<1>3. InstalledSoFar'
  BY DEF InstalledSoFar, InstallTypeOK, Units, Has
<1>4. RemovedSoFar'
  BY DEF RemovedSoFar
<1>5. OutcomeIsLast'
  BY DEF OutcomeIsLast
<1>6. OneLinePerRepo'
  BY DEF OneLinePerRepo
<1>7. InstallComplete'
  BY DEF InstallComplete, OutcomeIsLast, InstalledSoFar, Has, Units
<1>8. UninstallLeavesNone'
  BY DEF UninstallLeavesNone, OutcomeIsLast, RemovedSoFar, Has, Targets
<1> QED
  BY <1>1, <1>2, <1>3, <1>4, <1>5, <1>6, <1>7, <1>8

LEMMA SeedDaemonConfigKeepsSetup ==
  ASSUME SetupInv, MaxEdits \in Nat, NEW pp, SeedDaemonConfig(pp) PROVE SetupInv'
<1> USE DEF SetupInv, SeedDaemonConfig, At, To, Keep
<1>1. InstallTypeOK'
  <2>1. {at, service}' \subseteq Repos /\ units' \subseteq Units
    BY DEF InstallTypeOK, Units
  <2>2. {sockets, declined}' \subseteq BOOLEAN
    BY DEF InstallTypeOK
  <2>3. modconf' \subseteq Files
    BY DEF InstallTypeOK, Files
  <2>4. conf' = NoFile \/ conf' \in Seq(Lines)
    BY DEF InstallTypeOK
  <2>5. text' = NoFile \/ text' \in Seq(Lines)
    BY DEF InstallTypeOK
  <2>6. outcome' \in {"none", "installed", "removed"} /\ edits' \in 0..MaxEdits
    BY DEF InstallTypeOK
  <2> QED
    BY <2>1, <2>2, <2>3, <2>4, <2>5, <2>6 DEF InstallTypeOK
<1>2. FilesRead'
  BY DEF FilesRead
<1>3. InstalledSoFar'
  BY DEF InstalledSoFar, InstallTypeOK, Units, Has
<1>4. RemovedSoFar'
  BY DEF RemovedSoFar
<1>5. OutcomeIsLast'
  BY DEF OutcomeIsLast
<1>6. OneLinePerRepo'
  BY DEF OneLinePerRepo
<1>7. InstallComplete'
  BY DEF InstallComplete, OutcomeIsLast, InstalledSoFar, Has, Units
<1>8. UninstallLeavesNone'
  BY DEF UninstallLeavesNone, OutcomeIsLast, RemovedSoFar, Has, Targets
<1> QED
  BY <1>1, <1>2, <1>3, <1>4, <1>5, <1>6, <1>7, <1>8

LEMMA SeedConfKeepsSetup ==
  ASSUME SetupInv, MaxEdits \in Nat, SeedConf PROVE SetupInv'
<1>0. <<"own">> \in Seq(Lines) /\ <<"own">> # NoFile
  BY DEF Lines, NoFile
<1> USE DEF SetupInv, SeedConf, At, To, Keep
<1>1. InstallTypeOK'
  <2>1. {at, service}' \subseteq Repos /\ units' \subseteq Units
    BY DEF InstallTypeOK, Units
  <2>2. {sockets, declined}' \subseteq BOOLEAN
    BY DEF InstallTypeOK
  <2>3. modconf' \subseteq Files
    BY DEF InstallTypeOK, Files
  <2>4. conf' = NoFile \/ conf' \in Seq(Lines)
    BY <1>0 DEF InstallTypeOK
  <2>5. text' = NoFile \/ text' \in Seq(Lines)
    BY DEF InstallTypeOK
  <2>6. outcome' \in {"none", "installed", "removed"} /\ edits' \in 0..MaxEdits
    BY DEF InstallTypeOK
  <2> QED
    BY <2>1, <2>2, <2>3, <2>4, <2>5, <2>6 DEF InstallTypeOK
<1>2. FilesRead'
  BY <1>0 DEF FilesRead
<1>3. InstalledSoFar'
  BY DEF InstalledSoFar, InstallTypeOK, Units, Has
<1>4. RemovedSoFar'
  BY DEF RemovedSoFar
<1>5. OutcomeIsLast'
  BY DEF OutcomeIsLast
<1>6. OneLinePerRepo'
  BY DEF OneLinePerRepo
<1>7. InstallComplete'
  BY DEF InstallComplete, OutcomeIsLast, InstalledSoFar, Has, Units
<1>8. UninstallLeavesNone'
  BY DEF UninstallLeavesNone, OutcomeIsLast, RemovedSoFar, Has, Targets
<1> QED
  BY <1>1, <1>2, <1>3, <1>4, <1>5, <1>6, <1>7, <1>8

LEMMA DropLegacyLineKeepsSetup ==
  ASSUME SetupInv, MaxEdits \in Nat, DropLegacyLine PROVE SetupInv'
<1> DEFINE new == IF Has(conf, {"legacy"}) THEN Without(conf, {"legacy"}) ELSE conf
<1>01. conf \in Seq(Lines) /\ OneOfEach(conf)
  BY DEF SetupInv, InstallTypeOK, FilesRead, OneLinePerRepo, OneOfEach, DropLegacyLine, At
<1>02. new \in Seq(Lines) /\ OneOfEach(new) /\ ~Has(new, {"legacy"})
  BY <1>01, WithoutFacts
<1>03. new # NoFile /\ conf' = new
  BY <1>02, NoFileHasNoLines DEF DropLegacyLine
<1> HIDE DEF new
<1> USE DEF SetupInv, DropLegacyLine, At, To, Keep
<1>1. InstallTypeOK'
  <2>1. {at, service}' \subseteq Repos /\ units' \subseteq Units
    BY DEF InstallTypeOK, Units
  <2>2. {sockets, declined}' \subseteq BOOLEAN
    BY DEF InstallTypeOK
  <2>3. modconf' \subseteq Files
    BY DEF InstallTypeOK, Files
  <2>4. conf' = NoFile \/ conf' \in Seq(Lines)
    BY <1>02, <1>03
  <2>5. text' = NoFile \/ text' \in Seq(Lines)
    BY DEF InstallTypeOK
  <2>6. outcome' \in {"none", "installed", "removed"} /\ edits' \in 0..MaxEdits
    BY DEF InstallTypeOK
  <2> QED
    BY <2>1, <2>2, <2>3, <2>4, <2>5, <2>6 DEF InstallTypeOK
<1>2. FilesRead'
  BY <1>03 DEF FilesRead
<1>3. InstalledSoFar'
  BY <1>02, <1>03 DEF InstalledSoFar
<1>4. RemovedSoFar'
  BY DEF RemovedSoFar
<1>5. OutcomeIsLast'
  BY DEF OutcomeIsLast
<1>6. OneLinePerRepo'
  BY <1>02, <1>03 DEF OneLinePerRepo, OneOfEach
<1>7. InstallComplete'
  BY DEF InstallComplete, OutcomeIsLast, InstalledSoFar, Has, Units
<1>8. UninstallLeavesNone'
  BY DEF UninstallLeavesNone, OutcomeIsLast, RemovedSoFar, Has, Targets
<1> QED
  BY <1>1, <1>2, <1>3, <1>4, <1>5, <1>6, <1>7, <1>8

LEMMA AppendLineKeepsSetup ==
  ASSUME SetupInv, MaxEdits \in Nat, AppendLine PROVE SetupInv'
<1>01. conf \in Seq(Lines) /\ OneOfEach(conf) /\ conf # NoFile /\ at \in Repos
  BY DEF SetupInv, InstallTypeOK, FilesRead, OneLinePerRepo, OneOfEach, AppendLine, At
<1>02. ASSUME ~Present, conf' = conf \o <<"blank", "marker", at>>
       PROVE  /\ conf' \in Seq(Lines) /\ conf' # NoFile /\ OneOfEach(conf')
              /\ Has(conf', {"legacy"}) => Has(conf, {"legacy"})
              /\ Has(conf', {at} \cup (IF at = "here" THEN {"off"} ELSE {}))
  <2>1. PICK a \in Seq(Lines) : a = Append(conf, "blank")
    BY <1>01, AppendFacts DEF Lines
  <2>2. OneOfEach(a) /\ \A S : Has(a, S) <=> Has(conf, S) \/ "blank" \in S
    <3>1. "blank" \in Lines /\ "blank" \notin Repos
      BY DEF Lines, Repos
    <3> QED
      BY <1>01, <2>1, <3>1, LineAppended
  <2>3. PICK b \in Seq(Lines) : b = Append(a, "marker")
    BY AppendFacts DEF Lines
  <2>4. OneOfEach(b) /\ \A S : Has(b, S) <=> Has(a, S) \/ "marker" \in S
    <3>1. "marker" \in Lines /\ "marker" \notin Repos
      BY DEF Lines, Repos
    <3> QED
      BY <2>2, <2>3, <3>1, LineAppended
  <2>5. ~Has(b, {at})
    <3>1. ~Has(conf, {at}) /\ at # "blank" /\ at # "marker"
      BY <1>01, <1>02 DEF Present, Repos
    <3> QED
      BY <2>2, <2>4, <3>1
  <2>6. at \in Lines
    BY <1>01 DEF Lines
  <2>7. conf' = Append(b, at)
    <3>1. "blank" \in Lines /\ "marker" \in Lines
      BY DEF Lines
    <3> QED
      BY <1>01, <1>02, <2>1, <2>3, <2>6, <3>1, ThreeAppended
  <2>8. conf' \in Seq(Lines) /\ conf' # NoFile /\ OneOfEach(conf')
        /\ \A S : Has(conf', S) <=> Has(b, S) \/ at \in S
    BY <2>4, <2>5, <2>6, <2>7, LineAppended
  <2>9. Has(conf', {at}) /\ (Has(conf', {"legacy"}) => Has(conf, {"legacy"}))
    BY <1>01, <2>2, <2>4, <2>8 DEF Repos
  <2>10. Has(conf', {at} \cup (IF at = "here" THEN {"off"} ELSE {}))
    BY <2>8
  <2> QED
    BY <2>8, <2>9, <2>10
<1>04. /\ conf' \in Seq(Lines) /\ conf' # NoFile /\ OneOfEach(conf')
       /\ Has(conf', {"legacy"}) => Has(conf, {"legacy"})
       /\ conf' = conf
          \/ Has(conf', {at} \cup (IF at = "here" THEN {"off"} ELSE {}))
  BY <1>01, <1>02 DEF AppendLine, Keep
<1>05. Present => Has(conf, {at} \cup (IF at = "here" THEN {"off"} ELSE {}))
  BY DEF Present, Has
<1> USE DEF SetupInv, AppendLine, At, To, Keep
<1>1. InstallTypeOK'
  <2>1. {at, service}' \subseteq Repos /\ units' \subseteq Units
    BY DEF InstallTypeOK, Units
  <2>2. {sockets, declined}' \subseteq BOOLEAN
    BY DEF InstallTypeOK
  <2>3. modconf' \subseteq Files
    BY DEF InstallTypeOK, Files
  <2>4. conf' = NoFile \/ conf' \in Seq(Lines)
    BY <1>04
  <2>5. text' = NoFile \/ text' \in Seq(Lines)
    BY DEF InstallTypeOK
  <2>6. outcome' \in {"none", "installed", "removed"} /\ edits' \in 0..MaxEdits
    BY DEF InstallTypeOK
  <2> QED
    BY <2>1, <2>2, <2>3, <2>4, <2>5, <2>6 DEF InstallTypeOK
<1>2. FilesRead'
  BY <1>04 DEF FilesRead
<1>3. InstalledSoFar'
  <2>1. ~Has(conf', {"legacy"})
    BY <1>04 DEF InstalledSoFar
  <2>2. ~declined' => Has(conf', {at} \cup (IF at = "here" THEN {"off"} ELSE {}))
    BY <1>02, <1>04, <1>05
  <2> QED
    BY <2>1, <2>2 DEF InstalledSoFar
<1>4. RemovedSoFar'
  BY DEF RemovedSoFar
<1>5. OutcomeIsLast'
  BY DEF OutcomeIsLast
<1>6. OneLinePerRepo'
  BY <1>04 DEF OneLinePerRepo, OneOfEach
<1>7. InstallComplete'
  BY DEF InstallComplete, OutcomeIsLast, InstalledSoFar, Has, Units
<1>8. UninstallLeavesNone'
  BY DEF UninstallLeavesNone, OutcomeIsLast, RemovedSoFar, Has, Targets
<1> QED
  BY <1>1, <1>2, <1>3, <1>4, <1>5, <1>6, <1>7, <1>8

LEMMA StripConfKeepsSetup ==
  ASSUME SetupInv, MaxEdits \in Nat, StripConf PROVE SetupInv'
<1>01. text \in Seq(Lines) /\ setup = "strip"
  BY DEF SetupInv, InstallTypeOK, FilesRead, StripConf, At
<1>02. ASSUME conf' = Without(text, Targets)
       PROVE  conf' \in Seq(Lines) /\ OneOfEach(conf')
              /\ ~Has(conf', Repos \cup {"legacy"})
  <2>1. conf' \in Seq(Lines) /\ ~Has(conf', Targets)
    BY <1>01, <1>02, WithoutFacts
  <2>2. OneOfEach(conf') /\ ~Has(conf', Repos \cup {"legacy"})
    BY <2>1 DEF OneOfEach, Has, Targets
  <2> QED
    BY <2>1, <2>2
<1>03. \/ conf' = conf /\ outcome' = outcome
       \/ conf' \in Seq(Lines) /\ OneOfEach(conf') /\ ~Has(conf', Repos \cup {"legacy"})
  BY <1>02 DEF StripConf, Keep
<1> USE DEF SetupInv, StripConf, At, To, Keep
<1>1. InstallTypeOK'
  <2>1. {at, service}' \subseteq Repos /\ units' \subseteq Units
    BY DEF InstallTypeOK, Units
  <2>2. {sockets, declined}' \subseteq BOOLEAN
    BY DEF InstallTypeOK
  <2>3. modconf' \subseteq Files
    BY DEF InstallTypeOK, Files
  <2>4. conf' = NoFile \/ conf' \in Seq(Lines)
    BY <1>03 DEF InstallTypeOK
  <2>5. text' = NoFile \/ text' \in Seq(Lines)
    BY DEF InstallTypeOK
  <2>6. outcome' \in {"none", "installed", "removed"} /\ edits' \in 0..MaxEdits
    BY DEF InstallTypeOK
  <2> QED
    BY <2>1, <2>2, <2>3, <2>4, <2>5, <2>6 DEF InstallTypeOK
<1>2. FilesRead'
  BY DEF FilesRead
<1>3. InstalledSoFar'
  BY DEF InstalledSoFar, InstallTypeOK, Units, Has
<1>4. RemovedSoFar'
  BY DEF RemovedSoFar
<1>5. OutcomeIsLast'
  BY DEF OutcomeIsLast
<1>6. OneLinePerRepo'
  BY <1>03 DEF OneLinePerRepo, OneOfEach
<1>7. InstallComplete'
  BY DEF InstallComplete, OutcomeIsLast, InstalledSoFar, Has, Units
<1>8. UninstallLeavesNone'
  BY <1>01, <1>03 DEF UninstallLeavesNone, OutcomeIsLast, RemovedSoFar
<1> QED
  BY <1>1, <1>2, <1>3, <1>4, <1>5, <1>6, <1>7, <1>8

LEMMA UserAppendsKeepsSetup ==
  ASSUME SetupInv, MaxEdits \in Nat, UserAppends PROVE SetupInv'
<1>01. conf \in Seq(Lines) /\ OneOfEach(conf) /\ "mine" \in Lines
       /\ ("mine" \in Repos => ~Has(conf, {"mine"}))
  BY DEF SetupInv, InstallTypeOK, OneLinePerRepo, OneOfEach, UserAppends, Lines, Repos,
         Present, At
<1>02. conf' \in Seq(Lines) /\ conf' # NoFile /\ OneOfEach(conf')
       /\ \A S : Has(conf', S) <=> Has(conf, S) \/ "mine" \in S
  <2>1. conf' = Append(conf, "mine")
    BY DEF UserAppends
  <2> QED
    BY <1>01, <2>1, LineAppended
<1> USE DEF SetupInv, UserAppends, UserDoes, At, To, Keep
<1>1. InstallTypeOK'
  <2>1. {at, service}' \subseteq Repos /\ units' \subseteq Units
    BY DEF InstallTypeOK, Units
  <2>2. {sockets, declined}' \subseteq BOOLEAN
    BY DEF InstallTypeOK
  <2>3. modconf' \subseteq Files
    BY DEF InstallTypeOK, Files
  <2>4. conf' = NoFile \/ conf' \in Seq(Lines)
    BY <1>02
  <2>5. text' = NoFile \/ text' \in Seq(Lines)
    BY DEF InstallTypeOK
  <2>6. outcome' \in {"none", "installed", "removed"} /\ edits' \in 0..MaxEdits
    BY DEF InstallTypeOK
  <2> QED
    BY <2>1, <2>2, <2>3, <2>4, <2>5, <2>6 DEF InstallTypeOK
<1>2. FilesRead'
  BY <1>02 DEF FilesRead
<1>3. InstalledSoFar'
  BY <1>02 DEF InstalledSoFar
<1>4. RemovedSoFar'
  BY DEF RemovedSoFar
<1>5. OutcomeIsLast'
  BY DEF OutcomeIsLast
<1>6. OneLinePerRepo'
  BY <1>02 DEF OneLinePerRepo, OneOfEach
<1>7. InstallComplete'
  BY DEF InstallComplete, OutcomeIsLast, InstalledSoFar, Has, Units
<1>8. UninstallLeavesNone'
  BY DEF UninstallLeavesNone, OutcomeIsLast, RemovedSoFar, Has, Targets
<1> QED
  BY <1>1, <1>2, <1>3, <1>4, <1>5, <1>6, <1>7, <1>8

LEMMA UserAddsLineKeepsSetup ==
  ASSUME SetupInv, MaxEdits \in Nat, UserAddsLine PROVE SetupInv'
<1>01. conf \in Seq(Lines) /\ OneOfEach(conf) /\ at \in Lines
       /\ (at \in Repos => ~Has(conf, {at}))
  BY DEF SetupInv, InstallTypeOK, OneLinePerRepo, OneOfEach, UserAddsLine, Lines, Repos,
         Present, At
<1>02. conf' \in Seq(Lines) /\ conf' # NoFile /\ OneOfEach(conf')
       /\ \A S : Has(conf', S) <=> Has(conf, S) \/ at \in S
  <2>1. conf' = Append(conf, at)
    BY DEF UserAddsLine
  <2> QED
    BY <1>01, <2>1, LineAppended
<1> USE DEF SetupInv, UserAddsLine, UserDoes, At, To, Keep
<1>1. InstallTypeOK'
  <2>1. {at, service}' \subseteq Repos /\ units' \subseteq Units
    BY DEF InstallTypeOK, Units
  <2>2. {sockets, declined}' \subseteq BOOLEAN
    BY DEF InstallTypeOK
  <2>3. modconf' \subseteq Files
    BY DEF InstallTypeOK, Files
  <2>4. conf' = NoFile \/ conf' \in Seq(Lines)
    BY <1>02
  <2>5. text' = NoFile \/ text' \in Seq(Lines)
    BY DEF InstallTypeOK
  <2>6. outcome' \in {"none", "installed", "removed"} /\ edits' \in 0..MaxEdits
    BY DEF InstallTypeOK
  <2> QED
    BY <2>1, <2>2, <2>3, <2>4, <2>5, <2>6 DEF InstallTypeOK
<1>2. FilesRead'
  BY DEF FilesRead
<1>3. InstalledSoFar'
  BY DEF InstalledSoFar, InstallTypeOK, Units, Has
<1>4. RemovedSoFar'
  BY DEF RemovedSoFar
<1>5. OutcomeIsLast'
  BY DEF OutcomeIsLast
<1>6. OneLinePerRepo'
  BY <1>02 DEF OneLinePerRepo, OneOfEach
<1>7. InstallComplete'
  BY DEF InstallComplete, OutcomeIsLast, InstalledSoFar, Has, Units
<1>8. UninstallLeavesNone'
  BY DEF UninstallLeavesNone, OutcomeIsLast, RemovedSoFar, Has, Targets
<1> QED
  BY <1>1, <1>2, <1>3, <1>4, <1>5, <1>6, <1>7, <1>8

LEMMA UserCommentsOutKeepsSetup ==
  ASSUME SetupInv, MaxEdits \in Nat, UserCommentsOut PROVE SetupInv'
<1>01. conf \in Seq(Lines) /\ OneOfEach(conf)
  BY DEF SetupInv, InstallTypeOK, OneLinePerRepo, OneOfEach, UserCommentsOut
<1>02. PICK i \in DOMAIN conf : conf[i] = "here" /\ conf' = [conf EXCEPT ![i] = "off"]
  BY DEF UserCommentsOut
<1>03. conf' \in Seq(Lines) /\ DOMAIN conf' = DOMAIN conf /\ conf'[i] = "off"
       /\ \A j \in DOMAIN conf : j # i => conf'[j] = conf[j]
  <2>1. "off" \in Lines
    BY DEF Lines
  <2> QED
    BY <1>01, <1>02, <2>1
<1>04. OneOfEach(conf')
  BY <1>01, <1>02, <1>03 DEF OneOfEach, Repos
<1> USE DEF SetupInv, UserCommentsOut, UserDoes, At, To, Keep
<1>1. InstallTypeOK'
  <2>1. {at, service}' \subseteq Repos /\ units' \subseteq Units
    BY DEF InstallTypeOK, Units
  <2>2. {sockets, declined}' \subseteq BOOLEAN
    BY DEF InstallTypeOK
  <2>3. modconf' \subseteq Files
    BY DEF InstallTypeOK, Files
  <2>4. conf' = NoFile \/ conf' \in Seq(Lines)
    BY <1>03
  <2>5. text' = NoFile \/ text' \in Seq(Lines)
    BY DEF InstallTypeOK
  <2>6. outcome' \in {"none", "installed", "removed"} /\ edits' \in 0..MaxEdits
    BY DEF InstallTypeOK
  <2> QED
    BY <2>1, <2>2, <2>3, <2>4, <2>5, <2>6 DEF InstallTypeOK
<1>2. FilesRead'
  BY DEF FilesRead
<1>3. InstalledSoFar'
  BY DEF InstalledSoFar, InstallTypeOK, Units, Has
<1>4. RemovedSoFar'
  BY DEF RemovedSoFar
<1>5. OutcomeIsLast'
  BY DEF OutcomeIsLast
<1>6. OneLinePerRepo'
  BY <1>04 DEF OneLinePerRepo, OneOfEach
<1>7. InstallComplete'
  BY DEF InstallComplete, OutcomeIsLast, InstalledSoFar, Has, Units
<1>8. UninstallLeavesNone'
  BY DEF UninstallLeavesNone, OutcomeIsLast, RemovedSoFar, Has, Targets
<1> QED
  BY <1>1, <1>2, <1>3, <1>4, <1>5, <1>6, <1>7, <1>8

LEMMA SetupUnchanged ==
  ASSUME SetupInv, UNCHANGED installVars PROVE SetupInv'
  BY DEF SetupInv, installVars, InstallTypeOK, FilesRead, InstalledSoFar,
         RemovedSoFar, OutcomeIsLast, OneLinePerRepo, InstallComplete,
         UninstallLeavesNone, Has

LEMMA SetupStepKeepsSetup ==
  ASSUME SetupInv, MaxEdits \in Nat,
         SetupStep \/ SeedDaemonConfig(Installed) \/ UserStep
  PROVE  SetupInv'
<1>1. CASE SetupStep
  BY <1>1, PreflightKeepsSetup, InstallSocketsKeepsSetup,
     InstallServiceKeepsSetup, InstallModuleConfKeepsSetup, SeedConfKeepsSetup,
     DropLegacyLineKeepsSetup, AppendLineKeepsSetup, SystemdEnableKeepsSetup,
     DisableKeepsSetup, RemoveUnitsKeepsSetup, RemoveModuleConfKeepsSetup,
     ReadConfKeepsSetup, StripConfKeepsSetup, KillSetupKeepsSetup DEF SetupStep
<1>2. CASE SeedDaemonConfig(Installed)
  BY <1>2, SeedDaemonConfigKeepsSetup
<1>3. CASE UserStep
  BY <1>3, UserAppendsKeepsSetup, UserAddsLineKeepsSetup,
     UserCommentsOutKeepsSetup, UserMovesRepoKeepsSetup DEF UserStep
<1> QED
  BY <1>1, <1>2, <1>3

(* The configuration's variables keep their types, and each script has done  *)
(* at each of its steps what the steps before it were for, whatever earlier  *)
(* runs, kills and edits of the user have left.                              *)
THEOREM SetupInvariant == Spec => []SetupInv
<1>1. Init => SetupInv
  BY SetupStart, DeploymentAssumption DEF Init
<1>2. ASSUME SetupInv, [Next]_vars PROVE SetupInv'
  <2>1. CASE StartScript
    BY <1>2, <2>1, InstallPyKeepsSetup, UninstallPyKeepsSetup, SetupUnchanged,
       DeploymentAssumption DEF StartScript
  <2>2. CASE Provide
    BY <1>2, <2>2, SetupUnchanged DEF Provide
  <2>3. CASE Setup
    BY <1>2, <2>3, SetupStepKeepsSetup, DeploymentAssumption DEF Setup
  <2>4. CASE UNCHANGED vars
    BY <1>2, <2>4, SetupUnchanged DEF vars
  <2> QED
    BY <1>2, <2>1, <2>2, <2>3, <2>4 DEF Next
<1> QED
  BY <1>1, <1>2, PTL DEF Spec

(* However often install.py runs, is killed, or is run from another place,   *)
(* and whatever the user adds as it tells them to, a repository has one      *)
(* AddModule line at most (install.py:4, 132-181).                           *)
THEOREM AtMostOneLine == Spec => []OneLinePerRepo
<1>1. SetupInv => OneLinePerRepo
  BY DEF SetupInv
<1> QED
  BY <1>1, SetupInvariant, PTL

(* An installation that has gone through is whole: units and service of this *)
(* repository, sockets, a daemon configuration, the module configuration and *)
(* its line, and no line of the first releases (install.py).                 *)
THEOREM InstallationComplete == Spec => []InstallComplete
<1>1. SetupInv => InstallComplete
  BY DEF SetupInv
<1> QED
  BY <1>1, SetupInvariant, PTL

(* After uninstall.py nothing is left of any installation, from wherever it  *)
(* was made (uninstall.py:2).                                                *)
THEOREM NothingIsLeft == Spec => []UninstallLeavesNone
<1>1. SetupInv => UninstallLeavesNone
  BY DEF SetupInv
<1> QED
  BY <1>1, SetupInvariant, PTL

-----------------------------------------------------------------------------
LEMMA MineAppended ==
  ASSUME NEW lines \in Seq(Lines), NEW l \in Lines \ OwnLines
  PROVE  Append(lines, l) \in Seq(Lines) /\ Mine(Append(lines, l)) = Mine(lines)
<1>1. Append(lines, l) \in Seq(Lines)
  BY AppendFacts
<1>2. Only(Append(lines, l), OwnLines) = Only(lines, OwnLines)
  BY OnlyAppend
<1> QED
  BY <1>1, <1>2, MineIsOnly

(* No script drops or reorders a line that the user wrote in speechd.conf,   *)
(* nor adds one, except that uninstall.py writes what it has read before its *)
(* prompt (install.py:132-181, uninstall.py:66-90).                          *)
THEOREM UsersLinesStay == Spec => UserLinesKept
<1> DEFINE Kept == setup # "idle" /\ edits' = edits /\ conf # NoFile
                     => \/ Mine(conf') = Mine(conf)
                        \/ setup = "strip" /\ Mine(conf') = Mine(text)
<1>1. ASSUME SetupInv, [Next]_vars PROVE [Kept]_<<conf, setup>>
  <2>1. SUFFICES ASSUME setup # "idle", edits' = edits, conf # NoFile,
                        conf' # conf
                 PROVE  \/ Mine(conf') = Mine(conf)
                        \/ setup = "strip" /\ Mine(conf') = Mine(text)
    OBVIOUS
  <2>2. conf \in Seq(Lines) /\ edits \in Nat /\ at \in Repos
        /\ (setup = "strip" => text \in Seq(Lines))
    BY <1>1, <2>1, DeploymentAssumption DEF SetupInv, InstallTypeOK, FilesRead
  <2>3. ~UserStep
    BY <2>1, <2>2 DEF UserStep, UserAppends, UserAddsLine, UserCommentsOut,
                      UserMovesRepo, UserDoes
  <2>4. DropLegacyLine \/ AppendLine \/ StripConf
    <3>1. ~StartScript /\ ~Provide /\ ~UNCHANGED vars
      BY <2>1 DEF StartScript, Provide, vars, installVars, InstallPy,
                  UninstallPy, Keep
    <3>2. ~SeedDaemonConfig(Installed)
      BY <2>1 DEF SeedDaemonConfig, Keep
    <3>3. SetupStep
      BY <1>1, <2>3, <3>1, <3>2 DEF Next, Setup
    <3> QED
      BY <2>1, <3>3 DEF SetupStep, Preflight, InstallSockets, InstallService,
         InstallModuleConf, SeedConf, SystemdEnable, Disable, RemoveUnits,
         RemoveModuleConf, ReadConf, KillSetup, Keep
  <2>5. CASE DropLegacyLine
    <3>1. conf' = Without(conf, {"legacy"})
      BY <2>1, <2>5 DEF DropLegacyLine
    <3> QED
      BY <2>2, <3>1, MineOfWithout DEF Targets
  <2>6. CASE AppendLine
    <3>1. conf' = conf \o <<"blank", "marker", at>>
      BY <2>1, <2>6 DEF AppendLine, Keep
    <3>2. "blank" \in Lines \ OwnLines /\ "marker" \in Lines \ OwnLines
          /\ at \in Lines \ OwnLines
      BY <2>2 DEF Lines, OwnLines, Repos
    <3>3. PICK a \in Seq(Lines) : a = Append(conf, "blank") /\ Mine(a) = Mine(conf)
      BY <2>2, <3>2, MineAppended
    <3>4. PICK b \in Seq(Lines) : b = Append(a, "marker") /\ Mine(b) = Mine(a)
      BY <3>2, MineAppended
    <3>5. conf' = Append(b, at)
      BY <2>2, <3>1, <3>2, <3>3, <3>4, ThreeAppended
    <3> QED
      BY <3>2, <3>3, <3>4, <3>5, MineAppended
  <2>7. CASE StripConf
    <3>1. setup = "strip" /\ conf' = Without(text, Targets)
      BY <2>1, <2>7 DEF StripConf, Keep, At
    <3> QED
      BY <2>2, <3>1, MineOfWithout
  <2> QED
    BY <2>4, <2>5, <2>6, <2>7
<1> QED
  BY <1>1, SetupInvariant, PTL DEF Spec, UserLinesKept
================================================================================
