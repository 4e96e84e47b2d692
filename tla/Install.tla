-------------------------------- MODULE Install --------------------------------
(***************************************************************************)
(* scripts/install.py and uninstall.py: the files of the user's systemd,    *)
(* speech-dispatcher and daemon configuration that they write and remove,   *)
(* one write at a time, between a user who edits speechd.conf and moves the *)
(* repository and a script that may be killed anywhere.                     *)
(***************************************************************************)
EXTENDS Naturals, Subsequence, SequencesExt

CONSTANT MaxEdits \* bound: what the user does to speechd.conf or the repository

VARIABLES
  at,       \* where the repository is: here or there
  units,    \* the unit files that exist
  service,  \* the repository that neural-tts.service runs from
  enabled,  \* [provider] enabled of config.toml; {}: there is no such file
  modconf,  \* the module configurations of speech-dispatcher
  conf,     \* the lines of the user's speechd.conf, or NoFile
  sockets,  \* systemd listens on the two sockets
  setup,    \* the next step of the script that runs
  text,     \* what uninstall has read of speechd.conf
  declined, \* the user said no to the script
  outcome,  \* installed or removed, when that was the last thing to happen
  edits

installVars == <<at, units, service, enabled, modconf, conf, sockets, setup,
                 text, declined, outcome, edits>>

Repos  == {"here", "there"}
Units  == {"neural-tts.socket", "neural-tts-control.socket",
           "neural-tts.service"}
NoFile == <<"no file">>
Files  == {"neural-tts.conf", "neural-tts-generic.conf"}

(* A line of speechd.conf: of the user (own, and added later: mine), blank,  *)
(* the installer's comment, an AddModule line for the repository at a place, *)
(* that of the first releases, or the one for here that the user has         *)
(* commented out.                                                            *)
Lines == {"own", "mine", "blank", "marker", "legacy", "off"} \cup Repos

InstallTypeOK ==
  /\ {at, service} \subseteq Repos /\ units \subseteq Units
  /\ {sockets, declined} \subseteq BOOLEAN
  /\ modconf \subseteq Files
  /\ conf = NoFile \/ conf \in Seq(Lines)
  /\ text = NoFile \/ text \in Seq(Lines)
  /\ setup \in {"idle", "preflight", "sockets", "service", "config", "modconf",
                "seed", "legacy", "append", "enable", "disable", "unlink",
                "unconf", "read", "strip"}
  /\ outcome \in {"none", "installed", "removed"} /\ edits \in 0..MaxEdits

Old == <<"own", "blank", "marker", "legacy", "own">>

InstallInit ==
  /\ at = "here" /\ service = "here" /\ units = {} /\ enabled = {}
  /\ \/ conf \in {NoFile, <<"own">>} /\ modconf = {}
     \/ conf = Old /\ modconf = {"neural-tts-generic.conf"}
  /\ sockets = FALSE /\ setup = "idle" /\ text = NoFile /\ declined = FALSE
  /\ outcome = "none" /\ edits = 0

Has(lines, S) == \E i \in DOMAIN lines : lines[i] \in S

(* The lines without those of S, without the installer's comments, and each  *)
(* without the blank line after it.                                          *)
Dropped(lines, S) ==
  LET gone  == S \cup {"marker"}
      keeps == {i \in DOMAIN lines :
                  /\ lines[i] \notin gone
                  /\ ~(lines[i] = "blank" /\ i > 1 /\ lines[i - 1] \in gone)}
  IN Picked(lines, keeps)

RStrip(lines) ==
  SubSeq(lines, 1, SelectLastInSeq(lines, LAMBDA l : l # "blank"))

WithoutNext(lines, S) ==  \* mutant: what follows a line of S goes, blank or not
  LET gone  == S \cup {"marker"}
      keeps == {i \in DOMAIN lines :
                  lines[i] \notin gone /\ ~(i > 1 /\ lines[i - 1] \in gone)}
  IN RStrip(Picked(lines, keeps))

Without(lines, S) == RStrip(Dropped(lines, S))

-----------------------------------------------------------------------------
(* install.py                                                                *)

At(step)  == setup = step
To(step)  == setup' = step
Keep(v)   == UNCHANGED v

InstallPy ==
  /\ At("idle") /\ To("preflight") /\ declined' = FALSE /\ outcome' = "none"
  /\ Keep(<<at, units, service, enabled, modconf, conf, sockets, text, edits>>)

(* A tool or the daemon's venv may be missing.                               *)
Preflight ==
  /\ At("preflight") /\ (To("sockets") \/ To("idle"))
  /\ Keep(<<at, units, service, enabled, modconf, conf, sockets, text,
            declined, outcome, edits>>)

InstallSockets ==
  /\ At("sockets") /\ To("service")
  /\ units' = units \cup {"neural-tts.socket", "neural-tts-control.socket"}
  /\ Keep(<<at, service, enabled, modconf, conf, sockets, text, declined,
            outcome, edits>>)

InstallServiceOnce ==  \* mutant: a service file that is there is left alone
  /\ At("service") /\ To("config")
  /\ units' = units \cup {"neural-tts.service"}
  /\ service' = IF "neural-tts.service" \in units THEN service ELSE at
  /\ Keep(<<at, enabled, modconf, conf, sockets, text, declined, outcome,
            edits>>)

InstallService ==
  /\ At("service") /\ To("config")
  /\ units' = units \cup {"neural-tts.service"} /\ service' = at
  /\ Keep(<<at, enabled, modconf, conf, sockets, text, declined, outcome,
            edits>>)

(* Only where there is none; the providers whose venv exists, or kokoro-onnx *)
SeedDaemonConfig(installed) ==
  /\ At("config") /\ To("modconf")
  /\ enabled' = IF enabled # {} THEN enabled
                ELSE IF installed = {} THEN {"kokoro-onnx"} ELSE installed
  /\ Keep(<<at, units, service, modconf, conf, sockets, text, declined,
            outcome, edits>>)

InstallModuleConf ==
  /\ At("modconf") /\ To("seed") /\ modconf' = {"neural-tts.conf"}
  /\ Keep(<<at, units, service, enabled, conf, sockets, text, declined,
            outcome, edits>>)

(* The user's file starts as a copy of the system's, if that is there.       *)
SeedConf ==
  /\ At("seed")
  /\ \/ conf # NoFile /\ To("legacy") /\ Keep(conf)
     \/ conf = NoFile /\ To("legacy") /\ conf' = <<"own">>
     \/ conf = NoFile /\ To("idle") /\ Keep(conf)
  /\ Keep(<<at, units, service, enabled, modconf, sockets, text, declined,
            outcome, edits>>)

DropLegacyLine ==
  /\ At("legacy") /\ To("append")
  /\ conf' = IF Has(conf, {"legacy"}) THEN Without(conf, {"legacy"}) ELSE conf
  /\ Keep(<<at, units, service, enabled, modconf, sockets, text, declined,
            outcome, edits>>)

(* The line is looked for as a text, so a comment has it too.                *)
Present == Has(conf, {at}) \/ (at = "here" /\ Has(conf, {"off"}))

AppendAgain ==  \* mutant: no look at whether it is there
  /\ At("append") /\ To("enable")
  /\ conf' = conf \o <<"blank", "marker", at>> /\ Keep(declined)
  /\ Keep(<<at, units, service, enabled, modconf, sockets, text, outcome,
            edits>>)

AppendLine ==
  /\ At("append") /\ To("enable")
  /\ \/ Present /\ Keep(<<conf, declined>>)
     \/ ~Present /\ conf' = conf \o <<"blank", "marker", at>> /\ Keep(declined)
     \/ ~Present /\ declined' = TRUE /\ Keep(conf)
  /\ Keep(<<at, units, service, enabled, modconf, sockets, text, outcome,
            edits>>)

SystemdEnable ==
  /\ At("enable") /\ To("idle") /\ sockets' = TRUE
  /\ outcome' = IF declined THEN "none" ELSE "installed"
  /\ Keep(<<at, units, service, enabled, modconf, conf, text, declined, edits>>)

-----------------------------------------------------------------------------
(* uninstall.py                                                              *)

UninstallPy ==
  /\ At("idle") /\ To("disable") /\ declined' = FALSE /\ outcome' = "none"
  /\ Keep(<<at, units, service, enabled, modconf, conf, sockets, text, edits>>)

Disable ==
  /\ At("disable") /\ To("unlink") /\ sockets' = FALSE
  /\ Keep(<<at, units, service, enabled, modconf, conf, text, declined,
            outcome, edits>>)

RemoveUnits ==
  /\ At("unlink") /\ To("unconf") /\ units' = {}
  /\ Keep(<<at, service, enabled, modconf, conf, sockets, text, declined,
            outcome, edits>>)

RemoveModuleConf ==
  /\ At("unconf") /\ To("read") /\ modconf' = {}
  /\ Keep(<<at, units, service, enabled, conf, sockets, text, declined,
            outcome, edits>>)

TargetsHere == {"legacy", at}  \* mutant: only the line of this repository

(* _candidate_addmodule_lines: of any repository                             *)
Targets == {"legacy"} \cup Repos

ReadConf ==
  /\ At("read")
  /\ IF conf # NoFile /\ Has(conf, Targets)
     THEN To("strip") /\ text' = conf /\ Keep(outcome)
     ELSE To("idle") /\ outcome' = "removed" /\ Keep(text)
  /\ Keep(<<at, units, service, enabled, modconf, conf, sockets, declined,
            edits>>)

(* After the answer to a prompt, what is written is what was read before it. *)
StripConf ==
  /\ At("strip") /\ To("idle") /\ text' = NoFile
  /\ \/ conf' = Without(text, Targets) /\ outcome' = "removed" /\ Keep(declined)
     \/ declined' = TRUE /\ Keep(<<conf, outcome>>)
  /\ Keep(<<at, units, service, enabled, modconf, sockets, edits>>)

-----------------------------------------------------------------------------
KillSetup ==
  /\ ~At("idle") /\ To("idle") /\ text' = NoFile
  /\ Keep(<<at, units, service, enabled, modconf, conf, sockets, declined,
            outcome, edits>>)

UserDoes ==
  /\ edits < MaxEdits /\ edits' = edits + 1 /\ outcome' = "none"
  /\ Keep(<<units, service, enabled, modconf, sockets, setup, text, declined>>)

UserAppends == UserDoes /\ conf # NoFile /\ conf' = Append(conf, "mine") /\ Keep(at)

(* As the installer says when its prompt is declined                         *)
UserAddsLine ==
  /\ UserDoes /\ At("idle") /\ declined /\ conf # NoFile /\ ~Present
  /\ conf' = Append(conf, at) /\ Keep(at)

UserCommentsOut ==
  /\ UserDoes /\ At("idle") /\ conf # NoFile /\ Keep(at)
  /\ \E i \in DOMAIN conf : conf[i] = "here" /\ conf' = [conf EXCEPT ![i] = "off"]

UserMovesRepo ==
  /\ UserDoes /\ At("idle") /\ at' \in Repos \ {at} /\ Keep(conf)

SetupStep ==
  \/ Preflight \/ InstallSockets \/ InstallService \/ InstallModuleConf
  \/ SeedConf \/ DropLegacyLine \/ AppendLine \/ SystemdEnable
  \/ Disable \/ RemoveUnits \/ RemoveModuleConf \/ ReadConf \/ StripConf
  \/ KillSetup

UserStep == UserAppends \/ UserAddsLine \/ UserCommentsOut \/ UserMovesRepo

-----------------------------------------------------------------------------
(* However often the installer runs, or is killed, a repository has one      *)
(* AddModule line at most ("Idempotent", install.py:4).                      *)
OneLinePerRepo ==
  conf # NoFile =>
    \A i, j \in DOMAIN conf : conf[i] = conf[j] /\ conf[i] \in Repos => i = j

Mine(lines) ==
  Picked(lines, {i \in DOMAIN lines : lines[i] \in {"own", "mine", "off"}})

(* No script drops or reorders a line of the user's own in speechd.conf,     *)
(* except for lines added while uninstall.py waits for its answer            *)
(* (uninstall.py:77-98 writes what it has read before).                      *)
UserLinesKept ==
  [][ setup # "idle" /\ edits' = edits /\ conf # NoFile
        => \/ Mine(conf') = Mine(conf)
           \/ setup = "strip" /\ Mine(conf') = Mine(text) ]_<<conf, setup>>

(* An installation that has gone through is whole, whatever was there before *)
(* of an earlier one, of another place, or of a run that was killed; only a  *)
(* line the user has commented out stays so.                                 *)
InstallComplete ==
  outcome = "installed" =>
    /\ units = Units /\ service = at /\ sockets /\ enabled # {}
    /\ modconf = {"neural-tts.conf"}
    /\ Has(conf, {at} \cup (IF at = "here" THEN {"off"} ELSE {}))
    /\ ~Has(conf, {"legacy"})

(* "Reverse the install" (uninstall.py:2): nothing is left of any            *)
(* installation, from wherever it was made.                                  *)
UninstallLeavesNone ==
  outcome = "removed" =>
    /\ units = {} /\ modconf = {} /\ ~sockets
    /\ conf # NoFile => ~Has(conf, Repos \cup {"legacy"})
================================================================================
