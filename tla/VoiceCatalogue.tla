---------------------------- MODULE VoiceCatalogue ----------------------------
(***************************************************************************)
(* From the clips on disk to the ids that clients ask for: the providers'  *)
(* scans (VoiceFiles), the enumeration of the supervisor with its filters, *)
(* and the index it fills (VoiceIndex).  How the enumeration meets other   *)
(* tasks is in module Supervisor; here it is one step.                     *)
(***************************************************************************)
EXTENDS VoiceFiles, VoiceIndex

CONSTANTS
  Allowlists, \* [providers.<name>] voices: a set of ids, empty for all
  Locales,    \* [providers.<name>.locales]: pairs of matching ids and tags
  Installs,   \* the sets of installed providers to check
  MaxEdits,   \* bound: clips dropped or removed
  Nobody

ASSUME CatalogueAssumption ==
  /\ \A c \in Clips : c.id \in Ids
  /\ \A p \in Providers :
       Built[p] \in Seq(Ids) /\ Locales[p] \in Seq(ToSet(Locales[p]))
  /\ Installs \subseteq SUBSET Providers /\ MaxEdits \in Nat

VARIABLES
  dirs,      \* the clips in each provider's voices directory
  installed,
  active,    \* Nobody, or a provider with the voices of its warmup
  edits

vars == <<indexVars, dirs, installed, active, edits>>

TypeOK ==
  /\ IndexTypeOK
  /\ dirs \in [Providers -> SUBSET Clips] /\ installed \in Installs
  /\ active = Nobody \/ active.name \in installed
  /\ edits \in 0..MaxEdits

Init ==
  /\ IndexInit
  /\ dirs = [p \in Providers |-> {}] /\ installed \in Installs
  /\ active = Nobody /\ edits = 0

-----------------------------------------------------------------------------
(* A user drops a clip into a directory, or removes one.                     *)
Edit(p) ==
  /\ edits < MaxEdits /\ edits' = edits + 1
  /\ \E c \in Clips : dirs' = [dirs EXCEPT ![p] = (@ \cup {c}) \ (@ \cap {c})]
  /\ UNCHANGED <<indexVars, installed, active>>

IsActive(p) == active # Nobody /\ active.name = p

(* A client's request starts a provider, which answers the warmup with its   *)
(* voices, or fails it, and then nothing is active.                          *)
Spawn(p) ==
  /\ p \in installed /\ ~IsActive(p)
  /\ active' = IF Readable(p, dirs[p])
                 THEN [name |-> p, voices |-> Announced(p, dirs[p])] ELSE Nobody
  /\ UNCHANGED <<indexVars, dirs, installed, edits>>

(* It goes: evicted, replaced or crashed.                                    *)
Shutdown ==
  /\ active # Nobody /\ active' = Nobody
  /\ UNCHANGED <<indexVars, dirs, installed, edits>>

(* The enumeration goes through the installed providers in order.  It asks   *)
(* the active one nothing, but any other is spawned, and a spawn first reaps *)
(* what is active.                                                           *)
ReusedAnyTime(p) == IsActive(p)  \* mutant: the voices of one that is reaped

Reused(p) ==
  /\ IsActive(p)
  /\ \A i, j \in 1..Len(Order) :
       Order[i] \in installed /\ Order[j] = p => j <= i

Answers(p) == p \in installed /\ (Reused(p) \/ Readable(p, dirs[p]))

VoicesFrom(p) == IF Reused(p) THEN active.voices ELSE Announced(p, dirs[p])

Filter(p, voices) ==
  Picked(voices, {k \in DOMAIN voices :
    Allowlists[p] = {} \/ voices[k].id \in Allowlists[p]})

(* An override without tags is left out when the configuration is read.      *)
Overrides(p) ==
  Picked(Locales[p], {k \in DOMAIN Locales[p] : Locales[p][k].tags # <<>>})

(* _match_locale_override: the tags of the first match, or none.             *)
Override(p, id) ==
  LET hits == {k \in DOMAIN Overrides(p) : id \in Overrides(p)[k].ids}
  IN IF hits = {} THEN <<>> ELSE Overrides(p)[Min(hits)].tags

Localize(p, voices) ==
  [k \in DOMAIN voices |->
     IF Override(p, voices[k].id) = <<>> THEN voices[k]
     ELSE [voices[k] EXCEPT !.tags = Override(p, voices[k].id)]]

(* enumerate_all_voices, for a reload or because the index is empty.         *)
Enumerate ==
  /\ Populate([p \in Providers |->
       IF Answers(p) THEN Localize(p, Filter(p, VoicesFrom(p))) ELSE <<>>])
  /\ active' = IF \A p \in installed : Reused(p) THEN active ELSE Nobody
  /\ UNCHANGED <<dirs, installed, edits>>

Next ==
  \/ \E p \in installed : Edit(p) \/ Spawn(p)
  \/ Shutdown \/ Enumerate

Spec == Init /\ [][Next]_vars

-----------------------------------------------------------------------------
(* The directory whose clips a provider's answer stands for is the one on    *)
(* disk, but for the first provider when it is already active: a clip that   *)
(* was dropped in since its warmup is missing (supervisor.py:225-235).       *)
FromDisk(p) ==
  ~(IsActive(p) /\ \A q \in installed : \E i, j \in 1..Len(Order) :
                     i <= j /\ Order[i] = p /\ Order[j] = q)

Offers(p) == {byPublic[u][2] : u \in {v \in DOMAIN byPublic : byPublic[v][1] = p}}

(* After a reload clients can ask each provider for exactly the clips that   *)
(* are good for it and its own voices, within its allowlist; an unreadable   *)
(* neighbour takes all voices of that provider away, and of no other         *)
(* (README.md:123, "Rebuild the global voice index").                        *)
ReloadReadsDisk ==
  [][ Enumerate /\ Plain(raw') =>
        \A p \in installed : FromDisk(p) =>
          Offers(p)' = {id \in {c.id : c \in {d \in dirs[p] : Takes(p, d)}}
                                 \cup ToSet(Built[p]) :
                          /\ Allowlists[p] = {} \/ id \in Allowlists[p]
                          /\ \A c \in dirs[p] : ~EndsScan(p, c)} ]_vars

(* A voice is listed in the language of the clip it will be spoken with, the *)
(* last of its id, or in those of the first override that matches it         *)
(* (config.py:67-72).                                                        *)
TagsTellClip ==
  [][ Enumerate =>
        \A p \in installed : FromDisk(p) => \A j \in DOMAIN public'[p] :
          LET v     == public'[p][j]
              id    == byPublic'[v.id][2]
              hits  == {k \in DOMAIN Locales[p] :
                          id \in Locales[p][k].ids /\ Locales[p][k].tags # <<>>}
              clips == {k \in DOMAIN ClipOrder : ClipOrder[k].id = id
                          /\ ClipOrder[k] \in dirs[p] /\ Takes(p, ClipOrder[k])}
          IN \/ \E k \in hits : v.tags = Locales[p][k].tags /\ \A l \in hits : k <= l
             \/ hits = {} /\ clips = {} /\ v.tags = <<"en">>
             \/ hits = {} /\ \E k \in clips :
                  v.tags = <<ClipOrder[k].lang>> /\ \A l \in clips : l <= k ]_vars
=============================================================================
