------------------------------ MODULE VoiceIndex ------------------------------
(***************************************************************************)
(* The global voice index (daemon/src/neural_tts_daemon/voice_index.py):   *)
(* every provider's voices under ids that are unique over all of them.     *)
(*                                                                         *)
(* An id is the sequence of its dot-separated parts, so that the collision *)
(* suffix f"{id}.{provider}" is Append(id, provider), and the id of a      *)
(* reference clip with dots in its name is a longer sequence.              *)
(***************************************************************************)
EXTENDS Naturals, Subsequence, FiniteSets

CONSTANTS
  Order,    \* the provider names, sorted
  Ids       \* the bare ids that providers use

Providers == {Order[i] : i \in 1..Len(Order)}

ASSUME VoiceIndexAssumption ==
  /\ Order \in Seq(STRING) /\ Ids \subseteq Seq(STRING)
  /\ \A i, j \in 1..Len(Order) : Order[i] = Order[j] => i = j
  /\ \A id \in Ids : Len(id) > 0

VARIABLES
  raw,     \* _by_provider_raw; a provider without an entry has no voices
  public,  \* _by_provider_public, likewise
  byPublic \* _by_public_id: where a public id leads

indexVars == <<raw, public, byPublic>>

PublicIds == Ids \cup {Append(id, p) : id \in Ids, p \in Providers}

IndexTypeOK ==
  /\ DOMAIN raw = Providers /\ DOMAIN public = Providers
  /\ \A p \in Providers : \A k \in DOMAIN raw[p] : raw[p][k].id \in Ids
  /\ \A p \in Providers : \A k \in DOMAIN public[p] : public[p][k].id \in PublicIds
  /\ DOMAIN byPublic \subseteq PublicIds
  /\ \A u \in DOMAIN byPublic : byPublic[u] \in Providers \X Ids

-----------------------------------------------------------------------------
(* _rebuild.  An entry <<i, k>> is the k-th voice of the i-th provider; the  *)
(* two loops visit the entries in the order of Precedes.                     *)

Entries(r)     == UNION {{i} \X DOMAIN r[Order[i]] : i \in 1..Len(Order)}
Local(r, e)    == r[Order[e[1]]][e[2]].id
Precedes(e, f) == e[1] < f[1] \/ (e[1] = f[1] /\ e[2] < f[2])

(* id_counts[id], over all providers and within each                         *)
Copies(r, id) == Cardinality({e \in Entries(r) : Local(r, e) = id})

PublicIdOneSided(r, e) ==  \* mutant: the first copy keeps the bare id
  IF \E f \in Entries(r) : Precedes(f, e) /\ Local(r, f) = Local(r, e)
  THEN Append(Local(r, e), Order[e[1]])
  ELSE Local(r, e)

PublicId(r, e) ==
  IF Copies(r, Local(r, e)) > 1
  THEN Append(Local(r, e), Order[e[1]])
  ELSE Local(r, e)

KeptAlways(r, e) == e \in Entries(r)  \* mutant: no look at _by_public_id

(* The entry's public id is not yet in _by_public_id when it is visited: a   *)
(* later entry is dropped, from the lookup and from the public list.         *)
Kept(r, e) ==
  \A f \in Entries(r) : Precedes(f, e) => PublicId(r, f) # PublicId(r, e)

PublicList(r, i) ==
  LET voices == r[Order[i]]
      listed == [k \in 1..Len(voices) |->
                   [id |-> PublicId(r, <<i, k>>), tags |-> voices[k].tags]]
  IN Picked(listed, {k \in 1..Len(voices) : Kept(r, <<i, k>>)})

(* What _by_public_id holds: the provider and its own id of the kept entry.  *)
Lookup(r, u) ==
  LET e == CHOOSE f \in Entries(r) : Kept(r, f) /\ PublicId(r, f) = u
  IN <<Order[e[1]], Local(r, e)>>

Place(p) == CHOOSE i \in 1..Len(Order) : Order[i] = p

Rebuild(r) ==
  /\ public' = [p \in Providers |-> PublicList(r, Place(p))]
  /\ byPublic' = [u \in {PublicId(r, e) : e \in Entries(r)} |-> Lookup(r, u)]

IndexInit ==
  /\ raw = [p \in Providers |-> <<>>]
  /\ public = [p \in Providers |-> <<>>]
  /\ byPublic = [u \in {} |-> <<>>]

(* The end of enumerate_all_voices: clear, then set_provider_voices for each *)
(* provider that answered, without an await in between.                      *)
Populate(out) == raw' = out /\ Rebuild(out)

(* provider_for and local_id_for, for an id in the index                     *)
ProviderFor(u) == byPublic[u][1]
LocalIdFor(u)  == byPublic[u][2]

-----------------------------------------------------------------------------
(* all_voices lists no id twice, and exactly the ids that can be looked up;  *)
(* the lookup names the provider that lists it and the id by which that      *)
(* provider knows it, and no two ids lead to one voice                       *)
(* (voice_index.py:65-74,98-126).                                            *)
ListingMatchesLookup ==
  /\ \A p, q \in Providers :
       \A j \in 1..Len(public[p]), k \in 1..Len(public[q]) :
         public[p][j].id = public[q][k].id => p = q /\ j = k
  /\ \A u \in PublicIds :
       u \in DOMAIN byPublic <=>
         \E p \in Providers : \E j \in 1..Len(public[p]) : public[p][j].id = u
  /\ \A p \in Providers : \A j \in 1..Len(public[p]) :
       ProviderFor(public[p][j].id) = p
  /\ \A u \in DOMAIN byPublic :
       \E k \in DOMAIN raw[ProviderFor(u)] :
         raw[ProviderFor(u)][k].id = LocalIdFor(u)
  /\ \A u, v \in DOMAIN byPublic : byPublic[u] = byPublic[v] => u = v

(* No id ends in a provider's name.                                          *)
Plain(r) ==
  \A e \in Entries(r) : \A p \in Providers, id \in Ids : Local(r, e) # Append(id, p)

(* Every voice of every provider can be asked for, and a bare id belongs to  *)
(* nobody as soon as two providers have it (the docstring of _rebuild,       *)
(* voice_index.py:87-89).                                                    *)
NoVoiceLost ==
  Plain(raw) =>
    /\ \A e \in Entries(raw) : \E u \in DOMAIN byPublic :
         byPublic[u] = <<Order[e[1]], Local(raw, e)>>
    /\ \A e, f \in Entries(raw) :
         Local(raw, e) = Local(raw, f) /\ e # f
           => Local(raw, e) \notin DOMAIN byPublic

(* A public id a client remembers is never given to another voice while the  *)
(* voice it meant is still there: it may only become unknown                 *)
(* (set_provider_voices replaces one slice, voice_index.py:41-44).           *)
NoRerouting ==
  [][ \A u \in DOMAIN byPublic \cap DOMAIN byPublic' :
        \/ byPublic'[u] = byPublic[u]
        \/ ~Plain(raw) \/ ~Plain(raw')
        \/ LocalIdFor(u) \notin
             {raw'[ProviderFor(u)][k].id : k \in DOMAIN raw'[ProviderFor(u)]} ]_indexVars
=============================================================================
