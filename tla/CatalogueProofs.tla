---------------------------- MODULE CatalogueProofs ----------------------------
(***************************************************************************)
(* Theorems about the voice index and the catalogue it is filled from, for *)
(* every set of providers, ids and clips: the listing and the lookup agree, *)
(* no voice is lost, no id is given to another voice, and a reload lists    *)
(* what is on the disk.                                                     *)
(***************************************************************************)
EXTENDS VoiceCatalogue, SubsequenceProofs, FiniteSetTheorems

(* What the voices' tags are taken from                                      *)
Tags == {<<c.lang>> : c \in Clips} \cup {<<"en">>}
          \cup UNION {{Locales[p][k].tags : k \in DOMAIN Locales[p]} : p \in Providers}

Voice == [id : Ids, tags : Tags]

(* What a provider answers with                                              *)
Answer == Seq(Voice)

-----------------------------------------------------------------------------
(* Ids and entries                                                           *)

LEMMA ProviderPlaces ==
  /\ Len(Order) \in Nat
  /\ \A i \in 1..Len(Order) : Order[i] \in Providers /\ Order[i] \in STRING
                               /\ Place(Order[i]) = i
  /\ \A p \in Providers : Place(p) \in 1..Len(Order) /\ Order[Place(p)] = p
<1>1. Len(Order) \in Nat /\ \A i \in 1..Len(Order) : Order[i] \in STRING
  BY VoiceIndexAssumption
<1>2. ASSUME NEW p \in Providers
      PROVE  Place(p) \in 1..Len(Order) /\ Order[Place(p)] = p
  <2>1. \E i \in 1..Len(Order) : Order[i] = p
    BY DEF Providers
  <2> QED
    BY <2>1 DEF Place
<1>3. ASSUME NEW i \in 1..Len(Order)
      PROVE  Order[i] \in Providers /\ Place(Order[i]) = i
  <2>1. Order[i] \in Providers
    BY DEF Providers
  <2> QED
    BY <1>2, <2>1, VoiceIndexAssumption
<1> QED
  BY <1>1, <1>2, <1>3

(* A suffixed id tells the bare id and the provider.                         *)
LEMMA SuffixTells ==
  ASSUME NEW a \in Ids, NEW b \in Ids, NEW p \in Providers, NEW q \in Providers,
         Append(a, p) = Append(b, q)
  PROVE  a = b /\ p = q
<1>1. a \in Seq(STRING) /\ b \in Seq(STRING) /\ p \in STRING /\ q \in STRING
  BY VoiceIndexAssumption, ProviderPlaces DEF Providers
<1>2. PICK X : X = STRING
  OBVIOUS
<1>3. a \in Seq(X) /\ b \in Seq(X) /\ p \in X /\ q \in X
  BY <1>1, <1>2
<1> QED
  BY <1>3, AppendTells

LEMMA EntryFacts ==
  ASSUME NEW r \in [Providers -> Answer]
  PROVE  /\ \A i \in 1..Len(Order) : r[Order[i]] \in Answer /\ Len(r[Order[i]]) \in Nat
         /\ \A i \in 1..Len(Order) : \A k \in 1..Len(r[Order[i]]) :
              <<i, k>> \in Entries(r) /\ r[Order[i]][k] \in Voice
         /\ \A e \in Entries(r) :
              /\ e[1] \in 1..Len(Order) /\ e[2] \in 1..Len(r[Order[e[1]]])
              /\ e[1] \in Nat /\ e[2] \in Nat /\ e = <<e[1], e[2]>>
              /\ Local(r, e) \in Ids /\ Order[e[1]] \in Providers
<1>1. \A i \in 1..Len(Order) : r[Order[i]] \in Answer /\ Order[i] \in Providers
  BY ProviderPlaces
<1>2. \A i \in 1..Len(Order) : Len(r[Order[i]]) \in Nat
                               /\ DOMAIN r[Order[i]] = 1..Len(r[Order[i]])
  BY <1>1 DEF Answer
<1>3. \A i \in 1..Len(Order) : \A k \in 1..Len(r[Order[i]]) : r[Order[i]][k] \in Voice
  BY <1>1, <1>2 DEF Answer
<1>4. ASSUME NEW i \in 1..Len(Order), NEW k \in 1..Len(r[Order[i]])
      PROVE  <<i, k>> \in Entries(r)
  BY <1>2 DEF Entries
<1>5. ASSUME NEW e \in Entries(r)
      PROVE  /\ e[1] \in 1..Len(Order) /\ e[2] \in 1..Len(r[Order[e[1]]])
             /\ e = <<e[1], e[2]>>
  <2>1. PICK i \in 1..Len(Order) : e \in {i} \X DOMAIN r[Order[i]]
    BY DEF Entries
  <2> QED
    BY <1>2, <2>1
<1>6. ASSUME NEW e \in Entries(r)
      PROVE  /\ e[1] \in Nat /\ e[2] \in Nat
             /\ Local(r, e) \in Ids /\ Order[e[1]] \in Providers
  <2>1. r[Order[e[1]]][e[2]] \in Voice
    BY <1>3, <1>5
  <2>2. Local(r, e) \in Ids
    BY <2>1 DEF Local, Voice
  <2> QED
    BY <1>1, <1>2, <1>5, <2>2, ProviderPlaces
<1> QED
  BY <1>1, <1>2, <1>3, <1>4, <1>5, <1>6

LEMMA EntriesFinite ==
  ASSUME NEW r \in [Providers -> Answer] PROVE IsFiniteSet(Entries(r))
<1> DEFINE U(n) == UNION {{i} \X DOMAIN r[Order[i]] : i \in 1..n}
           T == {n \in Nat : n <= Len(Order) => IsFiniteSet(U(n))}
<1>1. 0 \in T
  <2>1. U(0) = {}
    OBVIOUS
  <2> QED
    BY <2>1, FS_EmptySet
<1>2. ASSUME NEW n \in T PROVE n + 1 \in T
  <2>1. SUFFICES ASSUME n + 1 <= Len(Order) PROVE IsFiniteSet(U(n + 1))
    OBVIOUS
  <2> DEFINE new == {n + 1} \X DOMAIN r[Order[n + 1]]
  <2>2. n + 1 \in 1..Len(Order) /\ n <= Len(Order)
    BY <2>1, ProviderPlaces
  <2>3. IsFiniteSet(new)
    <3>1. DOMAIN r[Order[n + 1]] = 1..Len(r[Order[n + 1]])
          /\ Len(r[Order[n + 1]]) \in Int
      BY <2>2, EntryFacts DEF Answer
    <3>2. IsFiniteSet(DOMAIN r[Order[n + 1]])
      <4>1. \A m \in Int : IsFiniteSet(1..m)
        BY FS_Interval
      <4> QED
        BY <3>1, <4>1
    <3> QED
      BY <3>2, FS_Singleton, FS_Product
  <2>4. U(n + 1) = U(n) \cup new
    <3>1. \A i : i \in 1..(n + 1) <=> i \in 1..n \/ i = n + 1
      OBVIOUS
    <3> QED
      BY <3>1
  <2>5. IsFiniteSet(U(n))
    BY <2>2
  <2>6. \A A, B : IsFiniteSet(A) /\ IsFiniteSet(B) => IsFiniteSet(A \cup B)
    BY FS_Union
  <2>7. IsFiniteSet(U(n) \cup new)
    BY <2>3, <2>5, <2>6, Zenon
  <2> HIDE DEF U, new
  <2> QED
    BY <2>4, <2>7
<1> HIDE DEF T
<1>3. T \in SUBSET Nat
  BY DEF T
<1>4. Len(Order) \in T
  BY <1>1, <1>2, <1>3, InductiveSet, ProviderPlaces
<1>5. IsFiniteSet(U(Len(Order)))
  BY <1>4, ProviderPlaces DEF T
<1> QED
  BY <1>5 DEF Entries

(* An id counts more than once when two entries have it.                     *)
LEMMA CopiesOfTwo ==
  ASSUME NEW r \in [Providers -> Answer], NEW e \in Entries(r)
  PROVE  Copies(r, Local(r, e)) > 1
           <=> \E f \in Entries(r) : f # e /\ Local(r, f) = Local(r, e)
<1> DEFINE C == {f \in Entries(r) : Local(r, f) = Local(r, e)}
<1>1. IsFiniteSet(C) /\ Copies(r, Local(r, e)) = Cardinality(C) /\ e \in C
  <2>1. C \in SUBSET Entries(r)
    OBVIOUS
  <2> QED
    BY <2>1, EntriesFinite, FS_Subset DEF Copies
<1>2. ASSUME NEW f \in C, f # e PROVE Cardinality(C) > 1
  <2> HIDE DEF C
  <2>1. IsFiniteSet({e}) /\ Cardinality({e}) = 1
    BY FS_Singleton
  <2>2. Cardinality({e} \cup {f}) = 2
    BY <1>2, <2>1, FS_AddElement
  <2>3. {e} \cup {f} \in SUBSET C
    BY <1>1
  <2>4. Cardinality({e} \cup {f}) <= Cardinality(C) /\ Cardinality(C) \in Nat
    BY <1>1, <2>3, FS_Subset, FS_CardinalityType
  <2> QED
    BY <2>2, <2>4
<1>3. ASSUME \A f \in C : f = e PROVE Cardinality(C) = 1
  <2>1. C = {e}
    BY <1>1, <1>3
  <2> QED
    BY <2>1, FS_Singleton
<1> QED
  BY <1>1, <1>2, <1>3

LEMMA PublicIdFacts ==
  ASSUME NEW r \in [Providers -> Answer], NEW e \in Entries(r)
  PROVE  /\ PublicId(r, e) \in PublicIds
         /\ \/ /\ PublicId(r, e) = Local(r, e)
               /\ \A f \in Entries(r) : Local(r, f) = Local(r, e) => f = e
            \/ /\ PublicId(r, e) = Append(Local(r, e), Order[e[1]])
               /\ \E f \in Entries(r) : f # e /\ Local(r, f) = Local(r, e)
<1>1. Local(r, e) \in Ids /\ Order[e[1]] \in Providers
  BY EntryFacts
<1>2. CASE Copies(r, Local(r, e)) > 1
  <2>1. PublicId(r, e) = Append(Local(r, e), Order[e[1]])
    BY <1>2 DEF PublicId
  <2>2. \E f \in Entries(r) : f # e /\ Local(r, f) = Local(r, e)
    BY <1>2, CopiesOfTwo
  <2>3. PublicId(r, e) \in PublicIds
    BY <1>1, <2>1 DEF PublicIds
  <2> QED
    BY <2>1, <2>2, <2>3
<1>3. CASE ~(Copies(r, Local(r, e)) > 1)
  <2>1. PublicId(r, e) = Local(r, e)
    BY <1>3 DEF PublicId
  <2>2. \A f \in Entries(r) : Local(r, f) = Local(r, e) => f = e
    BY <1>3, CopiesOfTwo
  <2> QED
    BY <1>1, <2>1, <2>2 DEF PublicIds
<1> QED
  BY <1>2, <1>3

-----------------------------------------------------------------------------
(* The order of the two loops, and the entries that are kept                 *)

LEMMA PrecedesTotal ==
  ASSUME NEW r \in [Providers -> Answer], NEW e \in Entries(r), NEW f \in Entries(r)
  PROVE  /\ Precedes(e, f) \/ Precedes(f, e) \/ e = f
         /\ ~Precedes(e, e) /\ ~(Precedes(e, f) /\ Precedes(f, e))
<1>1. /\ e[1] \in Nat /\ e[2] \in Nat /\ e = <<e[1], e[2]>>
      /\ f[1] \in Nat /\ f[2] \in Nat /\ f = <<f[1], f[2]>>
  BY EntryFacts
<1>2. e[1] = f[1] /\ e[2] = f[2] => e = f
  BY <1>1
<1>3. ~Precedes(e, e) /\ ~(Precedes(e, f) /\ Precedes(f, e))
  BY <1>1 DEF Precedes
<1>4. e[1] < f[1] \/ f[1] < e[1] \/ e[2] < f[2] \/ f[2] < e[2]
        \/ (e[1] = f[1] /\ e[2] = f[2])
  BY <1>1
<1>5. Precedes(e, f) \/ Precedes(f, e) \/ (e[1] = f[1] /\ e[2] = f[2])
  BY <1>1 DEF Precedes
<1> QED
  BY <1>2, <1>3, <1>5

(* Every public id has one entry that is kept.                               *)
LEMMA FirstEntry ==
  ASSUME NEW r \in [Providers -> Answer], NEW e \in Entries(r)
  PROVE  \E f \in Entries(r) : Kept(r, f) /\ PublicId(r, f) = PublicId(r, e)
<1> DEFINE S == {f \in Entries(r) : PublicId(r, f) = PublicId(r, e)}
           A == {f[1] : f \in S}
<1>1. e \in S /\ A \in SUBSET Nat /\ A # {}
  BY EntryFacts
<1>2. PICK i \in A : \A x \in A : i <= x
  <2> HIDE DEF A, S
  <2> QED
    BY <1>1, LeastMember
<1> DEFINE B == {f[2] : f \in {g \in S : g[1] = i}}
<1>3. B \in SUBSET Nat /\ B # {}
  BY <1>1, <1>2, EntryFacts
<1>4. PICK k \in B : \A x \in B : k <= x
  <2> HIDE DEF A, B, S
  <2> QED
    BY <1>3, LeastMember
<1>5. PICK f \in S : f[1] = i /\ f[2] = k
  BY <1>4
<1>6. ASSUME NEW g \in Entries(r), Precedes(g, f), PublicId(r, g) = PublicId(r, f)
      PROVE  FALSE
  <2>1. g \in S /\ g[1] \in Nat /\ g[2] \in Nat /\ f[1] \in Nat /\ f[2] \in Nat
    BY <1>5, <1>6, EntryFacts
  <2>2. f[1] <= g[1]
    BY <1>2, <1>5, <2>1
  <2>3. g[1] = f[1] /\ g[2] < f[2]
    BY <1>6, <2>1, <2>2 DEF Precedes
  <2>4. g[2] \in B
    BY <1>5, <2>1, <2>3
  <2> QED
    BY <1>4, <1>5, <2>1, <2>3, <2>4
<1>7. Kept(r, f)
  BY <1>6 DEF Kept
<1> QED
  BY <1>5, <1>7

LEMMA KeptOnce ==
  ASSUME NEW r \in [Providers -> Answer], NEW e \in Entries(r), NEW f \in Entries(r),
         Kept(r, e), Kept(r, f), PublicId(r, e) = PublicId(r, f)
  PROVE  e = f
<1>1. ~Precedes(e, f) /\ ~Precedes(f, e)
  BY DEF Kept
<1> QED
  BY <1>1, PrecedesTotal

(* The lookup names the kept entry.                                          *)
LEMMA LookupFacts ==
  ASSUME NEW r \in [Providers -> Answer], NEW e \in Entries(r), Kept(r, e)
  PROVE  Lookup(r, PublicId(r, e)) = <<Order[e[1]], Local(r, e)>>
<1> DEFINE u == PublicId(r, e)
           c == CHOOSE f \in Entries(r) : Kept(r, f) /\ PublicId(r, f) = u
<1>1. c \in Entries(r) /\ Kept(r, c) /\ PublicId(r, c) = u
  <2> HIDE DEF u
  <2>1. PublicId(r, e) = u
    BY DEF u
  <2> QED
    BY <2>1, Zenon
<1>2. c = e
  <2> HIDE DEF c
  <2> QED
    BY <1>1, KeptOnce
<1>3. Lookup(r, u) = <<Order[c[1]], Local(r, c)>>
  BY DEF Lookup
<1> HIDE DEF c
<1> QED
  BY <1>2, <1>3

(* The public list of a provider is its kept entries, in their order.        *)
ListPlaces(g, r, i) ==
  LET list == PublicList(r, i)
  IN /\ g \in [1..Len(list) -> 1..Len(r[Order[i]])]
     /\ \A j, k \in 1..Len(list) : j < k => g[j] < g[k]
     /\ \A j \in 1..Len(list) :
          /\ Kept(r, <<i, g[j]>>) /\ list[j].id = PublicId(r, <<i, g[j]>>)
          /\ list[j].tags = r[Order[i]][g[j]].tags
     /\ \A k \in 1..Len(r[Order[i]]) :
          Kept(r, <<i, k>>) => \E j \in 1..Len(list) : g[j] = k

Listed == [id : PublicIds, tags : Tags]

LEMMA PublicListFacts ==
  ASSUME NEW r \in [Providers -> Answer], NEW i \in 1..Len(Order)
  PROVE  PublicList(r, i) \in Seq(Listed) /\ \E g : ListPlaces(g, r, i)
<1> DEFINE s == r[Order[i]]
           listed == [k \in 1..Len(s) |->
                        [id |-> PublicId(r, <<i, k>>), tags |-> s[k].tags]]
           S == {k \in 1..Len(s) : Kept(r, <<i, k>>)}
<1>1. Len(s) \in Nat /\ \A k \in 1..Len(s) : <<i, k>> \in Entries(r) /\ s[k] \in Voice
  BY EntryFacts
<1>2. \A k \in 1..Len(s) : PublicId(r, <<i, k>>) \in PublicIds
  BY <1>1, PublicIdFacts
<1>3. \A k \in 1..Len(s) : s[k].tags \in Tags
  BY <1>1 DEF Voice
<1>4. listed \in Seq(Listed) /\ Len(listed) = Len(s)
  <2>1. \A k \in 1..Len(s) : listed[k] \in Listed
    BY <1>2, <1>3 DEF Listed
  <2>2. listed \in [1..Len(s) -> Listed] /\ DOMAIN listed = 1..Len(s)
    BY <2>1
  <2> HIDE DEF listed
  <2> QED
    BY <1>1, <2>2
<1>5. PublicList(r, i) = Picked(listed, S)
  BY Zenon DEF PublicList
<1>6. \A k \in 1..Len(s) : listed[k].id = PublicId(r, <<i, k>>)
                           /\ listed[k].tags = s[k].tags
  OBVIOUS
<1>7. \A k : k \in S <=> k \in 1..Len(s) /\ Kept(r, <<i, k>>)
  OBVIOUS
<1> HIDE DEF listed, S
<1>8. PublicList(r, i) \in Seq(Listed)
  BY <1>4, <1>5, PickedType
<1>9. PICK g : Enumerates(g, PublicList(r, i), listed, S)
  BY <1>4, <1>5, PickedPlaces
<1> DEFINE list == PublicList(r, i)
<1>10. /\ \A j \in 1..Len(list) : g[j] \in 1..Len(s) /\ g[j] \in S
       /\ g \in [1..Len(list) -> 1..Len(s)]
  BY <1>4, <1>9 DEF Enumerates
<1>11. \A j, k \in 1..Len(list) : j < k => g[j] < g[k]
  BY <1>9 DEF Enumerates
<1>12. ASSUME NEW j \in 1..Len(list)
       PROVE  /\ Kept(r, <<i, g[j]>>) /\ list[j].id = PublicId(r, <<i, g[j]>>)
              /\ list[j].tags = s[g[j]].tags
  <2>1. list[j] = listed[g[j]]
    BY <1>9 DEF Enumerates
  <2> QED
    BY <1>6, <1>7, <1>10, <2>1
<1>13. ASSUME NEW k \in 1..Len(s), Kept(r, <<i, k>>)
       PROVE  \E j \in 1..Len(list) : g[j] = k
  <2>1. k \in S /\ k \in 1..Len(listed)
    BY <1>4, <1>7, <1>13
  <2> QED
    BY <1>9, <2>1 DEF Enumerates
<1>14. ListPlaces(g, r, i)
  BY <1>10, <1>11, <1>12, <1>13 DEF ListPlaces
<1> QED
  BY <1>8, <1>14

-----------------------------------------------------------------------------
(* What the index holds, given what the providers answered                   *)

IsIndex(r, pub, by) ==
  /\ r \in [Providers -> Answer]
  /\ pub = [p \in Providers |-> PublicList(r, Place(p))]
  /\ by = [u \in {PublicId(r, e) : e \in Entries(r)} |-> Lookup(r, u)]

LEMMA IndexTells ==
  ASSUME NEW r, NEW pub, NEW by, IsIndex(r, pub, by)
  PROVE  /\ \A e \in Entries(r) : PublicId(r, e) \in DOMAIN by
         /\ \A e \in Entries(r) :
              Kept(r, e) => by[PublicId(r, e)] = <<Order[e[1]], Local(r, e)>>
         /\ \A u \in DOMAIN by : \E e \in Entries(r) :
              /\ Kept(r, e) /\ PublicId(r, e) = u
              /\ by[u] = <<Order[e[1]], Local(r, e)>>
<1>1. /\ r \in [Providers -> Answer]
      /\ DOMAIN by = {PublicId(r, e) : e \in Entries(r)}
      /\ \A u \in DOMAIN by : by[u] = Lookup(r, u)
  BY DEF IsIndex
<1>2. ASSUME NEW e \in Entries(r), Kept(r, e)
      PROVE  by[PublicId(r, e)] = <<Order[e[1]], Local(r, e)>>
  <2>1. PublicId(r, e) \in DOMAIN by
    BY <1>1
  <2>2. Lookup(r, PublicId(r, e)) = <<Order[e[1]], Local(r, e)>>
    BY <1>1, <1>2, LookupFacts
  <2> QED
    BY <1>1, <2>1, <2>2
<1>3. ASSUME NEW u \in DOMAIN by
      PROVE  \E e \in Entries(r) : /\ Kept(r, e) /\ PublicId(r, e) = u
                                   /\ by[u] = <<Order[e[1]], Local(r, e)>>
  <2>1. PICK d \in Entries(r) : PublicId(r, d) = u
    BY <1>1
  <2>2. PICK e \in Entries(r) : Kept(r, e) /\ PublicId(r, e) = u
    BY <1>1, <2>1, FirstEntry
  <2>3. by[u] = <<Order[e[1]], Local(r, e)>>
    BY <1>2, <2>2
  <2> QED
    BY <2>2, <2>3
<1> QED
  BY <1>1, <1>2, <1>3

(* The entry of a place in a public list                                     *)
LEMMA ListTells ==
  ASSUME NEW r, NEW pub, NEW by, IsIndex(r, pub, by), NEW p \in Providers
  PROVE  /\ Len(pub[p]) \in Nat /\ pub[p] \in Seq(Listed)
         /\ \A j \in 1..Len(pub[p]) : \E k \in 1..Len(r[p]) :
              /\ <<Place(p), k>> \in Entries(r) /\ Kept(r, <<Place(p), k>>)
              /\ pub[p][j].id = PublicId(r, <<Place(p), k>>)
              /\ pub[p][j].tags = r[p][k].tags
              /\ \A l \in 1..Len(pub[p]) :
                   pub[p][l].id = PublicId(r, <<Place(p), k>>) => l = j
         /\ \A k \in 1..Len(r[p]) : Kept(r, <<Place(p), k>>) =>
              \E j \in 1..Len(pub[p]) : pub[p][j].id = PublicId(r, <<Place(p), k>>)
<1>1. r \in [Providers -> Answer] /\ pub[p] = PublicList(r, Place(p))
  BY DEF IsIndex
<1>2. Place(p) \in 1..Len(Order) /\ Order[Place(p)] = p
  BY ProviderPlaces
<1>3. pub[p] \in Seq(Listed) /\ \E g : ListPlaces(g, r, Place(p))
  BY <1>1, <1>2, PublicListFacts
<1>4. PICK g : ListPlaces(g, r, Place(p))
  BY <1>3
<1>5. Len(pub[p]) \in Nat
  BY <1>3
<1>6. \A j \in 1..Len(pub[p]) :
        /\ g[j] \in 1..Len(r[p]) /\ Kept(r, <<Place(p), g[j]>>)
        /\ pub[p][j].id = PublicId(r, <<Place(p), g[j]>>)
        /\ pub[p][j].tags = r[p][g[j]].tags
  BY <1>1, <1>2, <1>4 DEF ListPlaces
<1>7. \A k \in 1..Len(r[p]) : <<Place(p), k>> \in Entries(r)
  BY <1>1, <1>2, EntryFacts
<1>8. ASSUME NEW j \in 1..Len(pub[p]), NEW l \in 1..Len(pub[p]),
             pub[p][l].id = PublicId(r, <<Place(p), g[j]>>)
      PROVE  l = j
  <2>1. <<Place(p), g[j]>> = <<Place(p), g[l]>>
    BY <1>1, <1>6, <1>7, <1>8, KeptOnce
  <2>2. g[j] = g[l]
    BY <2>1
  <2>3. \A m \in 1..Len(r[p]) : m \in Int
    BY <1>1 DEF Answer
  <2>4. g[j] \in Int /\ g[l] \in Int
    BY <1>6, <2>3
  <2>5. (j < l => g[j] < g[l]) /\ (l < j => g[l] < g[j])
    BY <1>1, <1>4 DEF ListPlaces
  <2> QED
    BY <1>5, <2>2, <2>4, <2>5
<1>9. ASSUME NEW k \in 1..Len(r[p]), Kept(r, <<Place(p), k>>)
      PROVE  \E j \in 1..Len(pub[p]) : pub[p][j].id = PublicId(r, <<Place(p), k>>)
  <2>1. \E j \in 1..Len(pub[p]) : g[j] = k
    BY <1>1, <1>2, <1>4, <1>9 DEF ListPlaces
  <2> QED
    BY <1>6, <2>1
<1> QED
  BY <1>3, <1>5, <1>6, <1>7, <1>8, <1>9

LEMMA ListEntry ==
  ASSUME NEW r, NEW pub, NEW by, IsIndex(r, pub, by), NEW p \in Providers,
         NEW j \in 1..Len(pub[p])
  PROVE  \E k \in 1..Len(r[p]) :
           /\ <<Place(p), k>> \in Entries(r) /\ Kept(r, <<Place(p), k>>)
           /\ pub[p][j].id = PublicId(r, <<Place(p), k>>)
           /\ pub[p][j].tags = r[p][k].tags
<1>1. \A i \in 1..Len(pub[p]) : \E k \in 1..Len(r[p]) :
        /\ <<Place(p), k>> \in Entries(r) /\ Kept(r, <<Place(p), k>>)
        /\ pub[p][i].id = PublicId(r, <<Place(p), k>>)
        /\ pub[p][i].tags = r[p][k].tags
        /\ \A l \in 1..Len(pub[p]) :
             pub[p][l].id = PublicId(r, <<Place(p), k>>) => l = i
  BY ListTells, Zenon
<1> QED
  BY <1>1

(* Two kept entries that lead to one voice are one entry.                    *)
LEMMA SameVoice ==
  ASSUME NEW r \in [Providers -> Answer], NEW e \in Entries(r), NEW f \in Entries(r),
         Order[e[1]] = Order[f[1]], Local(r, e) = Local(r, f)
  PROVE  PublicId(r, e) = PublicId(r, f)
<1>1. CASE e = f
  BY <1>1
<1>2. CASE e # f
  <2>1. PublicId(r, e) = Append(Local(r, e), Order[e[1]])
    BY <1>2, PublicIdFacts
  <2>2. PublicId(r, f) = Append(Local(r, f), Order[f[1]])
    BY <1>2, PublicIdFacts
  <2> QED
    BY <2>1, <2>2
<1> QED
  BY <1>1, <1>2

Indexed == IsIndex(raw, public, byPublic)

LEMMA ListingHolds == ASSUME Indexed PROVE ListingMatchesLookup
<1>1. IsIndex(raw, public, byPublic) /\ raw \in [Providers -> Answer]
  BY DEF Indexed, IsIndex
<1>2. ASSUME NEW p \in Providers, NEW q \in Providers,
             NEW j \in 1..Len(public[p]), NEW k \in 1..Len(public[q]),
             public[p][j].id = public[q][k].id
      PROVE  p = q /\ j = k
  <2>1. PICK m \in 1..Len(raw[p]) :
          /\ <<Place(p), m>> \in Entries(raw) /\ Kept(raw, <<Place(p), m>>)
          /\ public[p][j].id = PublicId(raw, <<Place(p), m>>)
          /\ \A l \in 1..Len(public[p]) :
               public[p][l].id = PublicId(raw, <<Place(p), m>>) => l = j
    <3>1. \A i \in 1..Len(public[p]) : \E m \in 1..Len(raw[p]) :
            /\ <<Place(p), m>> \in Entries(raw) /\ Kept(raw, <<Place(p), m>>)
            /\ public[p][i].id = PublicId(raw, <<Place(p), m>>)
            /\ public[p][i].tags = raw[p][m].tags
            /\ \A l \in 1..Len(public[p]) :
                 public[p][l].id = PublicId(raw, <<Place(p), m>>) => l = i
      BY <1>1, ListTells, Zenon
    <3> QED
      BY <3>1, Zenon
  <2>2. PICK n \in 1..Len(raw[q]) :
          /\ <<Place(q), n>> \in Entries(raw) /\ Kept(raw, <<Place(q), n>>)
          /\ public[q][k].id = PublicId(raw, <<Place(q), n>>)
    BY <1>1, ListTells
  <2>3. <<Place(p), m>> = <<Place(q), n>>
    BY <1>1, <1>2, <2>1, <2>2, KeptOnce
  <2>4. p = q
    BY <2>3, ProviderPlaces
  <2>5. j = k
    BY <1>2, <2>1, <2>4
  <2> QED
    BY <2>4, <2>5
<1>3. ASSUME NEW u \in PublicIds, u \in DOMAIN byPublic
      PROVE  \E p \in Providers : \E j \in 1..Len(public[p]) : public[p][j].id = u
  <2>1. PICK e \in Entries(raw) : Kept(raw, e) /\ PublicId(raw, e) = u
    BY <1>1, <1>3, IndexTells
  <2>2. /\ e[1] \in 1..Len(Order) /\ e[2] \in 1..Len(raw[Order[e[1]]])
        /\ e = <<e[1], e[2]>> /\ Order[e[1]] \in Providers /\ Place(Order[e[1]]) = e[1]
    BY <1>1, EntryFacts, ProviderPlaces
  <2>3. \E j \in 1..Len(public[Order[e[1]]]) : public[Order[e[1]]][j].id = u
    BY <1>1, <2>1, <2>2, ListTells
  <2> QED
    BY <2>2, <2>3
<1>4. ASSUME NEW p \in Providers, NEW j \in 1..Len(public[p])
      PROVE  public[p][j].id \in DOMAIN byPublic /\ ProviderFor(public[p][j].id) = p
  <2>1. PICK m \in 1..Len(raw[p]) :
          /\ <<Place(p), m>> \in Entries(raw) /\ Kept(raw, <<Place(p), m>>)
          /\ public[p][j].id = PublicId(raw, <<Place(p), m>>)
    <3>1. \E m \in 1..Len(raw[p]) :
            /\ <<Place(p), m>> \in Entries(raw) /\ Kept(raw, <<Place(p), m>>)
            /\ public[p][j].id = PublicId(raw, <<Place(p), m>>)
            /\ public[p][j].tags = raw[p][m].tags
      BY <1>1, ListEntry
    <3> QED
      BY <3>1
  <2>2. byPublic[public[p][j].id] = <<Order[Place(p)], Local(raw, <<Place(p), m>>)>>
    BY <1>1, <2>1, IndexTells
  <2> QED
    BY <1>1, <2>1, <2>2, IndexTells, ProviderPlaces DEF ProviderFor
<1>5. ASSUME NEW u \in DOMAIN byPublic
      PROVE  \E k \in DOMAIN raw[ProviderFor(u)] :
               raw[ProviderFor(u)][k].id = LocalIdFor(u)
  <2>1. PICK e \in Entries(raw) : byPublic[u] = <<Order[e[1]], Local(raw, e)>>
    BY <1>1, IndexTells
  <2>2. e[2] \in 1..Len(raw[Order[e[1]]]) /\ raw[Order[e[1]]] \in Answer
    BY <1>1, EntryFacts
  <2>3. e[2] \in DOMAIN raw[Order[e[1]]]
    BY <2>2 DEF Answer
  <2> QED
    BY <2>1, <2>3 DEF ProviderFor, LocalIdFor, Local
<1>6. ASSUME NEW u \in DOMAIN byPublic, NEW v \in DOMAIN byPublic,
             byPublic[u] = byPublic[v]
      PROVE  u = v
  <2>1. PICK e \in Entries(raw) : PublicId(raw, e) = u
                                  /\ byPublic[u] = <<Order[e[1]], Local(raw, e)>>
    BY <1>1, IndexTells
  <2>2. PICK f \in Entries(raw) : PublicId(raw, f) = v
                                  /\ byPublic[v] = <<Order[f[1]], Local(raw, f)>>
    BY <1>1, IndexTells
  <2>3. Order[e[1]] = Order[f[1]] /\ Local(raw, e) = Local(raw, f)
    <3>1. <<Order[e[1]], Local(raw, e)>> = <<Order[f[1]], Local(raw, f)>>
      BY <1>6, <2>1, <2>2, Zenon
    <3> QED
      BY <3>1
  <2> QED
    BY <1>1, <2>1, <2>2, <2>3, SameVoice
<1> QED
  BY <1>2, <1>3, <1>4, <1>5, <1>6 DEF ListingMatchesLookup

(* Where no id ends in a provider's name, an id tells the voice.             *)
LEMMA BareIsNotSuffixed ==
  ASSUME NEW r \in [Providers -> Answer], Plain(r),
         NEW e \in Entries(r), NEW f \in Entries(r)
  PROVE  Local(r, e) # Append(Local(r, f), Order[f[1]])
<1>1. Local(r, f) \in Ids /\ Order[f[1]] \in Providers
  BY EntryFacts
<1>2. \A p \in Providers, id \in Ids : Local(r, e) # Append(id, p)
  BY DEF Plain
<1> QED
  BY <1>1, <1>2, Zenon

LEMMA PlainEntries ==
  ASSUME NEW r \in [Providers -> Answer], Plain(r), NEW e \in Entries(r),
         NEW f \in Entries(r), PublicId(r, e) = PublicId(r, f)
  PROVE  Order[e[1]] = Order[f[1]] /\ Local(r, e) = Local(r, f)
<1>1. CASE PublicId(r, e) = Local(r, e) /\ PublicId(r, f) = Local(r, f)
  <2>1. Local(r, e) = Local(r, f)
    BY <1>1
  <2>2. CASE e = f
    BY <2>2
  <2>3. CASE e # f
    <3>1. Local(r, e) # Append(Local(r, e), Order[e[1]])
      BY BareIsNotSuffixed
    <3>2. PublicId(r, e) # Append(Local(r, e), Order[e[1]])
      BY <1>1, <3>1
    <3>3. \A d \in Entries(r) : Local(r, d) = Local(r, e) => d = e
      BY <3>2, PublicIdFacts
    <3> QED
      BY <2>1, <2>3, <3>3
  <2> QED
    BY <2>2, <2>3
<1>2. CASE PublicId(r, e) = Local(r, e) /\ PublicId(r, f) = Append(Local(r, f), Order[f[1]])
  BY <1>2, BareIsNotSuffixed
<1>3. CASE PublicId(r, e) = Append(Local(r, e), Order[e[1]]) /\ PublicId(r, f) = Local(r, f)
  BY <1>3, BareIsNotSuffixed
<1>4. CASE /\ PublicId(r, e) = Append(Local(r, e), Order[e[1]])
           /\ PublicId(r, f) = Append(Local(r, f), Order[f[1]])
  <2>1. /\ Local(r, e) \in Ids /\ Order[e[1]] \in Providers
        /\ Local(r, f) \in Ids /\ Order[f[1]] \in Providers
    BY EntryFacts
  <2>2. Append(Local(r, e), Order[e[1]]) = Append(Local(r, f), Order[f[1]])
    BY <1>4, Zenon
  <2> QED
    BY <2>1, <2>2, SuffixTells
<1>5. PublicId(r, e) = Local(r, e) \/ PublicId(r, e) = Append(Local(r, e), Order[e[1]])
  BY PublicIdFacts
<1>6. PublicId(r, f) = Local(r, f) \/ PublicId(r, f) = Append(Local(r, f), Order[f[1]])
  BY PublicIdFacts
<1> QED
  BY <1>1, <1>2, <1>3, <1>4, <1>5, <1>6, Zenon

LEMMA PlainLeads ==
  ASSUME NEW r, NEW pub, NEW by, IsIndex(r, pub, by), Plain(r), NEW e \in Entries(r)
  PROVE  PublicId(r, e) \in DOMAIN by
         /\ by[PublicId(r, e)] = <<Order[e[1]], Local(r, e)>>
<1>1. r \in [Providers -> Answer] /\ PublicId(r, e) \in DOMAIN by
  BY IndexTells DEF IsIndex
<1>2. PICK f \in Entries(r) : /\ PublicId(r, f) = PublicId(r, e)
                              /\ by[PublicId(r, e)] = <<Order[f[1]], Local(r, f)>>
  BY <1>1, IndexTells
<1>3. Order[e[1]] = Order[f[1]] /\ Local(r, e) = Local(r, f)
  BY <1>1, <1>2, PlainEntries
<1> QED
  BY <1>1, <1>2, <1>3

LEMMA NoneLost == ASSUME Indexed PROVE NoVoiceLost
<1>1. IsIndex(raw, public, byPublic) /\ raw \in [Providers -> Answer]
  BY DEF Indexed, IsIndex
<1>2. SUFFICES ASSUME Plain(raw)
               PROVE  /\ \A e \in Entries(raw) : \E u \in DOMAIN byPublic :
                           byPublic[u] = <<Order[e[1]], Local(raw, e)>>
                      /\ \A e, f \in Entries(raw) :
                           Local(raw, e) = Local(raw, f) /\ e # f
                             => Local(raw, e) \notin DOMAIN byPublic
  BY DEF NoVoiceLost
<1>3. ASSUME NEW e \in Entries(raw)
      PROVE  \E u \in DOMAIN byPublic : byPublic[u] = <<Order[e[1]], Local(raw, e)>>
  <2>1. PublicId(raw, e) \in DOMAIN byPublic
        /\ byPublic[PublicId(raw, e)] = <<Order[e[1]], Local(raw, e)>>
    BY <1>1, <1>2, PlainLeads
  <2> QED
    BY <2>1
<1>4. ASSUME NEW e \in Entries(raw), NEW f \in Entries(raw),
             Local(raw, e) = Local(raw, f), e # f, Local(raw, e) \in DOMAIN byPublic
      PROVE  FALSE
  <2>1. PICK g \in Entries(raw) : PublicId(raw, g) = Local(raw, e)
    BY <1>1, <1>4, IndexTells
  <2>2. PublicId(raw, g) # Append(Local(raw, g), Order[g[1]])
    BY <1>1, <1>2, <2>1, BareIsNotSuffixed
  <2>3. /\ PublicId(raw, g) = Local(raw, g)
        /\ \A d \in Entries(raw) : Local(raw, d) = Local(raw, g) => d = g
    BY <1>1, <2>2, PublicIdFacts
  <2>4. Local(raw, g) = Local(raw, e)
    BY <2>1, <2>3
  <2> QED
    BY <1>4, <2>3, <2>4
<1> QED
  BY <1>3, <1>4

(* An id that two indexes have leads to the same voice in the second, when   *)
(* the second still has that voice.                                          *)
LEMMA SameId ==
  ASSUME NEW r, NEW pub, NEW by, IsIndex(r, pub, by),
         NEW s, NEW list, NEW to, IsIndex(s, list, to), Plain(s),
         NEW u \in DOMAIN by \cap DOMAIN to,
         \E k \in DOMAIN s[by[u][1]] : s[by[u][1]][k].id = by[u][2]
  PROVE  to[u] = by[u]
<1>1. r \in [Providers -> Answer] /\ s \in [Providers -> Answer]
  BY DEF IsIndex
<1>2. PICK e \in Entries(r) : PublicId(r, e) = u /\ by[u] = <<Order[e[1]], Local(r, e)>>
  <2>1. u \in DOMAIN by
    OBVIOUS
  <2> QED
    BY <2>1, IndexTells
<1>3. PICK f \in Entries(s) : PublicId(s, f) = u /\ to[u] = <<Order[f[1]], Local(s, f)>>
  <2>1. u \in DOMAIN to
    OBVIOUS
  <2> QED
    BY <2>1, IndexTells
<1> DEFINE p == Order[e[1]]
           id == Local(r, e)
<1>4. /\ p \in Providers /\ id \in Ids /\ Place(p) \in 1..Len(Order)
      /\ Order[Place(p)] = p /\ Order[f[1]] \in Providers /\ Local(s, f) \in Ids
  BY <1>1, EntryFacts, ProviderPlaces
<1>5. by[u][1] = p /\ by[u][2] = id
  BY <1>2
<1>6. PICK k \in DOMAIN s[p] : s[p][k].id = id
  BY <1>5
<1>7. PICK g \in Entries(s) : Order[g[1]] = p /\ Local(s, g) = id
  <2>1. k \in 1..Len(s[p])
    BY <1>1, <1>4, <1>6 DEF Answer
  <2>2. <<Place(p), k>> \in Entries(s)
    BY <1>1, <1>4, <2>1, EntryFacts
  <2>3. Local(s, <<Place(p), k>>) = s[Order[Place(p)]][k].id
    BY DEF Local
  <2>4. Order[<<Place(p), k>>[1]] = p
    BY <1>4
  <2> QED
    BY <1>4, <1>6, <2>2, <2>3, <2>4
<1>8. u = id \/ u = Append(id, p)
  BY <1>1, <1>2, PublicIdFacts
<1>9. \/ /\ u = Local(s, f)
         /\ \A d \in Entries(s) : Local(s, d) = Local(s, f) => d = f
      \/ u = Append(Local(s, f), Order[f[1]])
  BY <1>1, <1>3, PublicIdFacts
<1> HIDE DEF p, id
<1>10. CASE u = id
  <2>1. Local(s, g) # Append(Local(s, f), Order[f[1]])
    BY <1>1, BareIsNotSuffixed
  <2>2. u = Local(s, f) /\ \A d \in Entries(s) : Local(s, d) = Local(s, f) => d = f
    BY <1>7, <1>9, <1>10, <2>1, Zenon
  <2>3. g = f
    BY <1>7, <1>10, <2>2
  <2> QED
    BY <1>2, <1>3, <1>7, <2>3 DEF p, id
<1>11. CASE u = Append(id, p)
  <2>1. Local(s, f) # Append(Local(s, g), Order[g[1]])
    BY <1>1, BareIsNotSuffixed
  <2>2. Append(Local(s, f), Order[f[1]]) = Append(id, p)
    BY <1>7, <1>9, <1>11, <2>1, Zenon
  <2>3. Local(s, f) = id /\ Order[f[1]] = p
    BY <1>4, <2>2, SuffixTells
  <2> QED
    BY <1>2, <1>3, <2>3 DEF p, id
<1> QED
  BY <1>8, <1>10, <1>11

-----------------------------------------------------------------------------
(* What a provider announces                                                 *)

LEMMA Presented ==
  ASSUME NEW p \in Providers
  PROVE  /\ Presets(p) \in Answer /\ Len(Presets(p)) \in Nat
         /\ Built[p] \in Seq(Ids) /\ Len(Built[p]) = Len(Presets(p))
         /\ \A k \in 1..Len(Presets(p)) :
              Presets(p)[k].id = Built[p][k] /\ Presets(p)[k].tags = <<"en">>
<1> DEFINE b == Built[p]
<1>1. b \in Seq(Ids) /\ Len(b) \in Nat /\ DOMAIN b = 1..Len(b)
  BY CatalogueAssumption
<1>2. \A k \in 1..Len(b) : b[k] \in Ids
  BY <1>1
<1> DEFINE s == [k \in 1..Len(b) |-> [id |-> b[k], tags |-> <<"en">>]]
<1>3. <<"en">> \in Tags
  BY DEF Tags
<1>4. s \in [1..Len(b) -> Voice]
  BY <1>2, <1>3, Zenon DEF Voice
<1>5. \A k \in 1..Len(b) : s[k].id = b[k] /\ s[k].tags = <<"en">>
  OBVIOUS
<1>6. Presets(p) = s
  BY <1>1, Zenon DEF Presets
<1> HIDE DEF s, b
<1>7. s \in Seq(Voice) /\ Len(s) = Len(b)
  BY <1>1, <1>4
<1> QED
  BY <1>1, <1>5, <1>6, <1>7 DEF Answer, b

Taken(p, dir) == {k \in DOMAIN ClipOrder : ClipOrder[k] \in dir /\ Takes(p, ClipOrder[k])}

(* The clips of a scan, in the order of their names                          *)
Scans(g, s, p, dir) ==
  /\ g \in [1..Len(s) -> Taken(p, dir)]
  /\ \A i, j \in 1..Len(s) : i < j => g[i] < g[j]
  /\ \A n \in Taken(p, dir) : \E i \in 1..Len(s) : g[i] = n
  /\ \A i \in 1..Len(s) :
       s[i].id = ClipOrder[g[i]].id /\ s[i].tags = <<ClipOrder[g[i]].lang>>

LEMMA Scanned ==
  ASSUME NEW p \in Providers, NEW dir \in SUBSET Clips
  PROVE  /\ ScanVoices(p, dir) \in Answer /\ Len(ScanVoices(p, dir)) \in Nat
         /\ \E g : Scans(g, ScanVoices(p, dir), p, dir)
<1> DEFINE c == Picked(ClipOrder, Taken(p, dir))
           s == [k \in 1..Len(c) |-> [id |-> c[k].id, tags |-> <<c[k].lang>>]]
<1>1. ClipOrder \in Seq(Clips) /\ DOMAIN ClipOrder = 1..Len(ClipOrder)
  BY VoiceFilesAssumption
<1>2. c \in Seq(Clips) /\ \E g : Enumerates(g, c, ClipOrder, Taken(p, dir))
  BY <1>1, PickedType, PickedPlaces
<1>3. PICK g : Enumerates(g, c, ClipOrder, Taken(p, dir))
  BY <1>2
<1>4. ScanVoices(p, dir) = [k \in DOMAIN c |-> [id |-> c[k].id, tags |-> <<c[k].lang>>]]
  BY Zenon DEF ScanVoices, Taken
<1> HIDE DEF c
<1>5. Len(c) \in Nat /\ DOMAIN c = 1..Len(c) /\ \A k \in 1..Len(c) : c[k] \in Clips
  BY <1>2
<1>6. ScanVoices(p, dir) = s
  BY <1>4, <1>5
<1>7. \A k \in 1..Len(c) : c[k].id \in Ids /\ <<c[k].lang>> \in Tags
  <2>1. \A k \in 1..Len(c) : c[k].id \in Ids
    BY <1>5, CatalogueAssumption
  <2>2. \A k \in 1..Len(c) : <<c[k].lang>> \in Tags
    BY <1>5 DEF Tags
  <2> QED
    BY <2>1, <2>2
<1>8. s \in [1..Len(c) -> Voice]
  BY <1>7, Zenon DEF Voice
<1>9. \A k \in 1..Len(c) : s[k].id = c[k].id /\ s[k].tags = <<c[k].lang>>
  OBVIOUS
<1> HIDE DEF s
<1>10. s \in Seq(Voice) /\ Len(s) = Len(c)
  BY <1>5, <1>8
<1>11. \A n : n \in Taken(p, dir) => n \in 1..Len(ClipOrder)
  BY <1>1 DEF Taken
<1>12. g \in [1..Len(c) -> Taken(p, dir)]
  BY <1>3 DEF Enumerates
<1>13. /\ \A i, j \in 1..Len(c) : i < j => g[i] < g[j]
       /\ \A i \in 1..Len(c) : c[i] = ClipOrder[g[i]]
  BY <1>3 DEF Enumerates
<1>14. \A n \in Taken(p, dir) : \E i \in 1..Len(c) : g[i] = n
  BY <1>3, <1>11 DEF Enumerates
<1>15. Scans(g, s, p, dir)
  BY <1>9, <1>10, <1>12, <1>13, <1>14 DEF Scans
<1> QED
  BY <1>5, <1>6, <1>10, <1>15 DEF Answer

(* One voice for each id, described by the last that has it                  *)
LEMMA ListedOnce ==
  ASSUME NEW found \in Seq(Voice)
  PROVE  /\ ListDict(found) \in Seq(Voice) /\ Len(ListDict(found)) \in Nat
         /\ \A j \in 1..Len(ListDict(found)) : \E m \in 1..Len(found) :
              /\ ListDict(found)[j] = found[m]
              /\ \A l \in 1..Len(found) : found[l].id = found[m].id => l <= m
         /\ \A k \in 1..Len(found) : \E j \in 1..Len(ListDict(found)) :
              ListDict(found)[j].id = found[k].id
<1> DEFINE IsLast(m, id) == /\ m \in DOMAIN found /\ found[m].id = id
                            /\ \A l \in DOMAIN found : found[l].id = id => l <= m
           last(id) == CHOOSE k \in DOMAIN found : found[k].id = id
                         /\ \A l \in DOMAIN found : found[l].id = id => l <= k
           fresh == {k \in DOMAIN found : \A l \in 1..(k - 1) : found[l].id # found[k].id}
           t == [k \in DOMAIN found |-> found[last(found[k].id)]]
<1>1. /\ Len(found) \in Nat /\ DOMAIN found = 1..Len(found)
      /\ \A k \in 1..Len(found) : found[k] \in Voice
  OBVIOUS
<1>2. ASSUME NEW k \in 1..Len(found) PROVE IsLast(last(found[k].id), found[k].id)
  <2> DEFINE A == {l \in 1..Len(found) : found[l].id = found[k].id}
  <2>1. A \in SUBSET Nat /\ A # {} /\ \A l \in A : l <= Len(found)
    BY <1>1
  <2>2. PICK m \in A : \A l \in A : m >= l
    <3> HIDE DEF A
    <3> QED
      BY <1>1, <2>1, GreatestMember
  <2>3. IsLast(m, found[k].id)
    <3>1. \A l \in A : l <= m
      BY <2>1, <2>2
    <3> QED
      BY <1>1, <3>1
  <2> QED
    BY <2>3, Zenon
<1>3. ListDict(found) = Picked(t, fresh)
  BY Zenon DEF ListDict
<1>4. \A k \in 1..Len(found) : t[k] = found[last(found[k].id)]
  BY <1>1
<1>5. DOMAIN t = 1..Len(found)
  BY <1>1
<1> DEFINE mm == [k \in 1..Len(found) |-> last(found[k].id)]
<1>6. \A k \in 1..Len(found) : IsLast(mm[k], found[k].id) /\ t[k] = found[mm[k]]
  BY <1>2, <1>4
<1>7. t = [k \in 1..Len(found) |-> t[k]]
  BY <1>1
<1> HIDE DEF t, last, mm
<1>8. \A k \in 1..Len(found) :
        /\ mm[k] \in 1..Len(found) /\ found[mm[k]].id = found[k].id
        /\ \A l \in 1..Len(found) : found[l].id = found[k].id => l <= mm[k]
  BY <1>1, <1>6
<1>9. t \in Seq(Voice) /\ Len(t) = Len(found)
  <2>1. \A k \in 1..Len(found) : t[k] \in Voice
    BY <1>1, <1>6, <1>8
  <2>2. t \in [1..Len(found) -> Voice]
    BY <1>7, <2>1
  <2> QED
    BY <1>1, <2>2
<1>10. ListDict(found) \in Seq(Voice)
  BY <1>3, <1>9, PickedType
<1>11. PICK g : Enumerates(g, ListDict(found), t, fresh)
  BY <1>3, <1>9, PickedPlaces
<1> DEFINE d == ListDict(found)
<1>12. Len(d) \in Nat
  BY <1>10
<1>13. \A j \in 1..Len(d) : g[j] \in 1..Len(found) /\ d[j] = t[g[j]]
  BY <1>9, <1>11 DEF Enumerates
<1>14. ASSUME NEW j \in 1..Len(d)
       PROVE  \E m \in 1..Len(found) :
                /\ d[j] = found[m]
                /\ \A l \in 1..Len(found) : found[l].id = found[m].id => l <= m
  <2>1. d[j] = found[mm[g[j]]] /\ mm[g[j]] \in 1..Len(found)
    BY <1>6, <1>8, <1>13
  <2>2. \A l \in 1..Len(found) : found[l].id = found[mm[g[j]]].id => l <= mm[g[j]]
    BY <1>8, <1>13
  <2> QED
    BY <2>1, <2>2
<1>15. ASSUME NEW k \in 1..Len(found)
       PROVE  \E j \in 1..Len(d) : d[j].id = found[k].id
  <2> DEFINE A == {l \in 1..Len(found) : found[l].id = found[k].id}
  <2>1. A \in SUBSET Nat /\ A # {}
    BY <1>1
  <2>2. PICK m \in A : \A l \in A : m <= l
    <3> HIDE DEF A
    <3> QED
      BY <2>1, LeastMember
  <2>3. m \in 1..Len(found) /\ found[m].id = found[k].id
    BY <2>2
  <2>4. m \in fresh
    <3>1. ASSUME NEW l \in 1..(m - 1) PROVE found[l].id # found[m].id
      <4>1. l \in 1..Len(found) /\ ~(m <= l)
        BY <1>1, <2>3
      <4> QED
        BY <2>2, <2>3, <4>1
    <3> QED
      BY <1>1, <2>3, <3>1
  <2> HIDE DEF fresh, A
  <2>5. PICK j \in 1..Len(d) : g[j] = m
    BY <1>9, <1>11, <2>3, <2>4 DEF Enumerates
  <2>6. d[j] = found[mm[m]]
    BY <1>6, <1>13, <2>3, <2>5
  <2> QED
    BY <1>8, <2>3, <2>6
<1> QED
  BY <1>10, <1>12, <1>14, <1>15

LEMMA ConcatFacts ==
  ASSUME NEW T, NEW s \in Seq(T), NEW t \in Seq(T)
  PROVE  /\ s \o t \in Seq(T) /\ Len(s \o t) = Len(s) + Len(t)
         /\ \A i \in 1..Len(s) : i \in 1..Len(s \o t) /\ (s \o t)[i] = s[i]
         /\ \A i \in 1..Len(t) : Len(s) + i \in 1..Len(s \o t)
                                 /\ (s \o t)[Len(s) + i] = t[i]
  OBVIOUS

(* A voice is the provider's own, or that of the last clip of its id.        *)
IsOwn(v, p, dir) ==
  /\ v.tags = <<"en">> /\ \E k \in 1..Len(Built[p]) : Built[p][k] = v.id
  /\ \A k \in Taken(p, dir) : ClipOrder[k].id # v.id

IsOfClip(v, p, dir) ==
  \E k \in Taken(p, dir) :
    /\ ClipOrder[k].id = v.id /\ v.tags = <<ClipOrder[k].lang>>
    /\ \A l \in Taken(p, dir) : ClipOrder[l].id = v.id => l <= k

LEMMA AnnouncedFacts ==
  ASSUME NEW p \in Providers, NEW dir \in SUBSET Clips
  PROVE  LET A == Announced(p, dir)
         IN /\ A \in Answer /\ Len(A) \in Nat
            /\ \A j \in 1..Len(A) : IsOwn(A[j], p, dir) \/ IsOfClip(A[j], p, dir)
            /\ \A k \in 1..Len(Built[p]) : \E j \in 1..Len(A) : A[j].id = Built[p][k]
            /\ \A k \in Taken(p, dir) : \E j \in 1..Len(A) : A[j].id = ClipOrder[k].id
<1> DEFINE a == Presets(p)
           b == ScanVoices(p, dir)
<1>1. a \in Seq(Voice) /\ b \in Seq(Voice) /\ Len(a) \in Nat /\ Len(b) \in Nat
  BY Presented, Scanned DEF Answer
<1>2. PICK g : Scans(g, b, p, dir)
  BY Scanned
<1>3. PICK f \in Seq(Voice) : f = a \o b
  BY <1>1, ConcatFacts, Zenon
<1>4. Len(f) = Len(a) + Len(b)
  BY <1>1, <1>3, ConcatFacts
<1>5. \A i \in 1..Len(a) : i \in 1..Len(f) /\ f[i] = a[i]
  BY <1>1, <1>3, ConcatFacts
<1>6. \A i \in 1..Len(b) : Len(a) + i \in 1..Len(f) /\ f[Len(a) + i] = b[i]
  BY <1>1, <1>3, ConcatFacts
<1>7. PICK A : A = ListDict(f)
  OBVIOUS
<1>8. Announced(p, dir) = A
  BY <1>3, <1>7, Zenon DEF Announced
<1>9. Len(Built[p]) = Len(a)
      /\ \A k \in 1..Len(a) : a[k].id = Built[p][k] /\ a[k].tags = <<"en">>
  BY Presented
<1> HIDE DEF a, b
<1>10. /\ A \in Seq(Voice) /\ Len(A) \in Nat
       /\ \A j \in 1..Len(A) : \E m \in 1..Len(f) :
            /\ A[j] = f[m] /\ \A l \in 1..Len(f) : f[l].id = f[m].id => l <= m
       /\ \A k \in 1..Len(f) : \E j \in 1..Len(A) : A[j].id = f[k].id
  BY <1>7, ListedOnce
<1>11. /\ \A i \in 1..Len(b) : g[i] \in Taken(p, dir) /\ b[i].id = ClipOrder[g[i]].id
                               /\ b[i].tags = <<ClipOrder[g[i]].lang>>
       /\ \A i, j \in 1..Len(b) : i < j => g[i] < g[j]
       /\ \A n \in Taken(p, dir) : \E i \in 1..Len(b) : g[i] = n
  BY <1>2 DEF Scans
<1>12. \A n \in Taken(p, dir) : n \in Nat
  BY VoiceFilesAssumption DEF Taken
<1>13. ASSUME NEW j \in 1..Len(A)
       PROVE  IsOwn(A[j], p, dir) \/ IsOfClip(A[j], p, dir)
  <2>1. PICK m \in 1..Len(f) :
          A[j] = f[m] /\ \A l \in 1..Len(f) : f[l].id = f[m].id => l <= m
    BY <1>10
  <2>2. CASE m \in 1..Len(a)
    <3>1. f[m].tags = <<"en">> /\ m \in 1..Len(Built[p]) /\ Built[p][m] = f[m].id
      BY <1>5, <1>9, <2>2
    <3>2. ASSUME NEW k \in Taken(p, dir), ClipOrder[k].id = f[m].id PROVE FALSE
      <4>1. PICK i \in 1..Len(b) : g[i] = k
        BY <1>11
      <4>2. Len(a) + i \in 1..Len(f) /\ f[Len(a) + i].id = f[m].id
        BY <1>6, <1>11, <3>2, <4>1
      <4>3. Len(a) + i <= m
        BY <2>1, <4>2
      <4> QED
        BY <1>1, <2>2, <4>3
    <3>3. IsOwn(f[m], p, dir)
      BY <3>1, <3>2 DEF IsOwn
    <3> QED
      BY <2>1, <3>3
  <2>3. CASE m \notin 1..Len(a)
    <3>1. PICK i \in 1..Len(b) : m = Len(a) + i
      <4>1. m - Len(a) \in 1..Len(b) /\ m = Len(a) + (m - Len(a))
        BY <1>1, <1>4, <2>3
      <4> QED
        BY <4>1
    <3>2. /\ g[i] \in Taken(p, dir) /\ ClipOrder[g[i]].id = f[m].id
          /\ f[m].tags = <<ClipOrder[g[i]].lang>>
      BY <1>6, <1>11, <3>1
    <3>3. ASSUME NEW n \in Taken(p, dir), ClipOrder[n].id = f[m].id PROVE n <= g[i]
      <4>1. PICK h \in 1..Len(b) : g[h] = n
        BY <1>11
      <4>2. Len(a) + h \in 1..Len(f) /\ f[Len(a) + h].id = f[m].id
        BY <1>6, <1>11, <3>3, <4>1
      <4>3. Len(a) + h <= Len(a) + i
        BY <2>1, <3>1, <4>2
      <4>4. h < i \/ h = i
        BY <1>1, <4>3
      <4>5. g[h] \in Nat /\ g[i] \in Nat
        BY <1>11, <1>12
      <4>6. g[h] < g[i] \/ g[h] = g[i]
        BY <1>11, <4>4
      <4> QED
        BY <4>1, <4>5, <4>6
    <3>4. IsOfClip(f[m], p, dir)
      BY <3>2, <3>3 DEF IsOfClip
    <3> QED
      BY <2>1, <3>4
  <2> QED
    BY <2>2, <2>3
<1>14. ASSUME NEW k \in 1..Len(Built[p])
       PROVE  \E j \in 1..Len(A) : A[j].id = Built[p][k]
  <2>1. k \in 1..Len(f) /\ f[k].id = Built[p][k]
    BY <1>5, <1>9
  <2> QED
    BY <1>10, <2>1
<1>15. ASSUME NEW k \in Taken(p, dir)
       PROVE  \E j \in 1..Len(A) : A[j].id = ClipOrder[k].id
  <2>1. PICK i \in 1..Len(b) : g[i] = k
    BY <1>11
  <2>2. Len(a) + i \in 1..Len(f) /\ f[Len(a) + i].id = ClipOrder[k].id
    BY <1>6, <1>11, <2>1
  <2> QED
    BY <1>10, <2>2
<1> QED
  BY <1>8, <1>10, <1>13, <1>14, <1>15 DEF Answer

-----------------------------------------------------------------------------
(* What the enumeration makes of an answer                                   *)

Allowed(p, id) == Allowlists[p] = {} \/ id \in Allowlists[p]

LEMMA Filtered ==
  ASSUME NEW p, NEW voices \in Answer
  PROVE  LET F == Filter(p, voices)
         IN /\ F \in Answer /\ Len(F) \in Nat
            /\ \A j \in 1..Len(F) : \E k \in 1..Len(voices) :
                 F[j] = voices[k] /\ Allowed(p, voices[k].id)
            /\ \A k \in 1..Len(voices) : Allowed(p, voices[k].id)
                 => \E j \in 1..Len(F) : F[j] = voices[k]
<1> DEFINE S == {k \in DOMAIN voices : Allowlists[p] = {} \/ voices[k].id \in Allowlists[p]}
<1>1. voices \in Seq(Voice) /\ DOMAIN voices = 1..Len(voices)
  BY DEF Answer
<1>2. \A k : k \in S <=> /\ k \in 1..Len(voices)
                         /\ Allowlists[p] = {} \/ voices[k].id \in Allowlists[p]
  BY <1>1
<1>3. PICK F : F = Picked(voices, S)
  OBVIOUS
<1>4. Filter(p, voices) = F
  BY <1>3, Zenon DEF Filter
<1> HIDE DEF S
<1>5. F \in Seq(Voice) /\ \E g : Enumerates(g, F, voices, S)
  BY <1>1, <1>3, PickedType, PickedPlaces
<1>6. PICK g : Enumerates(g, F, voices, S)
  BY <1>5
<1>7. \A j \in 1..Len(F) : g[j] \in S /\ g[j] \in 1..Len(voices) /\ F[j] = voices[g[j]]
  BY <1>6 DEF Enumerates
<1>8. \A n \in 1..Len(voices) : n \in S => \E j \in 1..Len(F) : g[j] = n
  BY <1>6 DEF Enumerates
<1>9. Len(F) \in Nat
  BY <1>5
<1>10. \A j \in 1..Len(F) : \E k \in 1..Len(voices) :
         F[j] = voices[k] /\ Allowed(p, voices[k].id)
  BY <1>2, <1>7 DEF Allowed
<1>11. \A k \in 1..Len(voices) : Allowed(p, voices[k].id)
         => \E j \in 1..Len(F) : F[j] = voices[k]
  BY <1>2, <1>7, <1>8 DEF Allowed
<1> QED
  BY <1>4, <1>5, <1>9, <1>10, <1>11 DEF Answer

LEMMA FilterKeeps ==
  ASSUME NEW p, NEW voices \in Answer, NEW k \in 1..Len(voices), Allowed(p, voices[k].id)
  PROVE  \E j \in 1..Len(Filter(p, voices)) : Filter(p, voices)[j] = voices[k]
  BY Filtered

Hits(p, id) == {k \in DOMAIN Locales[p] :
                  id \in Locales[p][k].ids /\ Locales[p][k].tags # <<>>}

(* The first override that matches and has tags wins.                        *)
LEMMA Overridden ==
  ASSUME NEW p \in Providers, NEW id
  PROVE  \/ Hits(p, id) = {} /\ Override(p, id) = <<>>
         \/ /\ Override(p, id) # <<>> /\ Override(p, id) \in Tags
            /\ \E k \in Hits(p, id) : /\ Override(p, id) = Locales[p][k].tags
                                      /\ \A l \in Hits(p, id) : k <= l
<1> DEFINE L == Locales[p]
           S == {k \in DOMAIN L : L[k].tags # <<>>}
           O == Picked(L, S)
           hits == {k \in DOMAIN O : id \in O[k].ids}
<1>1. L \in Seq(ToSet(L)) /\ DOMAIN L = 1..Len(L) /\ Len(L) \in Nat
  BY CatalogueAssumption
<1>2. \A k : k \in Hits(p, id) <=> k \in S /\ id \in L[k].ids
  BY DEF Hits
<1>3. \A k : k \in S <=> k \in 1..Len(L) /\ L[k].tags # <<>>
  BY <1>1
<1>4. Override(p, id) = IF hits = {} THEN <<>> ELSE O[Min(hits)].tags
  BY Zenon DEF Override, Overrides
<1>5. \A k \in DOMAIN L : L[k].tags \in Tags
  BY DEF Tags
<1> HIDE DEF L, S
<1>6. O \in Seq(ToSet(L)) /\ \E g : Enumerates(g, O, L, S)
  BY <1>1, PickedType, PickedPlaces
<1>7. PICK g : Enumerates(g, O, L, S)
  BY <1>6
<1>8. Len(O) \in Nat /\ DOMAIN O = 1..Len(O)
  BY <1>6
<1> HIDE DEF O
<1>9. /\ \A j \in 1..Len(O) : g[j] \in S /\ g[j] \in 1..Len(L) /\ O[j] = L[g[j]]
      /\ \A i, j \in 1..Len(O) : i < j => g[i] < g[j]
      /\ \A n \in 1..Len(L) : n \in S => \E j \in 1..Len(O) : g[j] = n
  BY <1>7 DEF Enumerates
<1>10. \A j : j \in hits <=> j \in 1..Len(O) /\ id \in O[j].ids
  BY <1>8
<1>11. CASE hits = {}
  <2>1. ASSUME NEW k \in Hits(p, id) PROVE FALSE
    <3>1. k \in S /\ k \in 1..Len(L) /\ id \in L[k].ids
      BY <1>2, <1>3
    <3>2. PICK j \in 1..Len(O) : g[j] = k
      BY <1>9, <3>1
    <3>3. j \in hits
      BY <1>9, <1>10, <3>1, <3>2
    <3> QED
      BY <1>11, <3>3
  <2> QED
    BY <1>4, <1>11, <2>1
<1>12. CASE hits # {}
  <2>1. \E m \in hits : \A l \in hits : m <= l
    <3>1. hits \in SUBSET Nat
      BY <1>8, <1>10
    <3> HIDE DEF hits
    <3> QED
      BY <1>12, <3>1, LeastMember
  <2>2. PICK m : m = Min(hits)
    OBVIOUS
  <2>3. m \in hits /\ \A l \in hits : m <= l
    <3> HIDE DEF hits
    <3>1. Min(hits) \in hits /\ \A l \in hits : Min(hits) <= l
      BY <2>1, Zenon DEF Min
    <3> QED
      BY <2>2, <3>1
  <2>4. Override(p, id) = O[m].tags
    BY <1>4, <1>12, <2>2
  <2>5. m \in 1..Len(O) /\ id \in O[m].ids
    BY <1>10, <2>3
  <2>6. g[m] \in S /\ g[m] \in 1..Len(L) /\ O[m] = L[g[m]]
    BY <1>9, <2>5
  <2>7. g[m] \in Hits(p, id)
    BY <1>2, <2>5, <2>6
  <2>8. ASSUME NEW l \in Hits(p, id) PROVE g[m] <= l
    <3>1. l \in S /\ l \in 1..Len(L) /\ id \in L[l].ids
      BY <1>2, <1>3
    <3>2. PICK j \in 1..Len(O) : g[j] = l
      BY <1>9, <3>1
    <3>3. j \in hits
      BY <1>9, <1>10, <3>1, <3>2
    <3>4. m < j \/ m = j
      BY <1>8, <2>3, <2>5, <3>2, <3>3
    <3>5. g[m] < g[j] \/ g[m] = g[j]
      BY <1>9, <2>5, <3>4
    <3> QED
      BY <1>1, <2>6, <3>1, <3>2, <3>5
  <2>9. Override(p, id) # <<>> /\ Override(p, id) \in Tags
    BY <1>1, <1>3, <1>5, <2>4, <2>6
  <2> QED
    BY <2>4, <2>6, <2>7, <2>8, <2>9 DEF L
<1> QED
  BY <1>11, <1>12

LEMMA Localized ==
  ASSUME NEW p \in Providers, NEW voices \in Answer
  PROVE  LET L == Localize(p, voices)
         IN /\ L \in Answer /\ Len(L) = Len(voices)
            /\ \A k \in 1..Len(voices) :
                 /\ L[k].id = voices[k].id
                 /\ IF Override(p, voices[k].id) = <<>> THEN L[k].tags = voices[k].tags
                    ELSE L[k].tags = Override(p, voices[k].id)
<1>1. /\ Len(voices) \in Nat /\ DOMAIN voices = 1..Len(voices)
      /\ \A k \in 1..Len(voices) : voices[k] \in Voice
  BY DEF Answer
<1>2. PICK L : L = Localize(p, voices)
  OBVIOUS
<1>3. L = [k \in 1..Len(voices) |->
             IF Override(p, voices[k].id) = <<>> THEN voices[k]
             ELSE [voices[k] EXCEPT !.tags = Override(p, voices[k].id)]]
  BY <1>1, <1>2, Zenon DEF Localize
<1>4. ASSUME NEW k \in 1..Len(voices)
      PROVE  /\ L[k] \in Voice /\ L[k].id = voices[k].id
             /\ IF Override(p, voices[k].id) = <<>> THEN L[k].tags = voices[k].tags
                ELSE L[k].tags = Override(p, voices[k].id)
  <2>1. voices[k] \in Voice
    BY <1>1
  <2>2. Override(p, voices[k].id) = <<>> \/ Override(p, voices[k].id) \in Tags
    BY Overridden
  <2>3. L[k] = IF Override(p, voices[k].id) = <<>> THEN voices[k]
               ELSE [voices[k] EXCEPT !.tags = Override(p, voices[k].id)]
    BY <1>3
  <2> QED
    BY <2>1, <2>2, <2>3 DEF Voice
<1>5. L \in [1..Len(voices) -> Voice]
  BY <1>3, <1>4
<1>6. L \in Seq(Voice) /\ Len(L) = Len(voices)
  BY <1>1, <1>5
<1> QED
  BY <1>2, <1>4, <1>6 DEF Answer

-----------------------------------------------------------------------------
(* The inductive invariant: the index is what the rebuild makes of the last  *)
(* answers, and what an active provider said is an answer too.  Without the  *)
(* second part a reused provider could put anything into the index.          *)

CatalogueInv ==
  /\ Indexed
  /\ dirs \in [Providers -> SUBSET Clips] /\ installed \in Installs
  /\ active = Nobody \/ (active.name \in installed /\ active.voices \in Answer)
  /\ edits \in 0..MaxEdits

LEMMA InstalledAreProviders == ASSUME CatalogueInv PROVE installed \subseteq Providers
  BY CatalogueAssumption DEF CatalogueInv

LEMMA EmptyIndex == ASSUME IndexInit PROVE Indexed
<1>1. raw \in [Providers -> Answer]
  <2>1. <<>> \in Answer
    BY DEF Answer
  <2> QED
    BY <2>1 DEF IndexInit
<1>2. ASSUME NEW p \in Providers PROVE PublicList(raw, Place(p)) = <<>>
  <2>1. Place(p) \in 1..Len(Order) /\ Len(raw[Order[Place(p)]]) = 0
    BY ProviderPlaces DEF IndexInit
  <2>2. PICK l : l = PublicList(raw, Place(p))
    OBVIOUS
  <2>3. l \in Seq(Listed) /\ \E g : g \in [1..Len(l) -> 1..0]
    BY <1>1, <2>1, <2>2, PublicListFacts DEF ListPlaces
  <2>4. Len(l) = 0
    <3>1. Len(l) \in Nat /\ (Len(l) # 0 => 1 \in 1..Len(l))
      BY <2>3
    <3> QED
      BY <2>3, <3>1
  <2>5. l = <<>>
    BY <2>3, <2>4
  <2> QED
    BY <2>2, <2>5
<1>3. Entries(raw) = {}
  <2>1. \A i \in 1..Len(Order) : DOMAIN raw[Order[i]] = {}
    BY ProviderPlaces DEF IndexInit
  <2> QED
    BY <2>1 DEF Entries
<1>4. public = [p \in Providers |-> PublicList(raw, Place(p))]
  BY <1>2 DEF IndexInit
<1>5. byPublic = [u \in {PublicId(raw, e) : e \in Entries(raw)} |-> Lookup(raw, u)]
  <2>1. {PublicId(raw, e) : e \in Entries(raw)} = {}
    BY <1>3
  <2> HIDE DEF Entries
  <2>2. [u \in {} |-> <<>>] = [u \in {} |-> Lookup(raw, u)]
    OBVIOUS
  <2> QED
    BY <2>1, <2>2 DEF IndexInit
<1> QED
  BY <1>1, <1>4, <1>5 DEF Indexed, IsIndex

Given(p) == IF Answers(p) THEN Localize(p, Filter(p, VoicesFrom(p))) ELSE <<>>

LEMMA GivenIsAnswer == ASSUME CatalogueInv, NEW p \in Providers PROVE Given(p) \in Answer
<1>1. VoicesFrom(p) \in Answer
  <2>1. dirs[p] \in SUBSET Clips
    BY DEF CatalogueInv
  <2>2. Announced(p, dirs[p]) \in Answer
    BY <2>1, AnnouncedFacts
  <2>3. CASE Reused(p)
    <3>1. active.voices \in Answer
      BY <2>3 DEF Reused, IsActive, CatalogueInv
    <3> QED
      BY <2>3, <3>1 DEF VoicesFrom
  <2> QED
    BY <2>2, <2>3 DEF VoicesFrom
<1>2. Filter(p, VoicesFrom(p)) \in Answer
  BY <1>1, Filtered
<1>3. Localize(p, Filter(p, VoicesFrom(p))) \in Answer
  BY <1>2, Localized
<1>4. <<>> \in Answer
  BY DEF Answer
<1> QED
  BY <1>3, <1>4 DEF Given

LEMMA EnumerateIndexes ==
  ASSUME CatalogueInv, Enumerate
  PROVE  Indexed' /\ raw' = [p \in Providers |-> Given(p)]
<1>1. raw' = [p \in Providers |-> Given(p)]
  BY Zenon DEF Enumerate, Populate, Given
<1>2. raw' \in [Providers -> Answer]
  BY <1>1, GivenIsAnswer
<1>3. /\ public' = [p \in Providers |-> PublicList(raw', Place(p))]
      /\ byPublic' = [u \in {PublicId(raw', e) : e \in Entries(raw')} |-> Lookup(raw', u)]
  BY Zenon DEF Enumerate, Populate, Rebuild
<1>4. IsIndex(raw', public', byPublic')
  BY <1>2, <1>3, Zenon DEF IsIndex
<1> QED
  BY <1>1, <1>4 DEF Indexed

LEMMA IndexStays == ASSUME Indexed, UNCHANGED indexVars PROVE Indexed'
<1>1. raw' = raw /\ public' = public /\ byPublic' = byPublic
  BY DEF indexVars
<1>2. IsIndex(raw', public', byPublic')
  BY <1>1 DEF Indexed
<1> QED
  BY <1>2 DEF Indexed

LEMMA CatalogueStep == ASSUME CatalogueInv, [Next]_vars PROVE CatalogueInv'
<1>1. ASSUME NEW p \in installed, Edit(p) PROVE CatalogueInv'
  <2>1. Indexed'
    BY <1>1, IndexStays DEF CatalogueInv, Edit
  <2>2. PICK c \in Clips : dirs' = [dirs EXCEPT ![p] = (@ \cup {c}) \ (@ \cap {c})]
    BY <1>1 DEF Edit
  <2>3. dirs \in [Providers -> SUBSET Clips] /\ p \in Providers
    BY InstalledAreProviders DEF CatalogueInv
  <2>4. dirs' \in [Providers -> SUBSET Clips]
    BY <2>2, <2>3
  <2>5. edits' \in 0..MaxEdits
    BY <1>1, CatalogueAssumption DEF Edit, CatalogueInv
  <2>6. installed' = installed /\ active' = active
    BY <1>1 DEF Edit
  <2> QED
    BY <2>1, <2>4, <2>5, <2>6 DEF CatalogueInv
<1>2. ASSUME NEW p \in installed, Spawn(p) PROVE CatalogueInv'
  <2>1. Indexed'
    BY <1>2, IndexStays DEF CatalogueInv, Spawn
  <2>2. p \in Providers /\ dirs[p] \in SUBSET Clips
    BY InstalledAreProviders DEF CatalogueInv
  <2>3. Announced(p, dirs[p]) \in Answer
    BY <2>2, AnnouncedFacts
  <2>4. active' = Nobody \/ active' = [name |-> p, voices |-> Announced(p, dirs[p])]
    BY <1>2 DEF Spawn
  <2>5. active' = Nobody \/ (active'.name \in installed /\ active'.voices \in Answer)
    BY <2>3, <2>4
  <2>6. dirs' = dirs /\ installed' = installed /\ edits' = edits
    BY <1>2 DEF Spawn
  <2> QED
    BY <2>1, <2>5, <2>6 DEF CatalogueInv
<1>3. ASSUME Shutdown PROVE CatalogueInv'
  <2>1. Indexed'
    BY <1>3, IndexStays DEF CatalogueInv, Shutdown
  <2> QED
    BY <1>3, <2>1 DEF CatalogueInv, Shutdown
<1>4. ASSUME Enumerate PROVE CatalogueInv'
  <2>1. Indexed'
    BY <1>4, EnumerateIndexes
  <2>2. active' \in {active, Nobody}
    BY <1>4 DEF Enumerate
  <2>3. dirs' = dirs /\ installed' = installed /\ edits' = edits
    BY <1>4 DEF Enumerate
  <2> QED
    BY <2>1, <2>2, <2>3 DEF CatalogueInv
<1>5. ASSUME UNCHANGED vars PROVE CatalogueInv'
  <2>1. Indexed'
    BY <1>5, IndexStays DEF CatalogueInv, vars
  <2>2. dirs' = dirs /\ installed' = installed /\ active' = active /\ edits' = edits
    BY <1>5 DEF vars
  <2> QED
    BY <2>1, <2>2 DEF CatalogueInv
<1> QED
  BY <1>1, <1>2, <1>3, <1>4, <1>5 DEF Next

(* The index is always what _rebuild makes of the providers' last answers,   *)
(* over every step of the catalogue (voice_index.py:76-126).                 *)
THEOREM CatalogueInvariant == Spec => []CatalogueInv
<1>1. Init => CatalogueInv
  <2>1. ASSUME Init PROVE CatalogueInv
    <3>1. Indexed
      BY <2>1, EmptyIndex DEF Init
    <3> QED
      BY <2>1, <3>1, CatalogueAssumption DEF Init, CatalogueInv
  <2> QED
    BY <2>1
<1>2. CatalogueInv /\ [Next]_vars => CatalogueInv'
  BY CatalogueStep
<1> QED
  BY <1>1, <1>2, PTL DEF Spec

(* The listing and the lookup always agree (voice_index.py:65-74,98-126).    *)
THEOREM ListingAgrees == Spec => []ListingMatchesLookup
<1>1. CatalogueInv => ListingMatchesLookup
  BY ListingHolds DEF CatalogueInv
<1> QED
  BY <1>1, CatalogueInvariant, PTL

(* Where no id ends in a provider's name, every voice of every provider has  *)
(* an id, and a bare id that two of them use leads nowhere (the docstring of *)
(* _rebuild, voice_index.py:87-89).                                          *)
THEOREM EveryVoiceListed == Spec => []NoVoiceLost
<1>1. CatalogueInv => NoVoiceLost
  BY NoneLost DEF CatalogueInv
<1> QED
  BY <1>1, CatalogueInvariant, PTL

(* An id that a client remembers is never given to another voice while its   *)
(* own is there (voice_index.py:41-44).                                      *)
THEOREM IdsStay == Spec => NoRerouting
<1> DEFINE A == \A u \in DOMAIN byPublic \cap DOMAIN byPublic' :
                  \/ byPublic'[u] = byPublic[u]
                  \/ ~Plain(raw) \/ ~Plain(raw')
                  \/ LocalIdFor(u) \notin
                       {raw'[ProviderFor(u)][k].id : k \in DOMAIN raw'[ProviderFor(u)]}
<1>1. CatalogueInv /\ CatalogueInv' => A
  <2>1. SUFFICES ASSUME CatalogueInv, CatalogueInv', Plain(raw'),
                        NEW u \in DOMAIN byPublic \cap DOMAIN byPublic',
                        LocalIdFor(u) \in {raw'[ProviderFor(u)][k].id :
                                             k \in DOMAIN raw'[ProviderFor(u)]}
                 PROVE  byPublic'[u] = byPublic[u]
    OBVIOUS
  <2>2. IsIndex(raw, public, byPublic) /\ IsIndex(raw', public', byPublic')
    BY <2>1 DEF CatalogueInv, Indexed
  <2>3. \E k \in DOMAIN raw'[byPublic[u][1]] :
          raw'[byPublic[u][1]][k].id = byPublic[u][2]
    BY <2>1 DEF LocalIdFor, ProviderFor
  <2> QED
    BY <2>1, <2>2, <2>3, SameId
<1>2. CatalogueInv /\ CatalogueInv' => [A]_indexVars
  BY <1>1
<1> QED
  BY <1>2, CatalogueInvariant, PTL DEF NoRerouting

-----------------------------------------------------------------------------
(* What a reload makes of the disk                                           *)

FromDir(p, dir) == Localize(p, Filter(p, Announced(p, dir)))

(* A provider that is asked afresh answers with what is in its directory.    *)
LEMMA ReadAfresh ==
  ASSUME CatalogueInv, Enumerate, NEW p \in installed, FromDisk(p)
  PROVE  raw'[p] = IF Readable(p, dirs[p]) THEN FromDir(p, dirs[p]) ELSE <<>>
<1>1. p \in Providers
  BY InstalledAreProviders
<1>2. ~Reused(p)
  <2>1. SUFFICES ASSUME Reused(p)
                 PROVE  IsActive(p) /\ \A q \in installed : \E i, j \in 1..Len(Order) :
                          i <= j /\ Order[i] = p /\ Order[j] = q
    BY DEF FromDisk
  <2>2. ASSUME NEW q \in installed
        PROVE  \E i, j \in 1..Len(Order) : i <= j /\ Order[i] = p /\ Order[j] = q
    <3>1. /\ Place(p) \in 1..Len(Order) /\ Order[Place(p)] = p
          /\ Place(q) \in 1..Len(Order) /\ Order[Place(q)] = q
      BY <1>1, InstalledAreProviders, ProviderPlaces
    <3>2. Place(p) <= Place(q)
      BY <2>1, <3>1 DEF Reused
    <3> QED
      BY <3>1, <3>2
  <2> QED
    BY <2>1, <2>2 DEF Reused
<1>3. raw'[p] = Given(p)
  BY <1>1, EnumerateIndexes
<1>4. VoicesFrom(p) = Announced(p, dirs[p])
  BY <1>2 DEF VoicesFrom
<1>5. Given(p) = IF Readable(p, dirs[p]) THEN Localize(p, Filter(p, VoicesFrom(p)))
                 ELSE <<>>
  BY <1>2 DEF Given, Answers
<1> QED
  BY <1>3, <1>4, <1>5 DEF FromDir

(* The answer has an allowed id for each clip taken and each built-in voice, *)
(* and no other, and its tags are those of an override, or the announced.    *)
LEMMA DirIds ==
  ASSUME NEW p \in Providers, NEW dir \in SUBSET Clips
  PROVE  LET V == FromDir(p, dir)
         IN /\ V \in Answer /\ Len(V) \in Nat
            /\ \A k \in 1..Len(V) :
                 /\ Allowed(p, V[k].id)
                 /\ \/ \E m \in 1..Len(Built[p]) : Built[p][m] = V[k].id
                    \/ \E m \in Taken(p, dir) : ClipOrder[m].id = V[k].id
            /\ \A m \in 1..Len(Built[p]) : Allowed(p, Built[p][m]) =>
                 \E k \in 1..Len(V) : V[k].id = Built[p][m]
            /\ \A m \in Taken(p, dir) : Allowed(p, ClipOrder[m].id) =>
                 \E k \in 1..Len(V) : V[k].id = ClipOrder[m].id
            /\ \A k \in 1..Len(V) :
                 \/ \E h \in Hits(p, V[k].id) :
                      /\ V[k].tags = Locales[p][h].tags
                      /\ \A l \in Hits(p, V[k].id) : h <= l
                 \/ /\ Hits(p, V[k].id) = {}
                    /\ IsOwn(V[k], p, dir) \/ IsOfClip(V[k], p, dir)
<1>1. PICK A : A = Announced(p, dir)
  OBVIOUS
<1>2. PICK F : F = Filter(p, A)
  OBVIOUS
<1>3. PICK V : V = Localize(p, F)
  OBVIOUS
<1>4. FromDir(p, dir) = V
  BY <1>1, <1>2, <1>3 DEF FromDir
<1>5. /\ A \in Answer /\ Len(A) \in Nat
      /\ \A j \in 1..Len(A) : IsOwn(A[j], p, dir) \/ IsOfClip(A[j], p, dir)
      /\ \A k \in 1..Len(Built[p]) : \E j \in 1..Len(A) : A[j].id = Built[p][k]
      /\ \A k \in Taken(p, dir) : \E j \in 1..Len(A) : A[j].id = ClipOrder[k].id
  BY <1>1, AnnouncedFacts
<1>6. /\ F \in Answer /\ Len(F) \in Nat
      /\ \A j \in 1..Len(F) : \E k \in 1..Len(A) : F[j] = A[k] /\ Allowed(p, A[k].id)
      /\ \A k \in 1..Len(A) : Allowed(p, A[k].id) => \E j \in 1..Len(F) : F[j] = A[k]
  <2>1. F \in Answer /\ Len(F) \in Nat
    BY <1>2, <1>5, Filtered, SMTT(30)
  <2>2. \A j \in 1..Len(F) : \E k \in 1..Len(A) : F[j] = A[k] /\ Allowed(p, A[k].id)
    BY <1>2, <1>5, Filtered, SMTT(30)
  <2>3. \A k \in 1..Len(A) : Allowed(p, A[k].id) => \E j \in 1..Len(F) : F[j] = A[k]
    BY <1>2, <1>5, FilterKeeps
  <2> QED
    BY <2>1, <2>2, <2>3, Zenon
<1>7. /\ V \in Answer /\ Len(V) = Len(F)
      /\ \A k \in 1..Len(F) :
           /\ V[k].id = F[k].id
           /\ IF Override(p, F[k].id) = <<>> THEN V[k].tags = F[k].tags
              ELSE V[k].tags = Override(p, F[k].id)
  BY <1>3, <1>6, Localized
<1>8. ASSUME NEW k \in 1..Len(V)
      PROVE  /\ Allowed(p, V[k].id)
             /\ \/ \E m \in 1..Len(Built[p]) : Built[p][m] = V[k].id
                \/ \E m \in Taken(p, dir) : ClipOrder[m].id = V[k].id
             /\ \/ \E h \in Hits(p, V[k].id) :
                     /\ V[k].tags = Locales[p][h].tags
                     /\ \A l \in Hits(p, V[k].id) : h <= l
                \/ /\ Hits(p, V[k].id) = {}
                   /\ IsOwn(V[k], p, dir) \/ IsOfClip(V[k], p, dir)
  <2>1. PICK m \in 1..Len(A) : F[k] = A[m] /\ Allowed(p, A[m].id)
    BY <1>6, <1>7
  <2>2. IsOwn(F[k], p, dir) \/ IsOfClip(F[k], p, dir)
    BY <1>5, <2>1
  <2>3. V[k].id = F[k].id
    BY <1>7
  <2>4. \/ \E n \in 1..Len(Built[p]) : Built[p][n] = V[k].id
        \/ \E n \in Taken(p, dir) : ClipOrder[n].id = V[k].id
    BY <2>2, <2>3 DEF IsOwn, IsOfClip
  <2>5. CASE Hits(p, F[k].id) = {} /\ Override(p, F[k].id) = <<>>
    <3>1. V[k].tags = F[k].tags
      BY <1>7, <2>5
    <3>2. IsOwn(V[k], p, dir) \/ IsOfClip(V[k], p, dir)
      BY <2>2, <2>3, <3>1 DEF IsOwn, IsOfClip
    <3> QED
      BY <2>1, <2>3, <2>4, <2>5, <3>2
  <2>6. CASE /\ Override(p, F[k].id) # <<>>
             /\ \E h \in Hits(p, F[k].id) : /\ Override(p, F[k].id) = Locales[p][h].tags
                                            /\ \A l \in Hits(p, F[k].id) : h <= l
    <3>1. V[k].tags = Override(p, F[k].id)
      BY <1>7, <2>6
    <3> QED
      BY <2>1, <2>3, <2>4, <2>6, <3>1
  <2> QED
    BY <2>5, <2>6, Overridden
<1>9. ASSUME NEW j \in 1..Len(A), Allowed(p, A[j].id)
      PROVE  \E k \in 1..Len(V) : V[k].id = A[j].id
  <2>1. PICK k \in 1..Len(F) : F[k] = A[j]
    BY <1>6, <1>9
  <2> QED
    BY <1>7, <2>1
<1>10. ASSUME NEW m \in 1..Len(Built[p]), Allowed(p, Built[p][m])
       PROVE  \E k \in 1..Len(V) : V[k].id = Built[p][m]
  <2>1. PICK j \in 1..Len(A) : A[j].id = Built[p][m]
    BY <1>5
  <2>2. Allowed(p, A[j].id)
    BY <1>10, <2>1
  <2> QED
    BY <1>9, <2>1, <2>2
<1>11. ASSUME NEW m \in Taken(p, dir), Allowed(p, ClipOrder[m].id)
       PROVE  \E k \in 1..Len(V) : V[k].id = ClipOrder[m].id
  <2>1. PICK j \in 1..Len(A) : A[j].id = ClipOrder[m].id
    BY <1>5
  <2>2. Allowed(p, A[j].id)
    BY <1>11, <2>1
  <2> QED
    BY <1>9, <2>1, <2>2
<1>12. V \in Answer /\ Len(V) \in Nat
  BY <1>6, <1>7
<1> QED
  BY <1>4, <1>8, <1>10, <1>11, <1>12

(* The same ids, as ReloadReadsDisk names them                               *)
LEMMA DirIdsAre ==
  ASSUME NEW p \in Providers, NEW dir \in SUBSET Clips
  PROVE  {FromDir(p, dir)[k].id : k \in DOMAIN FromDir(p, dir)}
           = {id \in {c.id : c \in {d \in dir : Takes(p, d)}} \cup ToSet(Built[p]) :
                Allowlists[p] = {} \/ id \in Allowlists[p]}
<1>1. PICK V : V = FromDir(p, dir)
  OBVIOUS
<1>2. /\ V \in Answer /\ Len(V) \in Nat
      /\ \A k \in 1..Len(V) :
           /\ Allowed(p, V[k].id)
           /\ \/ \E m \in 1..Len(Built[p]) : Built[p][m] = V[k].id
              \/ \E m \in Taken(p, dir) : ClipOrder[m].id = V[k].id
  BY <1>1, DirIds
<1>3. \A m \in 1..Len(Built[p]) : Allowed(p, Built[p][m]) =>
        \E k \in 1..Len(V) : V[k].id = Built[p][m]
  BY <1>1, DirIds
<1>4. \A m \in Taken(p, dir) : Allowed(p, ClipOrder[m].id) =>
        \E k \in 1..Len(V) : V[k].id = ClipOrder[m].id
  BY <1>1, DirIds
<1>5. DOMAIN V = 1..Len(V)
  BY <1>2 DEF Answer
<1>6. \A x : x \in ToSet(Built[p]) <=> \E m \in 1..Len(Built[p]) : Built[p][m] = x
  <2>1. DOMAIN Built[p] = 1..Len(Built[p])
    BY CatalogueAssumption
  <2> QED
    BY <2>1 DEF ToSet
<1>7. \A x : x \in {c.id : c \in {d \in dir : Takes(p, d)}}
              <=> \E m \in Taken(p, dir) : ClipOrder[m].id = x
  <2>1. ASSUME NEW c \in dir, Takes(p, c)
        PROVE  \E m \in Taken(p, dir) : ClipOrder[m] = c
    <3>1. PICK m \in DOMAIN ClipOrder : ClipOrder[m] = c
      BY DEF Clips, ToSet
    <3> QED
      BY <2>1, <3>1 DEF Taken
  <2>2. \A m \in Taken(p, dir) : ClipOrder[m] \in dir /\ Takes(p, ClipOrder[m])
    BY DEF Taken
  <2> QED
    BY <2>1, <2>2
<1> DEFINE Ids1 == {V[k].id : k \in DOMAIN V}
           Ids2 == {id \in {c.id : c \in {d \in dir : Takes(p, d)}} \cup ToSet(Built[p]) :
                      Allowlists[p] = {} \/ id \in Allowlists[p]}
<1>8. \A x : x \in Ids1 <=> \E k \in 1..Len(V) : V[k].id = x
  BY <1>5
<1>9. \A x : x \in Ids2 <=>
         /\ \/ \E m \in 1..Len(Built[p]) : Built[p][m] = x
            \/ \E m \in Taken(p, dir) : ClipOrder[m].id = x
         /\ Allowed(p, x)
  BY <1>6, <1>7 DEF Allowed
<1> HIDE DEF Ids1, Ids2
<1>10. ASSUME NEW x, x \in Ids1 PROVE x \in Ids2
  <2>1. PICK k \in 1..Len(V) : V[k].id = x
    BY <1>8, <1>10
  <2> QED
    BY <1>2, <1>9, <2>1
<1>11. ASSUME NEW x, x \in Ids2 PROVE x \in Ids1
  <2>1. \E k \in 1..Len(V) : V[k].id = x
    BY <1>3, <1>4, <1>9, <1>11
  <2> QED
    BY <1>8, <2>1
<1>12. Ids1 = Ids2
  BY <1>10, <1>11
<1> QED
  BY <1>1, <1>12 DEF Ids1, Ids2

(* Under plain ids, what leads to a provider is just what it answered with.  *)
LedTo(by, p)  == {by[u][2] : u \in {v \in DOMAIN by : by[v][1] = p}}
ToldBy(r, p) == {r[p][k].id : k \in DOMAIN r[p]}

LEMMA OfferedIds ==
  ASSUME NEW r, NEW pub, NEW by, IsIndex(r, pub, by), Plain(r), NEW p \in Providers
  PROVE  LedTo(by, p) = ToldBy(r, p)
<1>1. r \in [Providers -> Answer]
  BY DEF IsIndex
<1>2. r[p] \in Answer /\ DOMAIN r[p] = 1..Len(r[p])
  BY <1>1 DEF Answer
<1>3. ASSUME NEW u \in DOMAIN by, by[u][1] = p
      PROVE  \E k \in DOMAIN r[p] : r[p][k].id = by[u][2]
  <2>1. PICK e \in Entries(r) : by[u] = <<Order[e[1]], Local(r, e)>>
    BY IndexTells
  <2>2. Order[e[1]] = p /\ by[u][2] = Local(r, e)
    BY <1>3, <2>1
  <2>3. e[2] \in 1..Len(r[Order[e[1]]])
    BY <1>1, EntryFacts
  <2> QED
    BY <1>2, <2>2, <2>3 DEF Local
<1>4. ASSUME NEW k \in DOMAIN r[p]
      PROVE  \E u \in DOMAIN by : by[u][1] = p /\ by[u][2] = r[p][k].id
  <2>1. Place(p) \in 1..Len(Order) /\ Order[Place(p)] = p
    BY ProviderPlaces
  <2>2. PICK e : e = <<Place(p), k>>
    OBVIOUS
  <2>3. e \in Entries(r)
    BY <1>1, <1>2, <2>1, <2>2, EntryFacts
  <2>4. PublicId(r, e) \in DOMAIN by /\ by[PublicId(r, e)] = <<Order[e[1]], Local(r, e)>>
    BY <2>3, PlainLeads
  <2>5. Order[e[1]] = p /\ Local(r, e) = r[p][k].id
    BY <2>1, <2>2 DEF Local
  <2> QED
    BY <2>4, <2>5
<1> QED
  BY <1>3, <1>4 DEF LedTo, ToldBy

LEMMA ReloadStep ==
  ASSUME CatalogueInv, CatalogueInv', Enumerate, Plain(raw'),
         NEW p \in installed, FromDisk(p)
  PROVE  Offers(p)' = {id \in {c.id : c \in {d \in dirs[p] : Takes(p, d)}}
                                \cup ToSet(Built[p]) :
                         /\ Allowlists[p] = {} \/ id \in Allowlists[p]
                         /\ \A c \in dirs[p] : ~EndsScan(p, c)}
<1>1. p \in Providers /\ dirs[p] \in SUBSET Clips
  BY InstalledAreProviders DEF CatalogueInv
<1>2. IsIndex(raw', public', byPublic')
  BY DEF CatalogueInv, Indexed
<1>3. Offers(p)' = {raw'[p][k].id : k \in DOMAIN raw'[p]}
  <2>1. Offers(p)' = {byPublic'[u][2] : u \in {v \in DOMAIN byPublic' : byPublic'[v][1] = p}}
    BY DEF Offers
  <2>2. {byPublic'[u][2] : u \in {v \in DOMAIN byPublic' : byPublic'[v][1] = p}}
          = {raw'[p][k].id : k \in DOMAIN raw'[p]}
    <3>1. LedTo(byPublic', p) = ToldBy(raw', p)
      BY <1>1, <1>2, OfferedIds
    <3> QED
      BY <3>1, Zenon DEF LedTo, ToldBy
  <2> QED
    BY <2>1, <2>2, Zenon
<1>4. raw'[p] = IF Readable(p, dirs[p]) THEN FromDir(p, dirs[p]) ELSE <<>>
  BY ReadAfresh
<1>5. CASE Readable(p, dirs[p])
  <2>1. raw'[p] = FromDir(p, dirs[p])
    BY <1>4, <1>5
  <2>2. \A c \in dirs[p] : ~EndsScan(p, c)
    BY <1>5 DEF Readable
  <2>3. Offers(p)' = {FromDir(p, dirs[p])[k].id : k \in DOMAIN FromDir(p, dirs[p])}
    BY <1>3, <2>1, Zenon
  <2>4. {FromDir(p, dirs[p])[k].id : k \in DOMAIN FromDir(p, dirs[p])}
          = {id \in {c.id : c \in {d \in dirs[p] : Takes(p, d)}} \cup ToSet(Built[p]) :
               Allowlists[p] = {} \/ id \in Allowlists[p]}
    BY <1>1, DirIdsAre
  <2> DEFINE S == {c.id : c \in {d \in dirs[p] : Takes(p, d)}} \cup ToSet(Built[p])
  <2>5. Offers(p)' = {id \in S : Allowlists[p] = {} \/ id \in Allowlists[p]}
    BY <2>3, <2>4, Zenon
  <2> HIDE DEF S
  <2>6. Offers(p)' = {id \in S : /\ Allowlists[p] = {} \/ id \in Allowlists[p]
                                 /\ \A c \in dirs[p] : ~EndsScan(p, c)}
    BY <2>2, <2>5
  <2> QED
    BY <2>6, Zenon DEF S
<1>6. CASE ~Readable(p, dirs[p])
  <2>1. raw'[p] = <<>>
    BY <1>4, <1>6
  <2>2. Offers(p)' = {}
    BY <1>3, <2>1
  <2>3. ~(\A c \in dirs[p] : ~EndsScan(p, c))
    BY <1>6 DEF Readable
  <2> QED
    BY <2>2, <2>3
<1> QED
  BY <1>5, <1>6

(* After a reload clients can ask each provider for exactly the clips that   *)
(* are good for it and its own voices (supervisor.py:220-298, README.md:123).*)
THEOREM ReloadShowsDisk == Spec => ReloadReadsDisk
<1>1. CatalogueInv /\ CatalogueInv' =>
        (Enumerate /\ Plain(raw') =>
           \A p \in installed : FromDisk(p) =>
             Offers(p)' = {id \in {c.id : c \in {d \in dirs[p] : Takes(p, d)}}
                                    \cup ToSet(Built[p]) :
                             /\ Allowlists[p] = {} \/ id \in Allowlists[p]
                             /\ \A c \in dirs[p] : ~EndsScan(p, c)})
  BY ReloadStep
<1> QED
  BY <1>1, CatalogueInvariant, PTL DEF ReloadReadsDisk

(* The tags of a place in a public list, as TagsTellClip names them          *)
Clipped(p, id) == {k \in DOMAIN ClipOrder : ClipOrder[k].id = id
                     /\ ClipOrder[k] \in dirs[p] /\ Takes(p, ClipOrder[k])}

TagsTell(p, v, id) ==
  \/ \E k \in Hits(p, id) : v.tags = Locales[p][k].tags /\ \A l \in Hits(p, id) : k <= l
  \/ Hits(p, id) = {} /\ Clipped(p, id) = {} /\ v.tags = <<"en">>
  \/ Hits(p, id) = {} /\ \E k \in Clipped(p, id) :
       v.tags = <<ClipOrder[k].lang>> /\ \A l \in Clipped(p, id) : l <= k

LEMMA TagsStep ==
  ASSUME CatalogueInv, CatalogueInv', Enumerate, NEW p \in installed, FromDisk(p),
         NEW j \in DOMAIN public'[p]
  PROVE  TagsTell(p, public'[p][j], byPublic'[public'[p][j].id][2])
<1>1. p \in Providers /\ dirs[p] \in SUBSET Clips
  BY InstalledAreProviders DEF CatalogueInv
<1>2. IsIndex(raw', public', byPublic')
  BY DEF CatalogueInv, Indexed
<1>3. j \in 1..Len(public'[p])
  <2>1. public'[p] \in Seq(Listed)
    BY <1>1, <1>2, ListTells
  <2> QED
    BY <2>1
<1>4. PICK k \in 1..Len(raw'[p]) :
        /\ <<Place(p), k>> \in Entries(raw') /\ Kept(raw', <<Place(p), k>>)
        /\ public'[p][j].id = PublicId(raw', <<Place(p), k>>)
        /\ public'[p][j].tags = raw'[p][k].tags
  <2>1. \E k \in 1..Len(raw'[p]) :
          /\ <<Place(p), k>> \in Entries(raw') /\ Kept(raw', <<Place(p), k>>)
          /\ public'[p][j].id = PublicId(raw', <<Place(p), k>>)
          /\ public'[p][j].tags = raw'[p][k].tags
    BY <1>1, <1>2, <1>3, ListEntry
  <2> QED
    BY <2>1, Zenon
<1>5. byPublic'[public'[p][j].id][2] = raw'[p][k].id
  <2>1. byPublic'[PublicId(raw', <<Place(p), k>>)]
          = <<Order[Place(p)], Local(raw', <<Place(p), k>>)>>
    BY <1>2, <1>4, IndexTells
  <2>2. Local(raw', <<Place(p), k>>) = raw'[p][k].id
    BY <1>1, ProviderPlaces DEF Local
  <2> QED
    BY <1>4, <2>1, <2>2
<1>6. PICK V : V = FromDir(p, dirs[p])
  OBVIOUS
<1>7. raw'[p] = V
  <2>1. raw'[p] = IF Readable(p, dirs[p]) THEN V ELSE <<>>
    BY <1>6, ReadAfresh
  <2>2. raw'[p] # <<>>
    BY <1>4
  <2> QED
    BY <2>1, <2>2
<1>8. PICK w : w = V[k]
  OBVIOUS
<1>9. \/ \E h \in Hits(p, w.id) : /\ w.tags = Locales[p][h].tags
                                  /\ \A l \in Hits(p, w.id) : h <= l
      \/ /\ Hits(p, w.id) = {}
         /\ IsOwn(w, p, dirs[p]) \/ IsOfClip(w, p, dirs[p])
  <2>1. \A n \in 1..Len(V) :
          \/ \E h \in Hits(p, V[n].id) : /\ V[n].tags = Locales[p][h].tags
                                         /\ \A l \in Hits(p, V[n].id) : h <= l
          \/ /\ Hits(p, V[n].id) = {}
             /\ IsOwn(V[n], p, dirs[p]) \/ IsOfClip(V[n], p, dirs[p])
    BY <1>1, <1>6, DirIds
  <2> QED
    BY <1>4, <1>7, <1>8, <2>1
<1>10. public'[p][j].tags = w.tags /\ byPublic'[public'[p][j].id][2] = w.id
  BY <1>4, <1>5, <1>7, <1>8
<1>11. \A n : n \in Clipped(p, w.id) <=> n \in Taken(p, dirs[p]) /\ ClipOrder[n].id = w.id
  BY DEF Clipped, Taken
<1>12. TagsTell(p, w, w.id)
  <2>1. CASE \E h \in Hits(p, w.id) : /\ w.tags = Locales[p][h].tags
                                      /\ \A l \in Hits(p, w.id) : h <= l
    BY <2>1 DEF TagsTell
  <2>2. CASE Hits(p, w.id) = {} /\ IsOwn(w, p, dirs[p])
    <3>1. w.tags = <<"en">> /\ \A n \in Taken(p, dirs[p]) : ClipOrder[n].id # w.id
      BY <2>2 DEF IsOwn
    <3>2. Clipped(p, w.id) = {}
      BY <1>11, <3>1
    <3> QED
      BY <2>2, <3>1, <3>2 DEF TagsTell
  <2>3. CASE Hits(p, w.id) = {} /\ IsOfClip(w, p, dirs[p])
    <3>1. PICK n \in Taken(p, dirs[p]) :
            /\ ClipOrder[n].id = w.id /\ w.tags = <<ClipOrder[n].lang>>
            /\ \A l \in Taken(p, dirs[p]) : ClipOrder[l].id = w.id => l <= n
      BY <2>3 DEF IsOfClip
    <3>2. n \in Clipped(p, w.id) /\ \A l \in Clipped(p, w.id) : l <= n
      BY <1>11, <3>1
    <3> QED
      BY <2>3, <3>1, <3>2 DEF TagsTell
  <2> QED
    BY <1>9, <2>1, <2>2, <2>3
<1> QED
  BY <1>10, <1>12 DEF TagsTell

(* After a reload a voice is listed in the language of the clip it will be   *)
(* spoken with, the last of its id, or in those of the first override that   *)
(* matches it (config.py:67-72).                                             *)
THEOREM TagsAreTrue == Spec => TagsTellClip
<1>1. CatalogueInv /\ CatalogueInv' =>
        (Enumerate =>
           \A p \in installed : FromDisk(p) => \A j \in DOMAIN public'[p] :
             LET v     == public'[p][j]
                 id    == byPublic'[v.id][2]
                 hits  == {k \in DOMAIN Locales[p] :
                             id \in Locales[p][k].ids /\ Locales[p][k].tags # <<>>}
                 clips == {k \in DOMAIN ClipOrder : ClipOrder[k].id = id
                             /\ ClipOrder[k] \in dirs[p] /\ Takes(p, ClipOrder[k])}
             IN \/ \E k \in hits : v.tags = Locales[p][k].tags /\ \A l \in hits : k <= l
                \/ hits = {} /\ clips = {} /\ v.tags = <<"en">>
                \/ hits = {} /\ \E k \in clips :
                     v.tags = <<ClipOrder[k].lang>> /\ \A l \in clips : l <= k)
  BY TagsStep, Zenon DEF TagsTell, Hits, Clipped
<1> QED
  BY <1>1, CatalogueInvariant, PTL DEF TagsTellClip

(* Every value has its type.                                                 *)
THEOREM CatalogueTypes == Spec => []TypeOK
<1>1. ASSUME CatalogueInv PROVE TypeOK
  <2>1. IsIndex(raw, public, byPublic) /\ raw \in [Providers -> Answer]
    BY <1>1 DEF CatalogueInv, Indexed, IsIndex
  <2>2. DOMAIN raw = Providers /\ DOMAIN public = Providers
    BY <2>1 DEF IsIndex
  <2>3. ASSUME NEW p \in Providers, NEW k \in DOMAIN raw[p] PROVE raw[p][k].id \in Ids
    <3>1. raw[p] \in Seq(Voice)
      BY <2>1 DEF Answer
    <3>2. raw[p][k] \in Voice
      BY <3>1
    <3> QED
      BY <3>2 DEF Voice
  <2>4. ASSUME NEW p \in Providers, NEW k \in DOMAIN public[p]
        PROVE  public[p][k].id \in PublicIds
    <3>1. public[p] \in Seq(Listed)
      BY <2>1, ListTells
    <3>2. public[p][k] \in Listed
      BY <3>1
    <3> QED
      BY <3>2 DEF Listed
  <2>5. ASSUME NEW u \in DOMAIN byPublic
        PROVE  u \in PublicIds /\ byPublic[u] \in Providers \X Ids
    <3>1. PICK e \in Entries(raw) : PublicId(raw, e) = u
                                    /\ byPublic[u] = <<Order[e[1]], Local(raw, e)>>
      BY <2>1, IndexTells
    <3>2. Local(raw, e) \in Ids /\ Order[e[1]] \in Providers /\ PublicId(raw, e) \in PublicIds
      BY <2>1, EntryFacts, PublicIdFacts
    <3> QED
      BY <3>1, <3>2
  <2>6. IndexTypeOK
    BY <2>2, <2>3, <2>4, <2>5 DEF IndexTypeOK
  <2> QED
    BY <1>1, <2>6 DEF TypeOK, CatalogueInv
<1> QED
  BY <1>1, CatalogueInvariant, PTL
================================================================================
