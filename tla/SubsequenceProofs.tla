--------------------------- MODULE SubsequenceProofs ---------------------------
(***************************************************************************)
(* What Picked returns, for every sequence.  The library states induction   *)
(* for an operator P(_), which the provers do not instantiate; that the      *)
(* order of the naturals is well-founded is stated for sets, and gives      *)
(* induction for a set of numbers, and with it the recursive function.      *)
(***************************************************************************)
EXTENDS Subsequence, WellFoundedInduction, TLAPS

Below == {ss \in Nat \X Nat : ss[1] < ss[2]}

(* The order of the naturals, as a set of pairs, is well-founded.            *)
LEMMA BelowWellFounded == IsWellFoundedOn(Below, Nat)
<1>1. Below = OpToRel(<, Nat)
  BY DEF Below, OpToRel
<1> QED
  BY <1>1, NatLessThanWellFounded

(* A set of naturals that is not empty has a least member.                   *)
LEMMA LeastMember ==
  ASSUME NEW T \in SUBSET Nat, T # {}
  PROVE  \E x \in T : \A y \in T : x <= y
<1>1. \E x \in T : \A y \in T : ~(<<y, x>> \in Below)
  BY BelowWellFounded, WFMin, Zenon
<1>2. PICK x \in T : \A y \in T : ~(<<y, x>> \in Below)
  BY <1>1
<1>3. ASSUME NEW y \in T PROVE x <= y
  <2>1. <<y, x>> \in Nat \X Nat
    OBVIOUS
  <2>2. ~(y < x)
    BY <1>2, <2>1 DEF Below
  <2> QED
    BY <2>2
<1> QED
  BY <1>3

(* One with a bound has a greatest member.                                   *)
LEMMA GreatestMember ==
  ASSUME NEW T \in SUBSET Nat, T # {}, NEW b \in Nat, \A y \in T : y <= b
  PROVE  \E x \in T : \A y \in T : x >= y
<1> DEFINE U == {u \in Nat : \A y \in T : y <= u}
<1>1. b \in U
  OBVIOUS
<1>2. PICK u \in U : \A v \in U : u <= v
  <2>1. U \in SUBSET Nat /\ U # {}
    BY <1>1
  <2> HIDE DEF U
  <2> QED
    BY <2>1, LeastMember
<1>3. u \in T
  <2>1. SUFFICES ASSUME u \notin T PROVE FALSE
    OBVIOUS
  <2>2. \A y \in T : y <= u /\ y # u
    BY <2>1
  <2>3. PICK y0 \in T : TRUE
    OBVIOUS
  <2>4. u - 1 \in Nat /\ \A y \in T : y <= u - 1
    BY <2>2, <2>3
  <2>5. u - 1 \in U
    BY <2>4
  <2> QED
    BY <2>5, <1>2
<1> QED
  BY <1>3

(* Induction: a set with 0 and the successors of its members has them all.   *)
LEMMA InductiveSet ==
  ASSUME NEW T \in SUBSET Nat, 0 \in T, \A n \in T : n + 1 \in T
  PROVE  \A n \in Nat : n \in T
<1>1. SUFFICES ASSUME Nat \ T # {} PROVE FALSE
  OBVIOUS
<1>2. PICK x \in Nat \ T : \A y \in Nat \ T : x <= y
  BY <1>1, LeastMember
<1>3. x # 0 /\ x - 1 \in Nat
  BY <1>2
<1>4. x - 1 \in T
  BY <1>2, <1>3
<1>5. x - 1 + 1 \in T
  BY <1>4
<1> QED
  BY <1>5, <1>2

-----------------------------------------------------------------------------
(* The function that Picked defines                                          *)

PickStep(s, S, g, n) ==
  IF n = 0 THEN <<>>
  ELSE IF n \in S THEN Append(g[n - 1], s[n]) ELSE g[n - 1]

IsPick(s, S, g, m) == g = [n \in 0..m |-> PickStep(s, S, g, n)]

(* There is such a function, up to any length.                               *)
LEMMA PickExists ==
  ASSUME NEW s, NEW S, NEW m \in Nat
  PROVE  \E g : IsPick(s, S, g, m)
<1> DEFINE T == {k \in Nat : \E g : IsPick(s, S, g, k)}
<1>1. 0 \in T
  <2>1. IsPick(s, S, [n \in 0..0 |-> <<>>], 0)
    BY SMT DEF IsPick, PickStep
  <2> QED
    BY <2>1
<1>2. ASSUME NEW k \in T PROVE k + 1 \in T
  <2>1. PICK g : IsPick(s, S, g, k)
    OBVIOUS
  <2> DEFINE h == [n \in 0..(k + 1) |->
                     IF n = k + 1 THEN PickStep(s, S, g, n) ELSE g[n]]
  <2>2. ASSUME NEW n \in 0..(k + 1) PROVE h[n] = PickStep(s, S, h, n)
    <3>1. CASE n = k + 1
      <4>1. h[n] = PickStep(s, S, g, n)
        BY <3>1
      <4>2. n # 0 /\ n - 1 = k /\ k \in 0..(k + 1)
        BY <3>1
      <4>3. h[n - 1] = g[n - 1]
        BY <4>2
      <4> QED
        BY <4>1, <4>2, <4>3 DEF PickStep
    <3>2. CASE n # k + 1
      <4>1. n \in 0..k /\ h[n] = g[n]
        BY <3>2
      <4>2. g[n] = PickStep(s, S, g, n)
        BY <4>1, <2>1 DEF IsPick
      <4>3. n # 0 => n - 1 \in 0..(k + 1) /\ n - 1 # k + 1
        BY <4>1
      <4>4. n # 0 => h[n - 1] = g[n - 1]
        BY <4>3
      <4> QED
        BY <4>1, <4>2, <4>4 DEF PickStep
    <3> QED
      BY <3>1, <3>2
  <2>3. IsPick(s, S, h, k + 1)
    BY <2>2, Zenon DEF IsPick
  <2>4. k + 1 \in Nat /\ \E gg : IsPick(s, S, gg, k + 1)
    BY <2>3
  <2> QED
    BY <2>4
<1> HIDE DEF T
<1>3. T \in SUBSET Nat
  BY DEF T
<1>4. m \in T
  BY <1>1, <1>2, <1>3, InductiveSet
<1> QED
  BY <1>4 DEF T

(* Picked is its value at the length.                                        *)
LEMMA PickedIsPick ==
  ASSUME NEW s, NEW S, Len(s) \in Nat
  PROVE  \E g : IsPick(s, S, g, Len(s)) /\ Picked(s, S) = g[Len(s)]
<1> DEFINE p == CHOOSE g : IsPick(s, S, g, Len(s))
<1>1. \E g : IsPick(s, S, g, Len(s))
  BY PickExists
<1>2. IsPick(s, S, p, Len(s))
  BY <1>1, Zenon
<1>3. Picked(s, S) = p[Len(s)]
  BY Zenon DEF Picked, IsPick, PickStep
<1> QED
  BY <1>2, <1>3

(* Two of them agree where the sequences and the places do.                  *)
LEMMA PicksAgree ==
  ASSUME NEW s, NEW S, NEW g, NEW m \in Nat, IsPick(s, S, g, m),
         NEW t, NEW U, NEW h, NEW k \in Nat, IsPick(t, U, h, k), m <= k,
         \A n \in 1..m : s[n] = t[n] /\ (n \in S <=> n \in U)
  PROVE  \A n \in 0..m : g[n] = h[n]
<1> DEFINE T == {n \in Nat : n <= m => g[n] = h[n]}
<1>1. 0 \in T
  BY DEF IsPick, PickStep
<1>2. ASSUME NEW n \in T PROVE n + 1 \in T
  <2>1. SUFFICES ASSUME n + 1 <= m PROVE g[n + 1] = h[n + 1]
    OBVIOUS
  <2>2. n + 1 \in 1..m /\ n + 1 \in 0..m /\ n + 1 \in 0..k /\ n + 1 # 0
        /\ (n + 1) - 1 = n
    BY <2>1
  <2>3. g[n + 1] = PickStep(s, S, g, n + 1) /\ h[n + 1] = PickStep(t, U, h, n + 1)
    BY <2>2 DEF IsPick
  <2>4. g[n] = h[n]
    BY <2>1
  <2> QED
    BY <2>2, <2>3, <2>4 DEF PickStep
<1> HIDE DEF T
<1>3. T \in SUBSET Nat
  BY DEF T
<1>4. \A n \in Nat : n \in T
  BY <1>1, <1>2, <1>3, InductiveSet
<1> QED
  BY <1>4 DEF T

-----------------------------------------------------------------------------
(* Picked by the length of its sequence                                      *)

LEMMA PickedEmpty == ASSUME NEW S PROVE Picked(<<>>, S) = <<>>
<1>1. Len(<<>>) = 0 /\ Len(<<>>) \in Nat
  OBVIOUS
<1>2. PICK g : IsPick(<<>>, S, g, 0) /\ Picked(<<>>, S) = g[0]
  BY <1>1, PickedIsPick
<1> QED
  BY <1>2 DEF IsPick, PickStep

(* Only places within the sequence count.                                    *)
LEMMA PickedAgree ==
  ASSUME NEW T, NEW s \in Seq(T), NEW S, NEW U,
         \A n \in 1..Len(s) : n \in S <=> n \in U
  PROVE  Picked(s, S) = Picked(s, U)
<1>1. Len(s) \in Nat /\ Len(s) \in 0..Len(s)
  OBVIOUS
<1>2. PICK g : IsPick(s, S, g, Len(s)) /\ Picked(s, S) = g[Len(s)]
  BY <1>1, PickedIsPick
<1>3. PICK h : IsPick(s, U, h, Len(s)) /\ Picked(s, U) = h[Len(s)]
  BY <1>1, PickedIsPick
<1>4. \A n \in 0..Len(s) : g[n] = h[n]
  BY <1>1, <1>2, <1>3, PicksAgree
<1> QED
  BY <1>1, <1>2, <1>3, <1>4

LEMMA PickedAppend ==
  ASSUME NEW T, NEW s \in Seq(T), NEW a \in T, NEW S
  PROVE  Picked(Append(s, a), S) =
           IF Len(s) + 1 \in S THEN Append(Picked(s, S), a) ELSE Picked(s, S)
<1> DEFINE t == Append(s, a)
           m == Len(s)
<1>1. m \in Nat /\ Len(t) = m + 1 /\ t[m + 1] = a /\ \A n \in 1..m : t[n] = s[n]
  OBVIOUS
<1> HIDE DEF t, m
<1>2. PICK g : IsPick(s, S, g, m) /\ Picked(s, S) = g[m]
  BY <1>1, PickedIsPick DEF m
<1>3. PICK h : IsPick(t, S, h, m + 1) /\ Picked(t, S) = h[m + 1]
  BY <1>1, PickedIsPick
<1>4. \A n \in 0..m : g[n] = h[n]
  <2>1. m + 1 \in Nat /\ m <= m + 1
    BY <1>1
  <2> QED
    BY <1>1, <1>2, <1>3, <2>1, PicksAgree
<1>5. g[m] = h[m]
  BY <1>1, <1>4
<1>6. h[m + 1] = PickStep(t, S, h, m + 1)
  BY <1>1, <1>3 DEF IsPick
<1>7. m + 1 # 0 /\ (m + 1) - 1 = m
  BY <1>1
<1>8. Picked(t, S) = IF m + 1 \in S THEN Append(Picked(s, S), a) ELSE Picked(s, S)
  BY <1>1, <1>2, <1>3, <1>5, <1>6, <1>7 DEF PickStep
<1> QED
  BY <1>8 DEF t, m

(* Sequences are equal when their elements are.                              *)
LEMMA SameSequence ==
  ASSUME NEW T, NEW s \in Seq(T), NEW t \in Seq(T), Len(s) = Len(t),
         \A i \in 1..Len(s) : s[i] = t[i]
  PROVE  s = t
  OBVIOUS

LEMMA AppendFacts ==
  ASSUME NEW T, NEW s \in Seq(T), NEW a \in T
  PROVE  /\ Append(s, a) \in Seq(T) /\ Len(Append(s, a)) = Len(s) + 1
         /\ Append(s, a)[Len(s) + 1] = a /\ Append(s, a) # <<>>
         /\ \A i \in 1..Len(s) : Append(s, a)[i] = s[i]
  OBVIOUS

LEMMA AppendTells ==
  ASSUME NEW T, NEW s \in Seq(T), NEW t \in Seq(T), NEW x \in T, NEW y \in T,
         Append(s, x) = Append(t, y)
  PROVE  s = t /\ x = y
<1>1. PICK u \in Seq(T) : u = Append(s, x) /\ u = Append(t, y)
  BY AppendFacts, Zenon
<1>2. /\ Len(u) = Len(s) + 1 /\ u[Len(s) + 1] = x
      /\ \A i \in 1..Len(s) : u[i] = s[i]
  BY <1>1, AppendFacts
<1>3. /\ Len(u) = Len(t) + 1 /\ u[Len(t) + 1] = y
      /\ \A i \in 1..Len(t) : u[i] = t[i]
  BY <1>1, AppendFacts
<1>4. Len(s) = Len(t)
  <2>1. Len(s) \in Nat /\ Len(t) \in Nat /\ Len(s) + 1 = Len(t) + 1
    BY <1>2, <1>3
  <2> QED
    BY <2>1
<1>5. \A i \in 1..Len(s) : s[i] = t[i]
  BY <1>2, <1>3, <1>4
<1> QED
  BY <1>2, <1>3, <1>4, <1>5, SameSequence

(* Induction over sequences                                                  *)
LEMMA InductiveSequences ==
  ASSUME NEW T, NEW X \in SUBSET Seq(T), <<>> \in X,
         \A s \in X : \A a \in T : Append(s, a) \in X
  PROVE  \A s \in Seq(T) : s \in X
<1> DEFINE N == {n \in Nat : \A s \in Seq(T) : Len(s) = n => s \in X}
<1>1. 0 \in N
  OBVIOUS
<1>2. ASSUME NEW n \in N PROVE n + 1 \in N
  <2>1. SUFFICES ASSUME NEW s \in Seq(T), Len(s) = n + 1 PROVE s \in X
    OBVIOUS
  <2> DEFINE t == SubSeq(s, 1, n)
  <2>2. n \in Nat /\ t \in Seq(T) /\ Len(t) = n /\ s[n + 1] \in T
    BY <2>1
  <2>3. s = Append(t, s[n + 1])
    <3>1. \A i \in 1..n : t[i] = s[i]
      BY <2>1, <2>2
    <3> HIDE DEF t
    <3>2. Append(t, s[n + 1]) \in Seq(T) /\ Len(Append(t, s[n + 1])) = n + 1
      BY <2>2
    <3>3. ASSUME NEW i \in 1..(n + 1) PROVE Append(t, s[n + 1])[i] = s[i]
      <4>1. CASE i = n + 1
        <5>1. Append(t, s[n + 1])[Len(t) + 1] = s[n + 1]
          BY <2>2, AppendFacts
        <5> QED
          BY <2>2, <4>1, <5>1
      <4>2. CASE i # n + 1
        <5>1. i \in 1..n /\ i \in 1..Len(t)
          BY <2>2, <4>2
        <5>2. Append(t, s[n + 1])[i] = t[i]
          BY <2>2, <5>1
        <5> QED
          BY <3>1, <5>1, <5>2
      <4> QED
        BY <4>1, <4>2
    <3>4. s \in Seq(T) /\ Len(s) = n + 1
      BY <2>1
    <3> QED
      BY <3>2, <3>3, <3>4, SameSequence
  <2>4. t \in X
    BY <2>2
  <2> HIDE DEF t
  <2> QED
    BY <2>2, <2>3, <2>4
<1> HIDE DEF N
<1>3. N \in SUBSET Nat
  BY DEF N
<1>4. \A n \in Nat : n \in N
  BY <1>1, <1>2, <1>3, InductiveSet
<1> QED
  BY <1>4 DEF N

LEMMA PickedType ==
  ASSUME NEW T, NEW s \in Seq(T), NEW S
  PROVE  Picked(s, S) \in Seq(T)
<1> DEFINE X == {t \in Seq(T) : Picked(t, S) \in Seq(T)}
<1>1. <<>> \in X
  <2>1. Picked(<<>>, S) = <<>> /\ <<>> \in Seq(T)
    BY PickedEmpty
  <2> QED
    BY <2>1, Zenon
<1>2. ASSUME NEW t \in X, NEW a \in T PROVE Append(t, a) \in X
  <2>1. t \in Seq(T) /\ Picked(t, S) \in Seq(T)
    OBVIOUS
  <2>2. Append(t, a) \in Seq(T) /\ Append(Picked(t, S), a) \in Seq(T)
    BY <2>1
  <2>3. Picked(Append(t, a), S) \in {Append(Picked(t, S), a), Picked(t, S)}
    BY <2>1, PickedAppend
  <2> QED
    BY <2>1, <2>2, <2>3, Zenon
<1> HIDE DEF X
<1>3. X \in SUBSET Seq(T)
  BY DEF X
<1>4. s \in X
  BY <1>1, <1>2, <1>3, InductiveSequences
<1> QED
  BY <1>4 DEF X

(* g tells where in s the elements of t come from: places of S, all of them, *)
(* and in their order.                                                       *)
Enumerates(g, t, s, S) ==
  /\ g \in [1..Len(t) -> {n \in 1..Len(s) : n \in S}]
  /\ \A i, j \in 1..Len(t) : i < j => g[i] < g[j]
  /\ \A n \in 1..Len(s) : n \in S => \E i \in 1..Len(t) : g[i] = n
  /\ \A i \in 1..Len(t) : t[i] = s[g[i]]

(* An element is left out, or put at the end of both.                        *)
LEMMA EnumeratesSkip ==
  ASSUME NEW T, NEW s \in Seq(T), NEW u \in Seq(T), NEW p \in Seq(T), NEW S,
         NEW g, Enumerates(g, p, s, S), Len(u) = Len(s) + 1, Len(u) \notin S,
         \A n \in 1..Len(s) : u[n] = s[n]
  PROVE  Enumerates(g, p, u, S)
<1>1. Len(s) \in Nat
  OBVIOUS
<1>2. \A n \in 1..Len(u) : n \in S => n \in 1..Len(s)
  BY <1>1
<1>3. {n \in 1..Len(s) : n \in S} = {n \in 1..Len(u) : n \in S}
  BY <1>1
<1>4. \A i \in 1..Len(p) : g[i] \in 1..Len(s)
  BY DEF Enumerates
<1> QED
  BY <1>2, <1>3, <1>4 DEF Enumerates

LEMMA EnumeratesAppend ==
  ASSUME NEW T, NEW s \in Seq(T), NEW u \in Seq(T), NEW p \in Seq(T),
         NEW q \in Seq(T), NEW S, NEW g, Enumerates(g, p, s, S),
         Len(u) = Len(s) + 1, Len(u) \in S, Len(q) = Len(p) + 1,
         \A n \in 1..Len(s) : u[n] = s[n],
         \A i \in 1..Len(p) : q[i] = p[i], q[Len(q)] = u[Len(u)]
  PROVE  \E h : Enumerates(h, q, u, S)
<1> DEFINE h == [i \in 1..Len(q) |-> IF i = Len(q) THEN Len(u) ELSE g[i]]
<1>1. Len(s) \in Nat /\ Len(p) \in Nat
  OBVIOUS
<1>2. \A i \in 1..Len(p) : g[i] \in 1..Len(s) /\ g[i] \in S
  BY DEF Enumerates
<1>3. \A i \in 1..Len(p) : i \in 1..Len(q) /\ h[i] = g[i]
  BY <1>1
<1>4. Len(q) \in 1..Len(q) /\ h[Len(q)] = Len(u)
  BY <1>1
<1>5. \A i \in 1..Len(q) : i \in 1..Len(p) \/ i = Len(q)
  BY <1>1
<1>6. h \in [1..Len(q) -> {n \in 1..Len(u) : n \in S}]
  <2>1. ASSUME NEW i \in 1..Len(q) PROVE h[i] \in 1..Len(u) /\ h[i] \in S
    <3>1. CASE i \in 1..Len(p)
      BY <1>1, <1>2, <1>3, <3>1
    <3>2. CASE i = Len(q)
      BY <1>1, <1>4, <3>2
    <3> QED
      BY <1>5, <3>1, <3>2
  <2> QED
    BY <2>1
<1>7. ASSUME NEW i \in 1..Len(q), NEW j \in 1..Len(q), i < j
      PROVE  h[i] < h[j]
  <2>1. i \in 1..Len(p)
    BY <1>1, <1>7
  <2>2. CASE j \in 1..Len(p)
    <3>1. g[i] < g[j]
      BY <1>7, <2>1, <2>2 DEF Enumerates
    <3> QED
      BY <3>1, <1>3, <2>1, <2>2
  <2>3. CASE j = Len(q)
    <3>1. h[i] = g[i] /\ g[i] \in 1..Len(s) /\ h[j] = Len(s) + 1
      BY <1>2, <1>3, <1>4, <2>1, <2>3
    <3> QED
      BY <1>1, <3>1
  <2> QED
    BY <1>5, <2>2, <2>3
<1>8. ASSUME NEW n \in 1..Len(u), n \in S
      PROVE  \E i \in 1..Len(q) : h[i] = n
  <2>1. CASE n = Len(u)
    BY <1>4, <2>1
  <2>2. CASE n # Len(u)
    <3>1. n \in 1..Len(s)
      BY <1>1, <2>2
    <3>2. PICK i \in 1..Len(p) : g[i] = n
      BY <1>8, <3>1 DEF Enumerates
    <3> QED
      BY <1>3, <3>2
  <2> QED
    BY <2>1, <2>2
<1>9. ASSUME NEW i \in 1..Len(q) PROVE q[i] = u[h[i]]
  <2>1. CASE i \in 1..Len(p)
    <3>1. p[i] = s[g[i]]
      BY <2>1 DEF Enumerates
    <3> QED
      BY <1>2, <1>3, <2>1, <3>1
  <2>2. CASE i = Len(q)
    BY <1>4, <2>2
  <2> QED
    BY <1>5, <2>1, <2>2
<1> HIDE DEF h
<1>10. Enumerates(h, q, u, S)
  BY <1>6, <1>7, <1>8, <1>9 DEF Enumerates
<1> QED
  BY <1>10

LEMMA PickedPlaces ==
  ASSUME NEW T, NEW s \in Seq(T), NEW S
  PROVE  \E g : Enumerates(g, Picked(s, S), s, S)
<1> DEFINE X == {t \in Seq(T) : \E g : Enumerates(g, Picked(t, S), t, S)}
<1>1. <<>> \in X
  <2>1. Enumerates(<<>>, <<>>, <<>>, S)
    BY DEF Enumerates
  <2> QED
    BY <2>1, PickedEmpty
<1>2. ASSUME NEW t \in X, NEW a \in T PROVE Append(t, a) \in X
  <2>1. PICK g : Enumerates(g, Picked(t, S), t, S)
    OBVIOUS
  <2>2. t \in Seq(T) /\ Picked(t, S) \in Seq(T)
    BY PickedType
  <2>3. PICK u \in Seq(T) : u = Append(t, a)
    BY <2>2, AppendFacts, Zenon
  <2>4. /\ Len(u) = Len(t) + 1 /\ u[Len(u)] = a
        /\ \A n \in 1..Len(t) : u[n] = t[n]
    BY <2>2, <2>3
  <2>5. Picked(u, S) = IF Len(u) \in S THEN Append(Picked(t, S), a)
                       ELSE Picked(t, S)
    BY <2>2, <2>3, <2>4, PickedAppend
  <2>6. CASE Len(u) \notin S
    <3>1. Enumerates(g, Picked(t, S), u, S)
      BY <2>1, <2>2, <2>4, <2>6, EnumeratesSkip
    <3> QED
      BY <2>3, <2>5, <2>6, <3>1
  <2>7. CASE Len(u) \in S
    <3>1. PICK q \in Seq(T) : q = Append(Picked(t, S), a)
      BY <2>2, AppendFacts, Zenon
    <3>2. /\ Len(q) = Len(Picked(t, S)) + 1 /\ q[Len(q)] = a
          /\ \A i \in 1..Len(Picked(t, S)) : q[i] = Picked(t, S)[i]
      BY <2>2, <3>1
    <3>3. \E h : Enumerates(h, q, u, S)
      BY <2>1, <2>2, <2>3, <2>4, <2>7, <3>1, <3>2, EnumeratesAppend, Zenon
    <3> QED
      BY <2>3, <2>5, <2>7, <3>1, <3>3
  <2> QED
    BY <2>6, <2>7
<1> HIDE DEF X
<1>3. X \in SUBSET Seq(T)
  BY DEF X
<1>4. s \in X
  BY <1>1, <1>2, <1>3, InductiveSequences
<1> QED
  BY <1>4 DEF X

-----------------------------------------------------------------------------
(* The elements of s in E: a choice by element                               *)

Only(s, E) == Picked(s, {i \in DOMAIN s : s[i] \in E})

LEMMA OnlyEmpty == ASSUME NEW E PROVE Only(<<>>, E) = <<>>
  BY PickedEmpty DEF Only

LEMMA OnlyAppend ==
  ASSUME NEW T, NEW s \in Seq(T), NEW a \in T, NEW E
  PROVE  Only(Append(s, a), E) = IF a \in E THEN Append(Only(s, E), a) ELSE Only(s, E)
<1>1. PICK u \in Seq(T) : u = Append(s, a)
  BY AppendFacts, Zenon
<1>2. Len(u) = Len(s) + 1 /\ u[Len(s) + 1] = a /\ \A i \in 1..Len(s) : u[i] = s[i]
  BY <1>1, AppendFacts
<1> DEFINE P == {i \in DOMAIN s : s[i] \in E}
           Q == {i \in DOMAIN u : u[i] \in E}
<1>3. Len(s) \in Nat /\ DOMAIN s = 1..Len(s) /\ DOMAIN u = 1..Len(u)
  OBVIOUS
<1>4. Len(s) + 1 \in Q <=> a \in E
  BY <1>2, <1>3
<1>5. \A n \in 1..Len(s) : n \in P <=> n \in Q
  BY <1>2, <1>3
<1> HIDE DEF P, Q
<1>6. Picked(s, P) = Picked(s, Q)
  BY <1>5, PickedAgree
<1>7. Picked(u, Q) = IF Len(s) + 1 \in Q THEN Append(Picked(s, Q), a) ELSE Picked(s, Q)
  BY <1>1, PickedAppend
<1>8. Only(u, E) = Picked(u, Q) /\ Only(s, E) = Picked(s, P)
  BY Zenon DEF Only, P, Q
<1> QED
  BY <1>1, <1>4, <1>6, <1>7, <1>8

(* What is left out of s without touching E leaves the choice as it is.      *)
LEMMA OnlyOfPicked ==
  ASSUME NEW T, NEW s \in Seq(T), NEW S, NEW E,
         \A i \in 1..Len(s) : s[i] \in E => i \in S
  PROVE  Only(Picked(s, S), E) = Only(s, E)
<1> DEFINE X == {t \in Seq(T) : (\A i \in 1..Len(t) : t[i] \in E => i \in S)
                                  => Only(Picked(t, S), E) = Only(t, E)}
<1>1. <<>> \in X
  <2>1. Picked(<<>>, S) = <<>> /\ <<>> \in Seq(T)
    BY PickedEmpty
  <2> QED
    BY <2>1, Zenon
<1>2. ASSUME NEW t \in X, NEW a \in T PROVE Append(t, a) \in X
  <2>1. t \in Seq(T)
    OBVIOUS
  <2>2. PICK u \in Seq(T) : u = Append(t, a)
    BY <2>1, AppendFacts, Zenon
  <2>3. Len(u) = Len(t) + 1 /\ u[Len(t) + 1] = a /\ \A i \in 1..Len(t) : u[i] = t[i]
    BY <2>1, <2>2, AppendFacts
  <2>4. SUFFICES ASSUME \A i \in 1..Len(u) : u[i] \in E => i \in S
                 PROVE  Only(Picked(u, S), E) = Only(u, E)
    BY <2>2
  <2>5. Len(t) \in Nat /\ \A i \in 1..Len(t) : i \in 1..Len(u)
    BY <2>1, <2>3
  <2>6. \A i \in 1..Len(t) : t[i] \in E => i \in S
    BY <2>3, <2>4, <2>5
  <2>7. Only(Picked(t, S), E) = Only(t, E)
    BY <2>6
  <2>8. a \in E => Len(t) + 1 \in S
    <3>1. Len(t) + 1 \in 1..Len(u)
      BY <2>3, <2>5
    <3> QED
      BY <2>3, <2>4, <3>1
  <2>9. Only(u, E) = IF a \in E THEN Append(Only(t, E), a) ELSE Only(t, E)
    BY <2>1, <2>2, OnlyAppend
  <2>10. Picked(u, S) = IF Len(t) + 1 \in S THEN Append(Picked(t, S), a)
                        ELSE Picked(t, S)
    BY <2>1, <2>2, PickedAppend
  <2>11. Only(Append(Picked(t, S), a), E)
           = IF a \in E THEN Append(Only(Picked(t, S), E), a)
             ELSE Only(Picked(t, S), E)
    <3>1. Picked(t, S) \in Seq(T)
      BY <2>1, PickedType
    <3> QED
      BY <3>1, OnlyAppend
  <2>12. CASE a \in E
    <3>1. Picked(u, S) = Append(Picked(t, S), a) /\ Only(u, E) = Append(Only(t, E), a)
      BY <2>8, <2>9, <2>10, <2>12
    <3>2. Only(Append(Picked(t, S), a), E) = Append(Only(Picked(t, S), E), a)
      BY <2>11, <2>12
    <3> QED
      BY <2>7, <3>1, <3>2, Zenon
  <2>13. CASE a \notin E
    <3>1. Only(u, E) = Only(t, E)
          /\ Only(Append(Picked(t, S), a), E) = Only(Picked(t, S), E)
      BY <2>9, <2>11, <2>13
    <3>2. Picked(u, S) = Append(Picked(t, S), a) \/ Picked(u, S) = Picked(t, S)
      BY <2>10
    <3> QED
      BY <2>7, <3>1, <3>2, Zenon
  <2> QED
    BY <2>12, <2>13
<1> HIDE DEF X
<1>3. X \in SUBSET Seq(T)
  BY DEF X
<1>4. s \in X
  BY <1>1, <1>2, <1>3, InductiveSequences
<1> QED
  BY <1>4 DEF X

LEMMA PrefixFacts ==
  ASSUME NEW T, NEW s \in Seq(T), NEW m \in 0..Len(s)
  PROVE  /\ SubSeq(s, 1, m) \in Seq(T) /\ Len(SubSeq(s, 1, m)) = m
         /\ \A i \in 1..m : SubSeq(s, 1, m)[i] = s[i]
  OBVIOUS

LEMMA NextPrefix ==
  ASSUME NEW T, NEW s \in Seq(T), NEW m \in Nat, m < Len(s)
  PROVE  s[m + 1] \in T /\ SubSeq(s, 1, m + 1) = Append(SubSeq(s, 1, m), s[m + 1])
<1>1. m \in 0..Len(s) /\ m + 1 \in 0..Len(s) /\ s[m + 1] \in T
  OBVIOUS
<1>2. PICK t \in Seq(T) : t = SubSeq(s, 1, m)
  BY <1>1, PrefixFacts, Zenon
<1>3. PICK u \in Seq(T) : u = Append(t, s[m + 1])
  BY <1>1, <1>2, AppendFacts, Zenon
<1>4. PICK v \in Seq(T) : v = SubSeq(s, 1, m + 1)
  BY <1>1, PrefixFacts, Zenon
<1>5. Len(t) = m /\ \A i \in 1..m : t[i] = s[i]
  BY <1>1, <1>2, PrefixFacts
<1>6. Len(u) = m + 1 /\ u[m + 1] = s[m + 1] /\ \A i \in 1..m : u[i] = s[i]
  <2>1. s[m + 1] \in T
    BY <1>1
  <2>2. Len(u) = Len(t) + 1 /\ u[Len(t) + 1] = s[m + 1]
        /\ \A i \in 1..Len(t) : u[i] = t[i]
    BY <1>3, <2>1, AppendFacts
  <2> QED
    BY <1>5, <2>2
<1>7. Len(v) = m + 1 /\ \A i \in 1..(m + 1) : v[i] = s[i]
  BY <1>1, <1>4, PrefixFacts
<1>8. \A i \in 1..(m + 1) : i \in 1..m \/ i = m + 1
  OBVIOUS
<1>9. u = v
  BY <1>6, <1>7, <1>8, SameSequence
<1> QED
  BY <1>1, <1>2, <1>3, <1>4, <1>9

(* Nor does it matter to cut off an end that has nothing of E.               *)
LEMMA OnlyOfPrefix ==
  ASSUME NEW T, NEW s \in Seq(T), NEW m \in 0..Len(s), NEW E,
         \A i \in (m + 1)..Len(s) : s[i] \notin E
  PROVE  Only(SubSeq(s, 1, m), E) = Only(s, E)
<1> DEFINE N == {n \in Nat : m + n <= Len(s) =>
                   Only(SubSeq(s, 1, m + n), E) = Only(SubSeq(s, 1, m), E)}
<1>1. 0 \in N
  OBVIOUS
<1>2. ASSUME NEW n \in N PROVE n + 1 \in N
  <2>1. SUFFICES ASSUME m + (n + 1) <= Len(s)
                 PROVE  Only(SubSeq(s, 1, m + (n + 1)), E) = Only(SubSeq(s, 1, m), E)
    OBVIOUS
  <2>2. PICK k \in Nat : k = m + n
    OBVIOUS
  <2>3. k < Len(s) /\ k + 1 = m + (n + 1) /\ k + 1 \in (m + 1)..Len(s) /\ k \in 0..Len(s)
    BY <2>1, <2>2
  <2>4. s[k + 1] \in T /\ SubSeq(s, 1, k + 1) = Append(SubSeq(s, 1, k), s[k + 1])
    BY <2>3, NextPrefix
  <2>5. Only(SubSeq(s, 1, k), E) = Only(SubSeq(s, 1, m), E)
    BY <2>2, <2>3
  <2>6. s[k + 1] \notin E
    BY <2>3
  <2>7. SubSeq(s, 1, k) \in Seq(T)
    BY <2>3, PrefixFacts
  <2>8. Only(SubSeq(s, 1, k + 1), E) = Only(SubSeq(s, 1, k), E)
    <3>1. PICK t \in Seq(T) : t = SubSeq(s, 1, k)
      BY <2>7
    <3>2. PICK a \in T : a = s[k + 1]
      BY <2>4
    <3>3. Only(Append(t, a), E) = Only(t, E)
      BY <2>6, <3>2, OnlyAppend
    <3> QED
      BY <2>4, <3>1, <3>2, <3>3
  <2> QED
    BY <2>3, <2>5, <2>8
<1> HIDE DEF N
<1>3. N \in SUBSET Nat
  BY DEF N
<1>4. \A n \in Nat : n \in N
  BY <1>1, <1>2, <1>3, InductiveSet
<1>5. Len(s) \in Nat /\ m \in Nat /\ Len(s) - m \in Nat /\ m + (Len(s) - m) = Len(s)
  OBVIOUS
<1>6. Only(SubSeq(s, 1, Len(s)), E) = Only(SubSeq(s, 1, m), E)
  BY <1>4, <1>5 DEF N
<1>7. SubSeq(s, 1, Len(s)) = s
  <2>1. SubSeq(s, 1, Len(s)) \in Seq(T) /\ Len(SubSeq(s, 1, Len(s))) = Len(s)
        /\ \A i \in 1..Len(s) : SubSeq(s, 1, Len(s))[i] = s[i]
    BY PrefixFacts
  <2> QED
    BY <2>1, SameSequence
<1> QED
  BY <1>6, <1>7


-----------------------------------------------------------------------------
(* Looped by the length of its sequence                                      *)

LoopStep(b, a, s, g, n) == IF n = 0 THEN a ELSE b[g[n - 1]][s[n]]

IsLoop(b, a, s, g, m) == g = [n \in 0..m |-> LoopStep(b, a, s, g, n)]

LEMMA LoopExists ==
  ASSUME NEW b, NEW a, NEW s, NEW m \in Nat
  PROVE  \E g : IsLoop(b, a, s, g, m)
<1> DEFINE T == {k \in Nat : \E g : IsLoop(b, a, s, g, k)}
<1>1. 0 \in T
  <2>1. IsLoop(b, a, s, [n \in 0..0 |-> a], 0)
    BY SMT DEF IsLoop, LoopStep
  <2> QED
    BY <2>1
<1>2. ASSUME NEW k \in T PROVE k + 1 \in T
  <2>1. PICK g : IsLoop(b, a, s, g, k)
    OBVIOUS
  <2> DEFINE h == [n \in 0..(k + 1) |->
                     IF n = k + 1 THEN LoopStep(b, a, s, g, n) ELSE g[n]]
  <2>2. ASSUME NEW n \in 0..(k + 1) PROVE h[n] = LoopStep(b, a, s, h, n)
    <3>1. CASE n = k + 1
      <4>1. h[n] = LoopStep(b, a, s, g, n)
        BY <3>1
      <4>2. n # 0 /\ n - 1 = k /\ k \in 0..(k + 1)
        BY <3>1
      <4>3. h[n - 1] = g[n - 1]
        BY <4>2
      <4> QED
        BY <4>1, <4>2, <4>3 DEF LoopStep
    <3>2. CASE n # k + 1
      <4>1. n \in 0..k /\ h[n] = g[n]
        BY <3>2
      <4>2. g[n] = LoopStep(b, a, s, g, n)
        BY <4>1, <2>1 DEF IsLoop
      <4>3. n # 0 => n - 1 \in 0..(k + 1) /\ n - 1 # k + 1
        BY <4>1
      <4>4. n # 0 => h[n - 1] = g[n - 1]
        BY <4>3
      <4> QED
        BY <4>1, <4>2, <4>4 DEF LoopStep
    <3> QED
      BY <3>1, <3>2
  <2>3. IsLoop(b, a, s, h, k + 1)
    BY <2>2, Zenon DEF IsLoop
  <2>4. k + 1 \in Nat /\ \E gg : IsLoop(b, a, s, gg, k + 1)
    BY <2>3
  <2> QED
    BY <2>4
<1> HIDE DEF T
<1>3. T \in SUBSET Nat
  BY DEF T
<1>4. m \in T
  BY <1>1, <1>2, <1>3, InductiveSet
<1> QED
  BY <1>4 DEF T

LEMMA LoopedIsLoop ==
  ASSUME NEW b, NEW a, NEW s, Len(s) \in Nat
  PROVE  \E g : IsLoop(b, a, s, g, Len(s)) /\ Looped(b, a, s) = g[Len(s)]
<1> DEFINE p == CHOOSE g : IsLoop(b, a, s, g, Len(s))
<1>1. \E g : IsLoop(b, a, s, g, Len(s))
  BY LoopExists
<1>2. IsLoop(b, a, s, p, Len(s))
  BY <1>1, Zenon
<1>3. Looped(b, a, s) = p[Len(s)]
  BY Zenon DEF Looped, IsLoop, LoopStep
<1> QED
  BY <1>2, <1>3

LEMMA LoopsAgree ==
  ASSUME NEW b, NEW a, NEW s, NEW g, NEW m \in Nat, IsLoop(b, a, s, g, m),
         NEW t, NEW h, NEW k \in Nat, IsLoop(b, a, t, h, k), m <= k,
         \A n \in 1..m : s[n] = t[n]
  PROVE  \A n \in 0..m : g[n] = h[n]
<1> DEFINE T == {n \in Nat : n <= m => g[n] = h[n]}
<1>1. 0 \in T
  BY DEF IsLoop, LoopStep
<1>2. ASSUME NEW n \in T PROVE n + 1 \in T
  <2>1. SUFFICES ASSUME n + 1 <= m PROVE g[n + 1] = h[n + 1]
    OBVIOUS
  <2>2. n + 1 \in 1..m /\ n + 1 \in 0..m /\ n + 1 \in 0..k /\ n + 1 # 0
        /\ (n + 1) - 1 = n
    BY <2>1
  <2>3. g[n + 1] = LoopStep(b, a, s, g, n + 1) /\ h[n + 1] = LoopStep(b, a, t, h, n + 1)
    BY <2>2 DEF IsLoop
  <2>4. g[n] = h[n]
    BY <2>1
  <2> QED
    BY <2>2, <2>3, <2>4 DEF LoopStep
<1> HIDE DEF T
<1>3. T \in SUBSET Nat
  BY DEF T
<1>4. \A n \in Nat : n \in T
  BY <1>1, <1>2, <1>3, InductiveSet
<1> QED
  BY <1>4 DEF T

LEMMA LoopedEmpty == ASSUME NEW b, NEW a PROVE Looped(b, a, <<>>) = a
<1>1. Len(<<>>) = 0 /\ Len(<<>>) \in Nat
  OBVIOUS
<1>2. PICK g : IsLoop(b, a, <<>>, g, 0) /\ Looped(b, a, <<>>) = g[0]
  BY <1>1, LoopedIsLoop
<1> QED
  BY <1>2 DEF IsLoop, LoopStep

(* The loop's last turn takes the last element.                              *)
LEMMA LoopedAppend ==
  ASSUME NEW b, NEW a, NEW T, NEW s \in Seq(T), NEW x \in T
  PROVE  Looped(b, a, Append(s, x)) = b[Looped(b, a, s)][x]
<1> DEFINE t == Append(s, x)
           m == Len(s)
<1>1. m \in Nat /\ Len(t) = m + 1 /\ t[m + 1] = x /\ \A n \in 1..m : t[n] = s[n]
  OBVIOUS
<1> HIDE DEF t, m
<1>2. PICK g : IsLoop(b, a, s, g, m) /\ Looped(b, a, s) = g[m]
  BY <1>1, LoopedIsLoop DEF m
<1>3. PICK h : IsLoop(b, a, t, h, m + 1) /\ Looped(b, a, t) = h[m + 1]
  BY <1>1, LoopedIsLoop
<1>4. \A n \in 0..m : g[n] = h[n]
  <2>1. m + 1 \in Nat /\ m <= m + 1
    BY <1>1
  <2> QED
    BY <1>1, <1>2, <1>3, <2>1, LoopsAgree
<1>5. g[m] = h[m]
  BY <1>1, <1>4
<1>6. h[m + 1] = LoopStep(b, a, t, h, m + 1)
  BY <1>1, <1>3 DEF IsLoop
<1>7. m + 1 # 0 /\ (m + 1) - 1 = m
  BY <1>1
<1>8. Looped(b, a, t) = b[Looped(b, a, s)][x]
  BY <1>1, <1>2, <1>3, <1>5, <1>6, <1>7 DEF LoopStep
<1> QED
  BY <1>8 DEF t

(* What every turn keeps is there at the end.                                *)
LEMMA LoopedIn ==
  ASSUME NEW I, NEW T, NEW b, NEW a \in I,
         \A z \in I : \A x \in T : b[z][x] \in I, NEW s \in Seq(T)
  PROVE  Looped(b, a, s) \in I
<1> DEFINE X == {t \in Seq(T) : Looped(b, a, t) \in I}
<1>1. <<>> \in X
  BY LoopedEmpty
<1>2. ASSUME NEW t \in X, NEW x \in T PROVE Append(t, x) \in X
  <2>1. t \in Seq(T) /\ Append(t, x) \in Seq(T) /\ Looped(b, a, t) \in I
    OBVIOUS
  <2>2. b[Looped(b, a, t)][x] \in I
    BY <2>1
  <2>3. Looped(b, a, Append(t, x)) = b[Looped(b, a, t)][x]
    BY <2>1, LoopedAppend
  <2> QED
    BY <2>1, <2>2, <2>3, Zenon
<1> HIDE DEF X
<1>3. X \in SUBSET Seq(T)
  BY DEF X
<1>4. s \in X
  BY <1>1, <1>2, <1>3, InductiveSequences
<1> QED
  BY <1>4 DEF X
================================================================================
