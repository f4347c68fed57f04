------------------------ MODULE ConfigRefresh_proofs ------------------------
(***************************************************************************)
(* Proofs about ConfigRefresh, for any files, updaters and shipped skills: *)
(* a refreshed file needs no refresh and keeps the project's part, and     *)
(* `jbox init --update` implements AtomicRefresh.                          *)
(***************************************************************************)
EXTENDS ConfigRefresh, FiniteSetTheorems, SequenceTheorems, TLAPS

-----------------------------------------------------------------------------
(***************************************************************************)
(* Lists                                                                   *)
(***************************************************************************)

LEMMA ListFacts ==
  ASSUME NEW skills, IsSourceList(skills)
  PROVE  /\ Len(skills) \in Nat /\ DOMAIN skills = 1 .. Len(skills)
         /\ skills = [i \in 1 .. Len(skills) |-> skills[i]]
         /\ \A i \in 1 .. Len(skills) : IsSource(skills[i])
<1> DEFINE S == {skills[i] : i \in DOMAIN skills}
<1>1. skills \in Seq(S)
  BY DEF IsSourceList
<1> HIDE DEF S
<1>2. /\ Len(skills) \in Nat /\ skills \in [1 .. Len(skills) -> S]
      /\ DOMAIN skills = 1 .. Len(skills)
  BY <1>1, LenProperties
<1>3. QED
  BY <1>2 DEF IsSourceList

LEMMA MakesList ==
  ASSUME NEW n \in Nat, NEW skills, skills = [i \in 1 .. n |-> skills[i]],
         \A i \in 1 .. n : IsSource(skills[i])
  PROVE  IsSourceList(skills) /\ Len(skills) = n
<1> DEFINE S == {skills[i] : i \in DOMAIN skills}
<1>1. DOMAIN skills = 1 .. n
  OBVIOUS
<1>2. skills \in [1 .. n -> S]
  BY <1>1
<1>3. skills \in Seq(S)
  <2> HIDE DEF S
  <2>1. skills \in UNION {[1 .. m -> S] : m \in Nat}
    BY <1>2
  <2>2. QED
    BY <2>1, SeqDef
<1>4. Len(skills) = n
  <2> HIDE DEF S
  <2>1. Len(skills) \in Nat /\ DOMAIN skills = 1 .. Len(skills)
    BY <1>3, LenProperties
  <2>2. QED
    BY <1>1, <2>1
<1>5. QED
  BY <1>1, <1>3, <1>4 DEF IsSourceList

\* Places are numbered one by one: every element at one of them is listed,
\* and no other.
LEMMA ElementsAtPlaces ==
  ASSUME NEW list, NEW n \in Nat, NEW places \in SUBSET (1 .. n)
  PROVE  /\ Cardinality(places) \in Nat
         /\ \A k \in 1 .. Cardinality(places) :
              \E i \in places : ElementsAt(list, places)[k] = list[i]
         /\ \A i \in places : \E k \in 1 .. Cardinality(places) :
              ElementsAt(list, places)[k] = list[i]
<1> DEFINE Before(i) == {j \in places : j <= i}
           count == Cardinality(places)
           Rank == [i \in places |-> Cardinality(Before(i))]
<1>1. IsFiniteSet(places) /\ count \in Nat
  <2>1. IsFiniteSet(1 .. n)
    BY FS_Interval
  <2>2. IsFiniteSet(places)
    BY <2>1, FS_Subset
  <2>3. QED
    BY <2>2, FS_CardinalityType
<1>2. ASSUME NEW i \in places
      PROVE  /\ IsFiniteSet(Before(i)) /\ Cardinality(Before(i)) \in 1 .. count
  <2>1. Before(i) \in SUBSET places /\ i \in Before(i)
    OBVIOUS
  <2> HIDE DEF Before
  <2>2. IsFiniteSet(Before(i)) /\ Cardinality(Before(i)) <= count
    BY <1>1, <2>1, FS_Subset
  <2>3. Cardinality(Before(i)) \in Nat /\ Cardinality(Before(i)) # 0
    BY <2>1, <2>2, FS_CardinalityType, FS_EmptySet
  <2>4. QED
    BY <1>1, <2>2, <2>3
<1>3. ASSUME NEW i \in places, NEW j \in places, i < j
      PROVE  Cardinality(Before(i)) # Cardinality(Before(j))
  <2>1. Before(i) \in SUBSET Before(j) /\ Before(i) # Before(j)
    <3>1. i \in Int /\ j \in Int
      OBVIOUS
    <3>2. j \in Before(j) /\ j \notin Before(i)
      BY <1>3, <3>1
    <3>3. \A k \in places : k \in Int
      OBVIOUS
    <3>4. \A k \in places : k <= i => k <= j
      BY <1>3, <3>1, <3>3
    <3>5. QED
      BY <3>2, <3>4
  <2>2. IsFiniteSet(Before(j))
    BY <1>2
  <2> HIDE DEF Before
  <2>3. QED
    BY <2>1, <2>2, FS_Subset
<1>4. Rank \in Injection(places, 1 .. count)
  <2>1. Rank \in [places -> 1 .. count]
    BY <1>2
  <2>2. \A i, j \in places : i < j \/ j < i \/ i = j
    OBVIOUS
  <2>3. \A i, j \in places : Rank[i] = Rank[j] => i = j
    <3> HIDE DEF Before
    <3>1. QED
      BY <1>3, <2>2
  <2> HIDE DEF Rank
  <2>4. QED
    BY <2>1, <2>3 DEF Injection, IsInjective
<1>5. Rank \in Surjection(places, 1 .. count)
  <2>1. IsFiniteSet(1 .. count) /\ Cardinality(1 .. count) = count
    BY <1>1, FS_Interval
  <2> HIDE DEF Rank, count
  <2>2. QED
    BY <1>4, <2>1, FS_Injection DEF count
<1>6. \A k \in 1 .. count : \E i \in places : Rank[i] = k
  <2> HIDE DEF Rank, count
  <2>1. QED
    BY <1>5 DEF Surjection
<1>7. \A k \in 1 .. count :
        ElementsAt(list, places)[k] = list[CHOOSE i \in places : Rank[i] = k]
  BY DEF ElementsAt
<1>8. \A i \in places : /\ Rank[i] \in 1 .. count
                        /\ \A j \in places : Rank[i] = Rank[j] => i = j
  <2> HIDE DEF Rank, count
  <2>1. QED
    BY <1>4 DEF Injection, IsInjective
<1> HIDE DEF Rank
<1>9. \A k \in 1 .. count : \E i \in places :
        ElementsAt(list, places)[k] = list[i]
  BY <1>6, <1>7
<1>10. ASSUME NEW i \in places
       PROVE  ElementsAt(list, places)[Rank[i]] = list[i]
  <2>1. (CHOOSE j \in places : Rank[j] = Rank[i]) = i
    BY <1>8
  <2>2. QED
    BY <1>7, <1>8, <2>1
<1>11. QED
  BY <1>1, <1>8, <1>9, <1>10

-----------------------------------------------------------------------------
(***************************************************************************)
(* What a refresh does to a list of skills                                 *)
(***************************************************************************)

LEMMA MarkedIs ==
  ASSUME NEW skills, IsSourceList(skills)
  PROVE  /\ IsSourceList(Marked(skills)) /\ Len(Marked(skills)) = Len(skills)
         /\ \A i \in 1 .. Len(skills) :
              /\ i \in Managed(skills) =>
                   Marked(skills)[i] = [skills[i] EXCEPT !.managed = "yes"]
              /\ i \notin Managed(skills) => Marked(skills)[i] = skills[i]
<1> DEFINE n == Len(skills)
           marked == Marked(skills)
<1>1. /\ n \in Nat /\ DOMAIN skills = 1 .. n
      /\ \A i \in 1 .. n : IsSource(skills[i])
  BY ListFacts
<1>2. /\ marked = [i \in 1 .. n |-> marked[i]]
      /\ \A i \in 1 .. n :
              /\ i \in Managed(skills) =>
                   marked[i] = [skills[i] EXCEPT !.managed = "yes"]
              /\ i \notin Managed(skills) => marked[i] = skills[i]
  BY <1>1 DEF Marked
<1>3. \A i \in 1 .. n : IsSource([skills[i] EXCEPT !.managed = "yes"])
  BY <1>1 DEF IsSource, IsRecord
<1> HIDE DEF n, marked
<1>4. \A i \in 1 .. n : IsSource(marked[i])
  BY <1>1, <1>2, <1>3
<1>5. IsSourceList(marked) /\ Len(marked) = n
  BY <1>1, <1>2, <1>4, MakesList
<1>6. QED
  BY <1>2, <1>5 DEF n, marked

LEMMA AddedIs ==
  ASSUME NEW skills
  PROVE  LET added == ElementsAt(DefaultSkills, Missing(skills))
         IN  /\ IsSourceList(added)
             /\ \A k \in 1 .. Len(added) : \E d \in Missing(skills) :
                  added[k] = DefaultSkills[d]
             /\ \A d \in Missing(skills) : \E k \in 1 .. Len(added) :
                  added[k] = DefaultSkills[d]
<1> DEFINE added == ElementsAt(DefaultSkills, Missing(skills))
           count == Cardinality(Missing(skills))
<1>1. /\ Len(DefaultSkills) \in Nat
      /\ DOMAIN DefaultSkills = 1 .. Len(DefaultSkills)
      /\ \A d \in 1 .. Len(DefaultSkills) : IsSource(DefaultSkills[d])
  BY RefreshAssumption, ListFacts
<1>2. Missing(skills) \in SUBSET (1 .. Len(DefaultSkills))
  BY <1>1 DEF Missing
<1>3. /\ count \in Nat
      /\ \A k \in 1 .. count : \E d \in Missing(skills) :
           added[k] = DefaultSkills[d]
      /\ \A d \in Missing(skills) : \E k \in 1 .. count :
           added[k] = DefaultSkills[d]
  BY <1>1, <1>2, ElementsAtPlaces
<1>4. added = [k \in 1 .. count |-> added[k]]
  BY DEF ElementsAt
<1> HIDE DEF added, count
<1>5. \A k \in 1 .. count : IsSource(added[k])
  BY <1>1, <1>2, <1>3
<1>6. IsSourceList(added) /\ Len(added) = count
  BY <1>3, <1>4, <1>5, MakesList
<1>7. QED
  BY <1>3, <1>6 DEF added

LEMMA JoinedIs ==
  ASSUME NEW s, NEW t, IsSourceList(s), IsSourceList(t)
  PROVE  /\ IsSourceList(s \o t) /\ Len(s \o t) = Len(s) + Len(t)
         /\ \A i \in 1 .. Len(s) : (s \o t)[i] = s[i]
         /\ \A i \in 1 .. Len(s \o t) :
              i \notin 1 .. Len(s) =>
                /\ i - Len(s) \in 1 .. Len(t)
                /\ (s \o t)[i] = t[i - Len(s)]
         /\ \A k \in 1 .. Len(t) :
              /\ Len(s) + k \in 1 .. Len(s \o t)
              /\ (s \o t)[Len(s) + k] = t[k]
<1> DEFINE S == {s[i] : i \in DOMAIN s} \cup {t[i] : i \in DOMAIN t}
           st == s \o t
<1>1. /\ Len(s) \in Nat /\ s = [i \in 1 .. Len(s) |-> s[i]]
      /\ \A i \in 1 .. Len(s) : IsSource(s[i])
      /\ Len(t) \in Nat /\ t = [i \in 1 .. Len(t) |-> t[i]]
      /\ \A i \in 1 .. Len(t) : IsSource(t[i])
  BY ListFacts
<1>2. s \in Seq(S) /\ t \in Seq(S)
  <2>1. s \in Seq({s[i] : i \in DOMAIN s}) /\ t \in Seq({t[i] : i \in DOMAIN t})
    BY DEF IsSourceList
  <2>2. /\ {s[i] : i \in DOMAIN s} \subseteq S
        /\ {t[i] : i \in DOMAIN t} \subseteq S
    OBVIOUS
  <2> HIDE DEF S
  <2>3. QED
    BY <2>1, <2>2, SeqMonotonic
<1> HIDE DEF S
<1>3. /\ st \in Seq(S) /\ Len(st) = Len(s) + Len(t)
      /\ \A i \in 1 .. Len(s) + Len(t) :
           st[i] = IF i <= Len(s) THEN s[i] ELSE t[i - Len(s)]
  BY <1>2, ConcatProperties
<1> HIDE DEF st
<1>4. st = [i \in 1 .. Len(st) |-> st[i]]
  BY <1>3, LenProperties
<1>5. /\ \A i \in 1 .. Len(s) : st[i] = s[i]
      /\ \A i \in 1 .. Len(st) :
           i \notin 1 .. Len(s) =>
             /\ i - Len(s) \in 1 .. Len(t)
             /\ st[i] = t[i - Len(s)]
      /\ \A k \in 1 .. Len(t) :
           /\ Len(s) + k \in 1 .. Len(st)
           /\ st[Len(s) + k] = t[k]
  <2> DEFINE m == Len(s)
             l == Len(t)
  <2>1. m \in Nat /\ l \in Nat /\ Len(st) = m + l
    BY <1>1, <1>3
  <2>2. \A i \in 1 .. m + l : st[i] = IF i <= m THEN s[i] ELSE t[i - m]
    BY <1>3
  <2> HIDE DEF m, l
  <2>3. \A i \in 1 .. m : i \in 1 .. m + l /\ i <= m
    BY <2>1
  <2>4. \A i \in 1 .. m + l :
          i \notin 1 .. m => i - m \in 1 .. l /\ ~(i <= m)
    BY <2>1
  <2>5. ASSUME NEW k \in 1 .. l
        PROVE  m + k \in 1 .. m + l /\ st[m + k] = t[k]
    <3>1. m + k \in 1 .. m + l /\ ~(m + k <= m) /\ (m + k) - m = k
      BY <2>1
    <3>2. st[m + k] = t[(m + k) - m]
      BY <2>2, <3>1
    <3>3. QED
      BY <3>1, <3>2
  <2>6. QED
    BY <2>1, <2>2, <2>3, <2>4, <2>5 DEF m, l
<1>6. \A i \in 1 .. Len(st) : IsSource(st[i])
  BY <1>1, <1>5
<1>7. IsSourceList(st)
  BY <1>1, <1>3, <1>4, <1>6, MakesList
<1>8. QED
  BY <1>3, <1>5, <1>7 DEF st

\* What one refresh leaves: the old list, where what is managed is marked, and
\* behind it sources of which the old list had no other.
LEMMA RefreshSkillsIs ==
  ASSUME NEW skills, IsSourceList(skills), Managed(skills) # {}
  PROVE  LET g == RefreshSkills(skills)
             n == Len(skills)
         IN  /\ IsSourceList(g) /\ Len(g) >= n
             /\ \A i \in 1 .. n :
                  /\ i \in 1 .. Len(g)
                  /\ i \in Managed(skills) =>
                       g[i] = [skills[i] EXCEPT !.managed = "yes"]
                  /\ i \notin Managed(skills) => g[i] = skills[i]
             /\ \A i \in 1 .. Len(g) : i \notin 1 .. n =>
                  \E d \in Missing(skills) : g[i] = DefaultSkills[d]
             /\ \A d \in Missing(skills) : \E i \in 1 .. Len(g) :
                  g[i] = DefaultSkills[d]
<1> DEFINE g == RefreshSkills(skills)
           n == Len(skills)
           added == ElementsAt(DefaultSkills, Missing(skills))
           marked == Marked(skills)
<1>1. g = marked \o added
  BY DEF RefreshSkills
<1>2. n \in Nat
  BY ListFacts
<1>3. /\ IsSourceList(added)
      /\ \A k \in 1 .. Len(added) : \E d \in Missing(skills) :
           added[k] = DefaultSkills[d]
      /\ \A d \in Missing(skills) : \E k \in 1 .. Len(added) :
           added[k] = DefaultSkills[d]
  BY AddedIs
<1>4. Len(added) \in Nat
  BY <1>3, ListFacts
<1>5. /\ IsSourceList(marked) /\ Len(marked) = n
      /\ \A i \in 1 .. n :
           /\ i \in Managed(skills) =>
                marked[i] = [skills[i] EXCEPT !.managed = "yes"]
           /\ i \notin Managed(skills) => marked[i] = skills[i]
  BY MarkedIs
<1> HIDE DEF g, n, added, marked
<1>6. /\ IsSourceList(g) /\ Len(g) = n + Len(added)
      /\ \A i \in 1 .. n : g[i] = marked[i]
      /\ \A i \in 1 .. Len(g) : i \notin 1 .. n =>
           /\ i - n \in 1 .. Len(added)
           /\ g[i] = added[i - n]
      /\ \A k \in 1 .. Len(added) :
           n + k \in 1 .. Len(g) /\ g[n + k] = added[k]
  <2> DEFINE j == marked \o added
  <2>1. /\ IsSourceList(j) /\ Len(j) = Len(marked) + Len(added)
        /\ \A i \in 1 .. Len(marked) : j[i] = marked[i]
        /\ \A i \in 1 .. Len(j) : i \notin 1 .. Len(marked) =>
             /\ i - Len(marked) \in 1 .. Len(added)
             /\ j[i] = added[i - Len(marked)]
        /\ \A k \in 1 .. Len(added) :
             /\ Len(marked) + k \in 1 .. Len(j)
             /\ j[Len(marked) + k] = added[k]
    BY <1>3, <1>5, JoinedIs
  <2>2. g = j
    BY <1>1
  <2> HIDE DEF j
  <2>3. QED
    BY <1>5, <2>1, <2>2
<1>7. Len(g) >= n /\ \A i \in 1 .. n : i \in 1 .. Len(g)
  BY <1>2, <1>4, <1>6
<1>8. \A i \in 1 .. Len(g) : i \notin 1 .. n =>
        \E d \in Missing(skills) : g[i] = DefaultSkills[d]
  BY <1>3, <1>6
<1>9. \A d \in Missing(skills) : \E i \in 1 .. Len(g) :
        g[i] = DefaultSkills[d]
  <2>1. SUFFICES ASSUME NEW d \in Missing(skills)
                 PROVE  \E i \in 1 .. Len(g) : g[i] = DefaultSkills[d]
    OBVIOUS
  <2>2. PICK k \in 1 .. Len(added) : added[k] = DefaultSkills[d]
    BY <1>3
  <2>3. n + k \in 1 .. Len(g) /\ g[n + k] = DefaultSkills[d]
    BY <1>6, <2>2
  <2>4. QED
    BY <2>3
<1>10. /\ IsSourceList(g) /\ Len(g) >= n
       /\ \A i \in 1 .. n :
            /\ i \in 1 .. Len(g)
            /\ i \in Managed(skills) =>
                 g[i] = [skills[i] EXCEPT !.managed = "yes"]
            /\ i \notin Managed(skills) => g[i] = skills[i]
  BY <1>5, <1>6, <1>7
<1>11. QED
  BY <1>8, <1>9, <1>10 DEF g, n

LEMMA UnmarkedSame ==
  ASSUME NEW s, IsSource(s)
  PROVE  /\ Unmarked([s EXCEPT !.managed = "yes"]) = Unmarked(s)
         /\ [s EXCEPT !.managed = "yes"].managed = "yes"
         /\ [s EXCEPT !.managed = "yes"].repository = s.repository
         /\ [s EXCEPT !.managed = "yes"].skill = s.skill
         /\ s.managed = "yes" => [s EXCEPT !.managed = "yes"] = s
         /\ Unmarked(s).repository = s.repository
BY DEF IsSource, IsRecord, Unmarked

\* A refreshed list needs no refresh: what jbox added or marked it would not
\* add or mark again, and it made no other source adoptable.
LEMMA SkillsSettle ==
  ASSUME NEW skills, IsSourceList(skills)
  PROVE  RefreshSkills(RefreshSkills(skills)) = RefreshSkills(skills)
<1> DEFINE g == RefreshSkills(skills)
           n == Len(skills)
<1>1. CASE Managed(skills) = {}
  BY <1>1 DEF RefreshSkills
<1>2. CASE Managed(skills) # {}
  <2>1. /\ n \in Nat /\ DOMAIN skills = 1 .. n
        /\ \A i \in 1 .. n : IsSource(skills[i])
    BY ListFacts
  <2>2. /\ IsSourceList(g) /\ Len(g) >= n
        /\ \A i \in 1 .. n :
             /\ i \in 1 .. Len(g)
             /\ i \in Managed(skills) =>
                  g[i] = [skills[i] EXCEPT !.managed = "yes"]
             /\ i \notin Managed(skills) => g[i] = skills[i]
        /\ \A i \in 1 .. Len(g) : i \notin 1 .. n =>
             \E d \in Missing(skills) : g[i] = DefaultSkills[d]
        /\ \A d \in Missing(skills) : \E i \in 1 .. Len(g) :
             g[i] = DefaultSkills[d]
    BY <1>2, RefreshSkillsIs
  <2> HIDE DEF g, n
  <2>3. /\ Len(g) \in Nat /\ DOMAIN g = 1 .. Len(g)
        /\ g = [i \in 1 .. Len(g) |-> g[i]]
        /\ \A i \in 1 .. Len(g) : IsSource(g[i])
    BY <2>2, ListFacts
  <2>4. \A i \in 1 .. n : /\ g[i].repository = skills[i].repository
                          /\ g[i].skill = skills[i].skill
    BY <2>1, <2>2, UnmarkedSame
  <2>5. \A i \in 1 .. Len(g) : i \notin 1 .. n =>
          /\ g[i].managed = "yes"
          /\ \A j \in 1 .. n : g[i].repository # skills[j].repository
    BY <2>1, <2>2, RefreshAssumption DEF Missing
  <2>6. Missing(g) = {}
    <3>1. SUFFICES ASSUME NEW d \in Missing(g) PROVE FALSE
      OBVIOUS
    <3>2. /\ d \in DOMAIN DefaultSkills
          /\ \A i \in 1 .. Len(g) :
               g[i].repository # DefaultSkills[d].repository
      BY <2>3, <3>1 DEF Missing
    <3>3. CASE d \in Missing(skills)
      BY <2>2, <3>2, <3>3
    <3>4. CASE d \notin Missing(skills)
      <4>1. PICK i \in 1 .. n :
              skills[i].repository = DefaultSkills[d].repository
        BY <2>1, <3>2, <3>4 DEF Missing
      <4>2. QED
        BY <2>2, <2>4, <3>2, <4>1
    <3>5. QED
      BY <3>3, <3>4
  <2>7. ASSUME NEW i \in 1 .. n, i \notin Managed(skills)
        PROVE  i \notin Managed(g)
    <3>1. /\ g[i] = skills[i] /\ skills[i].managed # "yes"
          /\ ~Adoptable(skills[i], skills) /\ i \in 1 .. Len(g)
      BY <2>1, <2>2, <2>7 DEF Managed
    <3>2. {j \in 1 .. Len(g) : SameIdentity(g[j], skills[i])}
            = {j \in 1 .. n : SameIdentity(skills[j], skills[i])}
      <4>1. \A j \in 1 .. Len(g) : j \notin 1 .. n =>
              ~SameIdentity(g[j], skills[i])
        BY <2>5 DEF SameIdentity
      <4>2. \A j \in 1 .. n :
              /\ j \in 1 .. Len(g)
              /\ SameIdentity(g[j], skills[i])
                   <=> SameIdentity(skills[j], skills[i])
        BY <2>2, <2>4 DEF SameIdentity
      <4>3. QED
        BY <4>1, <4>2
    <3>3. Adoptable(g[i], g) = Adoptable(skills[i], skills)
      BY <2>1, <2>3, <3>1, <3>2 DEF Adoptable
    <3>4. QED
      BY <3>1, <3>3 DEF Managed
  <2>8. \A i \in 1 .. Len(g) :
          i \in Managed(g) => [g[i] EXCEPT !.managed = "yes"] = g[i]
    <3>1. SUFFICES ASSUME NEW i \in 1 .. Len(g), i \in Managed(g)
                   PROVE  g[i].managed = "yes"
      BY <2>3, UnmarkedSame
    <3>2. CASE i \in 1 .. n
      <4>1. i \in Managed(skills)
        BY <2>7, <3>1, <3>2
      <4>2. g[i] = [skills[i] EXCEPT !.managed = "yes"] /\ IsSource(skills[i])
        BY <2>1, <2>2, <3>2, <4>1
      <4>3. QED
        BY <4>2, UnmarkedSame
    <3>3. QED
      BY <2>5, <3>2
  <2>9. Marked(g) = g
    BY <2>3, <2>8 DEF Marked
  <2>10. ElementsAt(DefaultSkills, Missing(g)) = << >>
    BY <2>6, FS_EmptySet DEF ElementsAt
  <2>11. g \o << >> = g
    <3>1. g \in Seq({g[i] : i \in DOMAIN g})
      BY <2>2 DEF IsSourceList
    <3>2. QED
      BY <3>1, ConcatEmptySeq
  <2>12. RefreshSkills(g) = g
    BY <2>9, <2>10, <2>11 DEF RefreshSkills
  <2>13. QED
    BY <2>12 DEF g
<1>3. QED
  BY <1>1, <1>2

\* What is added has no source of the project's beside it.
LEMMA OwnedSkillsKept ==
  ASSUME NEW skills, IsSourceList(skills)
  PROVE  LET g == RefreshSkills(skills)
             Listed(list) == {Unmarked(list[i]) : i \in DOMAIN list}
             Own(list) == {s \in Listed(list) :
                             \E t \in Listed(list) \ ShippedSources :
                               t.repository = s.repository}
         IN  Own(g) = Own(skills)
<1> DEFINE g == RefreshSkills(skills)
           n == Len(skills)
           Listed(list) == {Unmarked(list[i]) : i \in DOMAIN list}
           added == {Unmarked(DefaultSkills[d]) : d \in Missing(skills)}
           old == Listed(skills)
           new == Listed(g)
<1>1. CASE Managed(skills) = {}
  BY <1>1 DEF RefreshSkills
<1>2. CASE Managed(skills) # {}
  <2>1. /\ n \in Nat /\ DOMAIN skills = 1 .. n
        /\ \A i \in 1 .. n : IsSource(skills[i])
    BY ListFacts
  <2>2. /\ IsSourceList(g)
        /\ \A i \in 1 .. n :
             /\ i \in 1 .. Len(g)
             /\ i \in Managed(skills) =>
                  g[i] = [skills[i] EXCEPT !.managed = "yes"]
             /\ i \notin Managed(skills) => g[i] = skills[i]
        /\ \A i \in 1 .. Len(g) : i \notin 1 .. n =>
             \E d \in Missing(skills) : g[i] = DefaultSkills[d]
        /\ \A d \in Missing(skills) : \E i \in 1 .. Len(g) :
             g[i] = DefaultSkills[d]
    BY <1>2, RefreshSkillsIs
  <2> HIDE DEF g, n
  <2>3. DOMAIN g = 1 .. Len(g)
    BY <2>2, ListFacts
  <2>4. \A i \in 1 .. n : Unmarked(g[i]) = Unmarked(skills[i])
    BY <2>1, <2>2, UnmarkedSame
  <2>5. new = old \cup added
    <3>1. new = {Unmarked(g[i]) : i \in 1 .. Len(g)}
      BY <2>3
    <3>2. old = {Unmarked(skills[i]) : i \in 1 .. n}
      BY <2>1
    <3> HIDE DEF new, old
    <3>3. \A i \in 1 .. Len(g) : Unmarked(g[i]) \in old \cup added
      <4>1. ASSUME NEW i \in 1 .. Len(g), i \in 1 .. n
            PROVE  Unmarked(g[i]) \in old
        BY <2>4, <3>2, <4>1
      <4>2. ASSUME NEW i \in 1 .. Len(g), i \notin 1 .. n
            PROVE  Unmarked(g[i]) \in added
        BY <2>2, <4>2
      <4>3. QED
        BY <4>1, <4>2
    <3>4. old \subseteq new
      BY <2>2, <2>4, <3>1, <3>2
    <3>5. added \subseteq new
      BY <2>2, <3>1
    <3>6. QED
      BY <3>1, <3>3, <3>4, <3>5
  <2>6. added \subseteq ShippedSources
    BY DEF ShippedSources, Missing
  <2>7. \A a \in added : \A t \in old : t.repository # a.repository
    <3>1. ASSUME NEW d \in Missing(skills), NEW i \in 1 .. n
          PROVE  Unmarked(skills[i]).repository
                   # Unmarked(DefaultSkills[d]).repository
      <4>1. /\ d \in DOMAIN DefaultSkills
            /\ skills[i].repository # DefaultSkills[d].repository
        BY <2>1 DEF Missing
      <4>2. IsSource(DefaultSkills[d]) /\ IsSource(skills[i])
        BY <2>1, <4>1, RefreshAssumption DEF IsSourceList
      <4>3. QED
        BY <4>1, <4>2, UnmarkedSame
    <3>2. QED
      BY <2>1, <3>1
  <2> HIDE DEF new, old, added
  <2>8. {s \in new : \E t \in new \ ShippedSources :
                       t.repository = s.repository}
          = {s \in old : \E t \in old \ ShippedSources :
                       t.repository = s.repository}
    BY <2>5, <2>6, <2>7
  <2>9. QED
    BY <2>8 DEF new, old, g
<1>3. QED
  BY <1>1, <1>2

-----------------------------------------------------------------------------
(***************************************************************************)
(* What a refresh does to a file                                           *)
(***************************************************************************)

LEMMA NewestIsRefreshed ==
  ASSUME NEW version \in Seq(Nat)
  PROVE  VersionAtMost(version, version)
<1>1. /\ Len(version) \in Nat /\ DOMAIN version = 1 .. Len(version)
      /\ version = [i \in DOMAIN version |-> version[i]]
  BY LenProperties
<1>2. [i \in DOMAIN version |-> IF i <= Len(version) THEN version[i] ELSE 0]
        = version
  BY <1>1
<1>3. QED
  BY <1>1, <1>2 DEF VersionAtMost

Fields == {"valid", "written", "provider", "family", "version", "lowEffort",
           "skills", "prompt", "legacy"}

LEMMA RefreshIs ==
  ASSUME NEW f, IsFile(f)
  PROVE  LET g == Refresh(f)
         IN  /\ IsFile(g)
             /\ g.valid = f.valid /\ g.written = f.written
             /\ g.provider = f.provider /\ g.family = f.family
             /\ g.lowEffort = f.lowEffort
             /\ g.version = IF RefreshesModel(f) THEN Families[f.family].newest
                            ELSE f.version
             /\ g.skills = RefreshSkills(f.skills)
             /\ g.prompt = "current" /\ g.legacy = "absent"
<1> DEFINE g == Refresh(f)
           v == IF RefreshesModel(f) THEN Families[f.family].newest
                ELSE f.version
           skills == RefreshSkills(f.skills)
<1>1. /\ f = [field \in Fields |-> f[field]] /\ f.valid \in BOOLEAN
      /\ f.version \in Seq(Nat) /\ IsSourceList(f.skills)
  BY DEF IsFile, IsRecord, Fields
<1>2. g = [f EXCEPT !.version = v, !.skills = skills, !.legacy = "absent",
                    !.prompt = "current"]
  BY DEF Refresh
<1>3. v \in Seq(Nat)
  BY <1>1, RefreshAssumption DEF RefreshesModel
<1>4. IsSourceList(skills)
  <2>1. CASE Managed(f.skills) = {}
    BY <1>1, <2>1 DEF RefreshSkills
  <2>2. CASE Managed(f.skills) # {}
    BY <1>1, <2>2, RefreshSkillsIs
  <2>3. QED
    BY <2>1, <2>2
<1> HIDE DEF g, v, skills
<1>5. /\ g = [field \in Fields |-> g[field]]
      /\ g.valid = f.valid /\ g.written = f.written
      /\ g.provider = f.provider /\ g.family = f.family
      /\ g.lowEffort = f.lowEffort
      /\ g.version = v /\ g.skills = skills
      /\ g.prompt = "current" /\ g.legacy = "absent"
  BY <1>1, <1>2 DEF Fields
<1>6. IsFile(g)
  BY <1>1, <1>3, <1>4, <1>5 DEF IsFile, IsRecord, Fields
<1>7. QED
  BY <1>5, <1>6 DEF g, v, skills

LEMMA ModelSettles ==
  ASSUME NEW f, IsFile(f)
  PROVE  RefreshesModel(Refresh(f)) <=> RefreshesModel(f)
<1> DEFINE g == Refresh(f)
<1>1. /\ g.provider = f.provider /\ g.family = f.family
      /\ g.lowEffort = f.lowEffort
      /\ g.version = IF RefreshesModel(f) THEN Families[f.family].newest
                     ELSE f.version
  BY RefreshIs
<1> HIDE DEF g
<1>2. CASE RefreshesModel(f)
  <2>1. VersionAtMost(g.version, Families[f.family].newest)
    BY <1>1, <1>2, RefreshAssumption, NewestIsRefreshed DEF RefreshesModel
  <2>2. RefreshesModel(g)
    BY <1>1, <1>2, <2>1 DEF RefreshesModel
  <2>3. QED
    BY <1>2, <2>2 DEF g
<1>3. CASE ~RefreshesModel(f)
  <2>1. ~RefreshesModel(g)
    BY <1>1, <1>3 DEF RefreshesModel
  <2>2. QED
    BY <1>3, <2>1 DEF g
<1>4. QED
  BY <1>2, <1>3

(* A refreshed file needs no other refresh: `jbox init --update` run twice *)
(* in a row changes nothing the second time (init.rs 55-68).               *)
THEOREM RefreshSettles ==
  ASSUME NEW f, IsFile(f)
  PROVE  Refresh(Refresh(f)) = Refresh(f)
<1> DEFINE g == Refresh(f)
           h == Refresh(g)
<1>1. /\ IsFile(g) /\ g.prompt = "current" /\ g.legacy = "absent"
      /\ g.family = f.family
      /\ g.version = IF RefreshesModel(f) THEN Families[f.family].newest
                     ELSE f.version
      /\ g.skills = RefreshSkills(f.skills)
  BY RefreshIs
<1>2. RefreshesModel(g) <=> RefreshesModel(f)
  BY ModelSettles
<1>3. IsSourceList(f.skills)
  BY DEF IsFile
<1> HIDE DEF g
<1>4. /\ IsFile(h) /\ h.prompt = "current" /\ h.legacy = "absent"
      /\ h.valid = g.valid /\ h.written = g.written
      /\ h.provider = g.provider /\ h.family = g.family
      /\ h.lowEffort = g.lowEffort
      /\ h.version = IF RefreshesModel(g) THEN Families[g.family].newest
                     ELSE g.version
      /\ h.skills = RefreshSkills(g.skills)
  BY <1>1, RefreshIs
<1> HIDE DEF h
<1>5. h.version = g.version
  BY <1>1, <1>2, <1>4
<1>6. h.skills = g.skills
  BY <1>1, <1>3, <1>4, SkillsSettle
<1>7. /\ h = [field \in Fields |-> h[field]]
      /\ g = [field \in Fields |-> g[field]]
  BY <1>1, <1>4 DEF IsFile, IsRecord, Fields
<1>8. \A field \in Fields : h[field] = g[field]
  BY <1>1, <1>4, <1>5, <1>6 DEF Fields
<1>9. h = g
  BY <1>7, <1>8
<1>10. QED
  BY <1>9 DEF g, h

(* A refresh leaves what is the project's: what people wrote, the skills   *)
(* of every repository it has a selection of, and a model it chose.        *)
THEOREM RefreshKeepsOwned ==
  ASSUME NEW f, IsFile(f)
  PROVE  OwnedPart(Refresh(f)) = OwnedPart(f)
<1> DEFINE g == Refresh(f)
<1>1. /\ g.written = f.written
      /\ g.provider = f.provider /\ g.family = f.family
      /\ g.version = IF RefreshesModel(f) THEN Families[f.family].newest
                     ELSE f.version
      /\ g.skills = RefreshSkills(f.skills)
  BY RefreshIs
<1>2. RefreshesModel(g) <=> RefreshesModel(f)
  BY ModelSettles
<1>3. IsSourceList(f.skills)
  BY DEF IsFile
<1> HIDE DEF g
<1>4. {s \in ListedSources(g) : \E t \in ListedSources(g) \ ShippedSources :
                                  t.repository = s.repository}
        = {s \in ListedSources(f) : \E t \in ListedSources(f) \ ShippedSources :
                                  t.repository = s.repository}
  BY <1>1, <1>3, OwnedSkillsKept DEF ListedSources
<1>5. <<g.provider, g.family, IF RefreshesModel(g) THEN <<>> ELSE g.version>>
        = <<f.provider, f.family, IF RefreshesModel(f) THEN <<>> ELSE f.version>>
  BY <1>1, <1>2
<1>6. OwnedPart(g) = OwnedPart(f)
  BY <1>1, <1>4, <1>5 DEF OwnedPart
<1>7. QED
  BY <1>6 DEF g

(* jbox's own check of what it is about to write never refuses it          *)
(* (init.rs 201-255).                                                      *)
THEOREM RefreshIsNeverRefused ==
  ASSUME NEW f, IsFile(f)
  PROVE  ProjectPreserved(f, Refresh(f))
<1> DEFINE g == Refresh(f)
           n == Len(f.skills)
<1>1. g.written = f.written /\ g.skills = RefreshSkills(f.skills)
  BY RefreshIs
<1>2. IsSourceList(f.skills)
  BY DEF IsFile
<1>3. /\ n \in Nat
      /\ \A i \in 1 .. n : IsSource(f.skills[i])
  BY <1>2, ListFacts
<1> HIDE DEF g
<1>4. /\ Len(g.skills) >= n
      /\ \A i \in 1 .. n : Unmarked(g.skills[i]) = Unmarked(f.skills[i])
  <2>1. CASE Managed(f.skills) = {}
    BY <1>1, <1>3, <2>1 DEF RefreshSkills
  <2>2. CASE Managed(f.skills) # {}
    <3>1. /\ Len(g.skills) >= n
          /\ \A i \in 1 .. n :
               /\ i \in Managed(f.skills) =>
                    g.skills[i] = [f.skills[i] EXCEPT !.managed = "yes"]
               /\ i \notin Managed(f.skills) => g.skills[i] = f.skills[i]
      BY <1>1, <1>2, <2>2, RefreshSkillsIs
    <3>2. QED
      BY <1>3, <3>1, UnmarkedSame
  <2>3. QED
    BY <2>1, <2>2
<1>5. Selection(g.skills, n) = Selection(f.skills, n)
  BY <1>4 DEF Selection, Unmarked
<1>6. ProjectPreserved(f, g)
  BY <1>1, <1>4, <1>5 DEF ProjectPreserved
<1>7. QED
  BY <1>6 DEF g

-----------------------------------------------------------------------------
(***************************************************************************)
(* Types, locks and what an updater has read                               *)
(***************************************************************************)
Locking == {"read", "stage", "recheck", "identify", "persist"}
WithFile == {"stage", "recheck", "identify", "persist"}

FileType ==
  /\ saves \in 0 .. Saves
  /\ IsFile(toml) /\ toml.written \in 0 .. Saves
  /\ inode \in Nat /\ folder \in 0 .. saves

UpdaterType ==
  /\ updater = [u \in Updaters |-> updater[u]]
  /\ \A u \in Updaters :
       /\ IsRecord(updater[u], {"at", "read", "inode", "folder"})
       /\ updater[u].at \in UpdaterStages
       /\ updater[u].folder \in 0 .. Saves

LockType == lockHolder \in [0 .. Saves -> Updaters \cup {Nobody}]

Locked ==
  \A u \in Updaters :
    updater[u].at \in Locking => lockHolder[updater[u].folder] = u

\* What an updater holds is a file as it was, that it has reason to refresh.
HasRead ==
  \A u \in Updaters :
    updater[u].at \in WithFile =>
      /\ IsFile(updater[u].read) /\ updater[u].read.written \in 0 .. Saves
      /\ updater[u].read.valid
      /\ Refresh(updater[u].read) # updater[u].read

RefreshTypes == FileType /\ UpdaterType /\ LockType /\ Locked /\ HasRead

LEMMA StageFacts ==
  /\ \A stage \in Locking : stage \in UpdaterStages
  /\ "start" \in UpdaterStages /\ "ended" \in UpdaterStages
  /\ "start" \notin Locking /\ "ended" \notin Locking
  /\ WithFile \subseteq Locking /\ "read" \notin WithFile
BY DEF Locking, WithFile, UpdaterStages

LEMMA SavesFacts ==
  ASSUME FileType
  PROVE  /\ Saves \in Nat /\ 0 \in 0 .. Saves
         /\ saves \in Nat /\ folder \in 0 .. Saves
BY RefreshAssumption DEF FileType

\* One updater goes on with what it has.
LEMMA ProceedsIs ==
  ASSUME UpdaterType, NEW u \in Updaters, NEW stage \in UpdaterStages,
         Proceeds(u, stage)
  PROVE  /\ UpdaterType'
         /\ updater'[u].at = stage /\ updater'[u].read = updater[u].read
         /\ updater'[u].folder = updater[u].folder
         /\ \A v \in Updaters \ {u} : updater'[v] = updater[v]
<1>1. updater' = [updater EXCEPT ![u].at = stage]
  BY DEF Proceeds
<1>2. updater[u] = [field \in {"at", "read", "inode", "folder"} |->
                      updater[u][field]]
  BY DEF UpdaterType, IsRecord
<1>3. /\ updater'[u] = [updater[u] EXCEPT !.at = stage]
      /\ \A v \in Updaters \ {u} : updater'[v] = updater[v]
      /\ updater' = [v \in Updaters |-> updater'[v]]
  BY <1>1 DEF UpdaterType
<1>4. /\ updater'[u].at = stage /\ updater'[u].read = updater[u].read
      /\ updater'[u].folder = updater[u].folder
      /\ updater'[u] = [field \in {"at", "read", "inode", "folder"} |->
                          updater'[u][field]]
  BY <1>2, <1>3
<1>5. UpdaterType'
  BY <1>3, <1>4 DEF UpdaterType, IsRecord
<1>6. QED
  BY <1>3, <1>4, <1>5

\* An updater that ends has no lock any more; the others have theirs.
LEMMA EndsIs ==
  ASSUME UpdaterType, LockType, Locked, HasRead, NEW u \in Updaters,
         EndsUpdate(u)
  PROVE  /\ UpdaterType' /\ LockType' /\ Locked' /\ HasRead'
         /\ updater'[u].at = "ended"
         /\ \A v \in Updaters \ {u} : updater'[v] = updater[v]
<1>1. /\ UpdaterType' /\ updater'[u].at = "ended"
      /\ \A v \in Updaters \ {u} : updater'[v] = updater[v]
  BY ProceedsIs, StageFacts DEF EndsUpdate
<1>2. LockType'
  BY DEF EndsUpdate, LockType
<1>3. Locked'
  <2>1. SUFFICES ASSUME NEW v \in Updaters, updater'[v].at \in Locking
                 PROVE  lockHolder'[updater'[v].folder] = v
    BY DEF Locked
  <2>2. v # u /\ updater'[v] = updater[v]
    BY <1>1, <2>1, StageFacts
  <2>3. updater[v].folder \in 0 .. Saves /\ lockHolder[updater[v].folder] = v
    BY <2>1, <2>2 DEF Locked, UpdaterType
  <2>4. QED
    BY <2>2, <2>3 DEF EndsUpdate, LockType
<1>4. HasRead'
  <2>1. \A v \in Updaters :
          updater'[v].at \in WithFile => updater'[v] = updater[v]
    BY <1>1, StageFacts
  <2>2. QED
    BY <2>1 DEF HasRead
<1>5. QED
  BY <1>1, <1>2, <1>3, <1>4

\* It goes on under its lock, with the file it has.
LEMMA UpdaterGoesOn ==
  ASSUME UpdaterType, LockType, Locked, HasRead, NEW u \in Updaters,
         NEW stage \in WithFile,
         updater[u].at \in WithFile, Proceeds(u, stage), UNCHANGED lockHolder
  PROVE  UpdaterType' /\ LockType' /\ Locked' /\ HasRead'
<1>1. /\ UpdaterType'
      /\ updater'[u].read = updater[u].read
      /\ updater'[u].folder = updater[u].folder
      /\ \A v \in Updaters \ {u} : updater'[v] = updater[v]
  BY ProceedsIs, StageFacts
<1>2. LockType' /\ updater[u].at \in Locking
  BY StageFacts DEF LockType
<1>3. Locked'
  BY <1>1, <1>2 DEF Locked
<1>4. HasRead'
  BY <1>1 DEF HasRead
<1>5. QED
  BY <1>1, <1>2, <1>3, <1>4

LEMMA RefreshTypesInit == RefreshInit => RefreshTypes
<1> SUFFICES ASSUME RefreshInit PROVE RefreshTypes
  OBVIOUS
<1> USE DEF RefreshInit
<1>1. FileType
  <2>1. PICK f \in Files : toml = [f EXCEPT !.written = 0]
    OBVIOUS
  <2>2. IsFile(f)
    BY RefreshAssumption
  <2>3. IsFile(toml) /\ toml.written = 0
    BY <2>1, <2>2 DEF IsFile, IsRecord
  <2>4. QED
    BY <2>3, RefreshAssumption DEF FileType
<1>2. \A u \in Updaters : updater[u] = Idle
  OBVIOUS
<1>3. UpdaterType
  BY <1>2, RefreshAssumption, StageFacts DEF UpdaterType, Idle, IsRecord
<1>4. LockType
  BY DEF LockType
<1>5. Locked /\ HasRead
  BY <1>2, StageFacts DEF Locked, HasRead, Idle
<1>6. QED
  BY <1>1, <1>3, <1>4, <1>5 DEF RefreshTypes

LEMMA RefreshTypesStep ==
  ASSUME RefreshTypes, [RefreshNext]_configVars
  PROVE  RefreshTypes'
<1>1. FileType /\ UpdaterType /\ LockType /\ Locked /\ HasRead
  BY DEF RefreshTypes
<1>2. ASSUME UNCHANGED <<toml, inode, folder, saves>>
      PROVE  FileType'
  BY <1>1, <1>2 DEF FileType
<1>3. ASSUME NEW u \in Updaters, EndsUpdate(u), FileType'
      PROVE  RefreshTypes'
  BY <1>1, <1>3, EndsIs DEF RefreshTypes
<1>4. ASSUME NEW u \in Updaters, LockFolder(u)
      PROVE  RefreshTypes'
  <2>1. FileType'
    BY <1>2, <1>4 DEF LockFolder
  <2>2. CASE lockHolder[folder] = Nobody
    <3>1. /\ lockHolder' = [lockHolder EXCEPT ![folder] = u]
          /\ updater' = [updater EXCEPT ![u] =
                           [@ EXCEPT !.at = "read", !.folder = folder]]
      BY <1>4, <2>2 DEF LockFolder
    <3>2. folder \in 0 .. Saves
      BY <1>1, SavesFacts
    <3>3. /\ updater'[u] = [updater[u] EXCEPT !.at = "read", !.folder = folder]
          /\ \A v \in Updaters \ {u} : updater'[v] = updater[v]
          /\ updater' = [v \in Updaters |-> updater'[v]]
      BY <1>1, <3>1 DEF UpdaterType
    <3>4. IsRecord(updater[u], {"at", "read", "inode", "folder"})
      BY <1>1 DEF UpdaterType
    <3>5. /\ updater'[u].at = "read" /\ updater'[u].folder = folder
          /\ IsRecord(updater'[u], {"at", "read", "inode", "folder"})
      BY <3>3, <3>4 DEF IsRecord
    <3>6. UpdaterType'
      BY <1>1, <3>2, <3>3, <3>5, StageFacts DEF UpdaterType, Locking
    <3>7. LockType'
      BY <1>1, <3>1 DEF LockType
    <3>8. Locked'
      <4>1. SUFFICES ASSUME NEW v \in Updaters, updater'[v].at \in Locking
                     PROVE  lockHolder'[updater'[v].folder] = v
        BY DEF Locked
      <4>2. CASE v = u
        BY <1>1, <3>1, <3>2, <3>5, <4>2 DEF LockType
      <4>3. CASE v # u
        <5>1. /\ lockHolder[updater[v].folder] = v
              /\ updater'[v] = updater[v]
          BY <1>1, <3>3, <4>1, <4>3 DEF Locked
        <5>2. updater[v].folder # folder
          BY <2>2, <5>1, RefreshAssumption DEF Nobody
        <5>3. updater[v].folder \in 0 .. Saves
          BY <1>1 DEF UpdaterType
        <5>4. QED
          BY <1>1, <3>1, <5>1, <5>2, <5>3 DEF LockType
      <4>4. QED
        BY <4>2, <4>3
    <3>9. HasRead'
      <4>1. \A v \in Updaters :
              updater'[v].at \in WithFile => updater'[v] = updater[v]
        BY <3>3, <3>5, StageFacts
      <4>2. QED
        BY <1>1, <4>1 DEF HasRead
    <3>10. QED
      BY <2>1, <3>6, <3>7, <3>8, <3>9 DEF RefreshTypes
  <2>3. CASE lockHolder[folder] # Nobody
    BY <1>3, <1>4, <2>1, <2>3 DEF LockFolder
  <2>4. QED
    BY <2>2, <2>3
<1>5. ASSUME NEW u \in Updaters, ReadConfig(u)
      PROVE  RefreshTypes'
  <2>1. FileType'
    BY <1>2, <1>5 DEF ReadConfig
  <2>2. CASE Refreshable(toml) /\ Refresh(toml) # toml
    <3>1. /\ updater' = [updater EXCEPT ![u] =
               [@ EXCEPT !.at = "stage", !.read = toml, !.inode = inode]]
          /\ UNCHANGED lockHolder /\ updater[u].at = "read"
      BY <1>5, <2>2 DEF ReadConfig, AtStage
    <3>2. /\ updater'[u] = [updater[u] EXCEPT !.at = "stage", !.read = toml,
                                              !.inode = inode]
          /\ \A v \in Updaters \ {u} : updater'[v] = updater[v]
          /\ updater' = [v \in Updaters |-> updater'[v]]
      BY <1>1, <3>1 DEF UpdaterType
    <3>3. IsRecord(updater[u], {"at", "read", "inode", "folder"})
      BY <1>1 DEF UpdaterType
    <3>4. /\ updater'[u].at = "stage" /\ updater'[u].read = toml
          /\ updater'[u].folder = updater[u].folder
          /\ IsRecord(updater'[u], {"at", "read", "inode", "folder"})
      BY <3>2, <3>3 DEF IsRecord
    <3>5. UpdaterType'
      BY <1>1, <3>2, <3>4, StageFacts DEF UpdaterType, Locking
    <3>6. LockType' /\ Locked'
      BY <1>1, <3>1, <3>2, <3>4, StageFacts DEF LockType, Locked, Locking
    <3>7. /\ IsFile(toml) /\ toml.written \in 0 .. Saves /\ toml.valid
          /\ Refresh(toml) # toml
      BY <1>1, <2>2 DEF FileType, Refreshable
    <3>8. HasRead'
      BY <1>1, <3>2, <3>4, <3>7 DEF HasRead
    <3>9. QED
      BY <2>1, <3>5, <3>6, <3>8 DEF RefreshTypes
  <2>3. QED
    BY <1>3, <1>5, <2>1, <2>2 DEF ReadConfig
<1>6. ASSUME NEW u \in Updaters,
             StageUpdate(u) \/ EnsureUnchanged(u) \/ CheckFolder(u)
      PROVE  RefreshTypes'
  <2>1. FileType' /\ updater[u].at \in WithFile
    BY <1>2, <1>6
    DEF StageUpdate, EnsureUnchanged, CheckFolder, AtStage, WithFile
  <2>2. \/ EndsUpdate(u)
        \/ \E stage \in WithFile : Proceeds(u, stage) /\ UNCHANGED lockHolder
    BY <1>6 DEF StageUpdate, EnsureUnchanged, CheckFolder, WithFile
  <2>3. QED
    BY <1>1, <1>3, <2>1, <2>2, UpdaterGoesOn DEF RefreshTypes
<1>7. ASSUME NEW u \in Updaters, PersistUpdate(u)
      PROVE  RefreshTypes'
  <2>1. EndsUpdate(u) /\ UNCHANGED <<folder, saves>> /\ updater[u].at = "persist"
    BY <1>7 DEF PersistUpdate, AtStage
  <2>2. CASE folder = updater[u].folder
    <3>1. /\ IsFile(updater[u].read)
          /\ updater[u].read.written \in 0 .. Saves
      BY <1>1, <2>1 DEF HasRead, WithFile
    <3>2. toml' = Refresh(updater[u].read) /\ inode' = inode + 1
      BY <1>7, <2>2 DEF PersistUpdate
    <3>3. IsFile(toml') /\ toml'.written = updater[u].read.written
      BY <3>1, <3>2, RefreshIs
    <3>4. FileType'
      BY <1>1, <2>1, <3>1, <3>2, <3>3 DEF FileType
    <3>5. QED
      BY <1>3, <2>1, <3>4
  <2>3. CASE folder # updater[u].folder
    BY <1>2, <1>3, <1>7, <2>1, <2>3 DEF PersistUpdate
  <2>4. QED
    BY <2>2, <2>3
<1>8. ASSUME NEW u \in Updaters, UpdateDies(u)
      PROVE  RefreshTypes'
  BY <1>2, <1>3, <1>8 DEF UpdateDies
<1>9. CASE EditorSaves
  <2>1. PICK f \in Files : toml' = [f EXCEPT !.written = saves + 1]
    BY <1>9 DEF EditorSaves
  <2>2. IsFile(f)
    BY RefreshAssumption
  <2>3. IsFile(toml') /\ toml'.written = saves + 1
    BY <2>1, <2>2 DEF IsFile, IsRecord
  <2>4. /\ saves < Saves /\ saves' = saves + 1
        /\ inode' \in {inode, inode + 1} /\ folder' \in {folder, folder + 1}
        /\ UNCHANGED <<lockHolder, updater>>
    BY <1>9 DEF EditorSaves
  <2>5. /\ saves \in Nat /\ Saves \in Nat
        /\ saves + 1 \in 0 .. Saves /\ folder \in 0 .. saves /\ inode \in Nat
    BY <1>1, <2>4, RefreshAssumption DEF FileType
  <2>6. folder' \in 0 .. saves' /\ inode' \in Nat
    BY <2>4, <2>5
  <2>7. FileType'
    BY <2>3, <2>4, <2>5, <2>6 DEF FileType
  <2>8. QED
    BY <1>1, <2>4, <2>7 DEF RefreshTypes, UpdaterType, LockType, Locked, HasRead
<1>10. CASE UNCHANGED configVars
  BY <1>1, <1>10
  DEF configVars, RefreshTypes, FileType, UpdaterType, LockType, Locked, HasRead
<1>11. QED
  BY <1>4, <1>5, <1>6, <1>7, <1>8, <1>9, <1>10 DEF RefreshNext

(* What the file is, and who is at what stage, is always one of what the   *)
(* code knows, whoever edits the file when.                                *)
THEOREM RefreshTypesCorrect == ConfigRefreshSpec => []RefreshTypeOK
<1>1. RefreshTypes => RefreshTypeOK
  BY SavesFacts DEF RefreshTypes, FileType, UpdaterType, LockType, RefreshTypeOK
<1>2. ConfigRefreshSpec => []RefreshTypes
  BY RefreshTypesInit, RefreshTypesStep, PTL DEF ConfigRefreshSpec
<1>3. QED
  BY <1>1, <1>2, PTL

-----------------------------------------------------------------------------
(***************************************************************************)
(* The refinement                                                          *)
(***************************************************************************)

\* Nobody saves the file between the last comparison and the rename.
EditorsMissTheRename == EditsAt \cap {"identify", "persist"} = {}

\* Then an updater that is past the comparison, and still in its directory, is
\* about to replace what the file holds.
Unraced ==
  /\ toml.written = saves
  /\ \A u \in Updaters :
       updater[u].at \in {"identify", "persist"} /\ updater[u].folder = folder =>
         toml = updater[u].read

LEMMA UnracedInit == RefreshInit => Unraced
<1> SUFFICES ASSUME RefreshInit PROVE Unraced
  OBVIOUS
<1> USE DEF RefreshInit
<1>1. PICK f \in Files : toml = [f EXCEPT !.written = 0]
  OBVIOUS
<1>2. toml.written = 0
  BY <1>1, RefreshAssumption DEF IsFile, IsRecord
<1>3. QED
  BY <1>2 DEF Unraced, Idle

\* A step of the code is a step of AtomicRefresh or none, and nothing comes
\* between an updater and its rename.
LEMMA UnracedStep ==
  ASSUME EditorsMissTheRename, RefreshTypes, Unraced, [RefreshNext]_configVars
  PROVE  Unraced' /\ [Abstract!Edit \/ Abstract!Update]_toml
<1>1. FileType /\ UpdaterType /\ LockType /\ Locked /\ HasRead
  BY DEF RefreshTypes
<1>2. ASSUME UNCHANGED <<toml, folder, saves>>, NEW u \in Updaters,
             \A v \in Updaters \ {u} : updater'[v] = updater[v],
             updater'[u].at \in {"identify", "persist"} =>
               /\ updater'[u].read = updater[u].read
               /\ updater'[u].folder = updater[u].folder
               /\ updater[u].folder = folder =>
                    \/ updater[u].at \in {"identify", "persist"}
                    \/ toml = updater[u].read
      PROVE  Unraced' /\ [Abstract!Edit \/ Abstract!Update]_toml
  BY <1>2 DEF Unraced
<1>3. ASSUME UNCHANGED <<toml, folder, saves>>, NEW u \in Updaters,
             EndsUpdate(u)
      PROVE  Unraced' /\ [Abstract!Edit \/ Abstract!Update]_toml
  BY <1>1, <1>2, <1>3, EndsIs
<1>4. ASSUME UNCHANGED <<toml, folder, saves>>, NEW u \in Updaters,
             NEW stage \in UpdaterStages, Proceeds(u, stage),
             stage \in {"identify", "persist"} =>
               \/ updater[u].at \in {"identify", "persist"}
               \/ toml = updater[u].read
      PROVE  Unraced' /\ [Abstract!Edit \/ Abstract!Update]_toml
  BY <1>1, <1>2, <1>4, ProceedsIs
<1>5. ASSUME NEW u \in Updaters, LockFolder(u)
      PROVE  Unraced' /\ [Abstract!Edit \/ Abstract!Update]_toml
  <2>1. UNCHANGED <<toml, folder, saves>>
    BY <1>5 DEF LockFolder
  <2>2. CASE updater' = [updater EXCEPT ![u] =
                           [@ EXCEPT !.at = "read", !.folder = folder]]
    <3>1. /\ \A v \in Updaters \ {u} : updater'[v] = updater[v]
          /\ updater'[u].at = "read"
      BY <1>1, <2>2 DEF UpdaterType, IsRecord
    <3>2. QED
      BY <1>2, <2>1, <3>1
  <2>3. QED
    BY <1>3, <1>5, <2>1, <2>2 DEF LockFolder
<1>6. ASSUME NEW u \in Updaters, ReadConfig(u)
      PROVE  Unraced' /\ [Abstract!Edit \/ Abstract!Update]_toml
  <2>1. UNCHANGED <<toml, folder, saves>>
    BY <1>6 DEF ReadConfig
  <2>2. CASE updater' = [updater EXCEPT ![u] =
               [@ EXCEPT !.at = "stage", !.read = toml, !.inode = inode]]
    <3>1. /\ \A v \in Updaters \ {u} : updater'[v] = updater[v]
          /\ updater'[u].at = "stage"
      BY <1>1, <2>2 DEF UpdaterType, IsRecord
    <3>2. QED
      BY <1>2, <2>1, <3>1
  <2>3. QED
    BY <1>3, <1>6, <2>1, <2>2 DEF ReadConfig
<1>7. ASSUME NEW u \in Updaters, StageUpdate(u)
      PROVE  Unraced' /\ [Abstract!Edit \/ Abstract!Update]_toml
  BY <1>3, <1>4, <1>7, StageFacts DEF StageUpdate, Locking
<1>8. ASSUME NEW u \in Updaters, EnsureUnchanged(u)
      PROVE  Unraced' /\ [Abstract!Edit \/ Abstract!Update]_toml
  BY <1>3, <1>4, <1>8, StageFacts DEF EnsureUnchanged, Locking
<1>9. ASSUME NEW u \in Updaters, CheckFolder(u)
      PROVE  Unraced' /\ [Abstract!Edit \/ Abstract!Update]_toml
  BY <1>3, <1>4, <1>9, StageFacts DEF CheckFolder, Locking, AtStage
<1>10. ASSUME NEW u \in Updaters, PersistUpdate(u)
       PROVE  Unraced' /\ [Abstract!Edit \/ Abstract!Update]_toml
  <2>1. /\ EndsUpdate(u) /\ UNCHANGED <<folder, saves>>
        /\ updater[u].at = "persist"
    BY <1>10 DEF PersistUpdate, AtStage
  <2>2. CASE folder # updater[u].folder
    BY <1>3, <1>10, <2>1, <2>2 DEF PersistUpdate
  <2>3. CASE folder = updater[u].folder
    <3>1. toml = updater[u].read /\ toml' = Refresh(toml)
      BY <1>10, <2>1, <2>3 DEF PersistUpdate, Unraced
    <3>2. IsFile(toml) /\ toml.valid /\ Refresh(toml) # toml
      BY <1>1, <2>1, <3>1 DEF HasRead, WithFile
    <3>3. /\ toml'.written = toml.written /\ toml'.valid = toml.valid
          /\ Refresh(toml') = toml' /\ OwnedPart(toml') = OwnedPart(toml)
      BY <3>1, <3>2, RefreshIs, RefreshSettles, RefreshKeepsOwned
    <3>4. Abstract!Update
      BY <3>1, <3>2, <3>3 DEF Abstract!Update, Revision, UpToDate
    <3>5. ASSUME NEW v \in Updaters,
                 updater'[v].at \in {"identify", "persist"},
                 updater'[v].folder = folder
          PROVE  FALSE
      <4>1. v # u /\ updater'[v] = updater[v]
        BY <1>1, <2>1, <3>5, EndsIs
      <4>2. lockHolder[folder] = v /\ lockHolder[folder] = u
        BY <1>1, <2>1, <2>3, <3>5, <4>1 DEF Locked, Locking
      <4>3. QED
        BY <4>1, <4>2
    <3>6. Unraced'
      BY <2>1, <3>3, <3>5 DEF Unraced
    <3>7. QED
      BY <3>4, <3>6
  <2>4. QED
    BY <2>2, <2>3
<1>11. ASSUME NEW u \in Updaters, UpdateDies(u)
       PROVE  Unraced' /\ [Abstract!Edit \/ Abstract!Update]_toml
  BY <1>3, <1>11 DEF UpdateDies
<1>12. CASE EditorSaves
  <2>1. PICK f \in Files : toml' = [f EXCEPT !.written = saves + 1]
    BY <1>12 DEF EditorSaves
  <2>2. IsFile(f)
    BY RefreshAssumption
  <2>3. toml'.written = saves + 1
    BY <2>1, <2>2 DEF IsFile, IsRecord
  <2>4. saves' = saves + 1 /\ UNCHANGED updater /\ saves \in Nat
    BY <1>1, <1>12, SavesFacts DEF EditorSaves
  <2>5. \A u \in Updaters : updater[u].at \notin {"identify", "persist"}
    BY <1>12 DEF EditorSaves, EditorsMissTheRename
  <2>6. Unraced'
    BY <2>3, <2>4, <2>5 DEF Unraced
  <2>7. toml'.written = toml.written + 1 /\ toml' # toml
    BY <2>3, <2>4 DEF Unraced
  <2>8. Abstract!Edit
    BY <2>7 DEF Abstract!Edit, Revision
  <2>9. QED
    BY <2>6, <2>8
<1>13. CASE UNCHANGED configVars
  BY <1>13 DEF configVars, Unraced
<1>14. QED
  BY <1>5, <1>6, <1>7, <1>8, <1>9, <1>10, <1>11, <1>12, <1>13
  DEF RefreshNext

(* `jbox init --update` implements AtomicRefresh: of any updaters that     *)
(* meet, die or find the file changed, one replaces what the file holds at *)
(* that moment, and it keeps the project's part (init.rs 55-93).  The      *)
(* window that jbox cannot close, between its last comparison and the      *)
(* rename, is the hypothesis.                                              *)
THEOREM RefreshImplementsAtomic ==
  ASSUME EditorsMissTheRename
  PROVE  ConfigRefreshSpec => RefreshIsAtomic
<1>1. RefreshInit => Revision(toml) = 0
  <2>1. RefreshInit => saves = 0
    BY DEF RefreshInit
  <2>2. QED
    BY <2>1, UnracedInit DEF Unraced, Revision
<1>2. ConfigRefreshSpec => [](RefreshTypes /\ Unraced)
  <2>1. RefreshInit => RefreshTypes /\ Unraced
    BY RefreshTypesInit, UnracedInit
  <2>2. RefreshTypes /\ Unraced /\ [RefreshNext]_configVars
          => (RefreshTypes /\ Unraced)'
    BY RefreshTypesStep, UnracedStep
  <2>3. QED
    BY <2>1, <2>2, PTL DEF ConfigRefreshSpec
<1>3. RefreshTypes /\ Unraced /\ [RefreshNext]_configVars
        => [Abstract!Edit \/ Abstract!Update]_toml
  BY UnracedStep
<1>4. QED
  BY <1>1, <1>2, <1>3, PTL
  DEF ConfigRefreshSpec, RefreshIsAtomic, Abstract!RefreshSpec
=============================================================================
