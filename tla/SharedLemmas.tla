---------------------------- MODULE SharedLemmas ----------------------------
(***************************************************************************)
(* What several proofs rest on: what the operators of AppVersions return,  *)
(* for every history length and every set of images; and that folds and    *)
(* recursive functions have the values their definitions say.              *)
(***************************************************************************)
EXTENDS AppVersions, WellFoundedInduction, FiniteSetTheorems, TLAPS

\* dropFirstElements keeps a suffix of at most n elements.
LEMMA DropFirstSuffix ==
    ASSUME NEW S, NEW s \in Seq(S), NEW n \in Nat
    PROVE  LET r == DropFirstElements(s, n)
               d == IF Len(s) <= n THEN 0 ELSE Len(s) - n
           IN  /\ r \in Seq(S)
               /\ Len(r) = Len(s) - d
               /\ Len(r) <= n
               /\ \A i \in 1..Len(r) : r[i] = s[i + d]
BY DEF DropFirstElements

\* A list of versions has a length and its versions have numbers.
LEMMA VersionNumbers ==
    ASSUME NEW Images, NEW s \in Seq(Version(Images))
    PROVE  Len(s) \in Nat /\ \A i \in 1..Len(s) : s[i].version \in Nat
<1>1. Len(s) \in Nat OBVIOUS
<1>2. \A i \in 1..Len(s) : s[i] \in Version(Images) OBVIOUS
<1>3. QED BY <1>1, <1>2 DEF Version

\* The versions kept before a new one is added: increasing, at most
\* MaxVersionHistory - 1, and never none of them when there were any.
LEMMA KeptProperties ==
    ASSUME NEW Images, NEW def \in Definition(Images), Increasing(def)
    PROVE  LET r == Kept(def)
               n == Len(def.versions)
           IN  /\ r \in Seq(Version(Images))
               /\ Len(r) <= MaxVersionHistory - 1
               /\ \A i, j \in 1..Len(r) : i < j => r[i].version < r[j].version
               /\ n > 0 => Len(r) > 0 /\ r[Len(r)] = def.versions[n]
<1> DEFINE s == def.versions
           n == MaxVersionHistory - 1
           r == Kept(def)
           d == IF Len(s) <= n THEN 0 ELSE Len(s) - n
<1>1. s \in Seq(Version(Images)) /\ n \in Nat /\ n >= 1
  BY HistoryAssumption DEF Definition
<1>2. /\ r \in Seq(Version(Images))
      /\ Len(r) = Len(s) - d
      /\ Len(r) <= n
      /\ \A i \in 1..Len(r) : r[i] = s[i + d]
  BY <1>1, DropFirstSuffix DEF Kept
<1>3. d \in Nat /\ Len(s) \in Nat /\ Len(r) \in Nat
  <2>1. Len(s) \in Nat BY <1>1
  <2>2. Len(r) \in Nat BY <1>2
  <2>3. d \in Nat BY <2>1, <1>1
  <2>4. QED BY <2>1, <2>2, <2>3
<1>4. ASSUME NEW i \in 1..Len(r), NEW j \in 1..Len(r), i < j
      PROVE  r[i].version < r[j].version
  <2>1. i + d \in 1..Len(s) /\ j + d \in 1..Len(s) /\ i + d < j + d
    BY <1>2, <1>3, <1>4
  <2>2. s[i + d].version < s[j + d].version
    BY <1>1, <2>1 DEF Increasing
  <2>3. QED BY <1>2, <2>2
<1>5. ASSUME Len(s) > 0
      PROVE  Len(r) > 0 /\ r[Len(r)] = s[Len(s)]
  <2>1. Len(r) > 0 /\ Len(r) + d = Len(s)
    BY <1>1, <1>2, <1>3, <1>5
  <2>2. QED BY <1>2, <1>3, <2>1
<1>6. QED BY <1>2, <1>4, <1>5

\* The number of a new version is a number, above every number kept.
LEMMA NewVersionIndexAbove ==
    ASSUME NEW Images, NEW def \in Definition(Images), Increasing(def)
    PROVE  /\ NewVersionIndex(def) \in Nat
           /\ \A i \in 1..Len(Kept(def)) :
                  Kept(def)[i].version < NewVersionIndex(def)
           /\ \A i \in 1..Len(def.versions) :
                  def.versions[i].version < NewVersionIndex(def)
<1> DEFINE r == Kept(def)
           N == {Len(r)} \cup {r[i].version + 1 : i \in DOMAIN r}
<1>1. /\ r \in Seq(Version(Images))
      /\ \A i, j \in 1..Len(r) : i < j => r[i].version < r[j].version
      /\ Len(def.versions) > 0 =>
             Len(r) > 0 /\ r[Len(r)] = def.versions[Len(def.versions)]
  BY KeptProperties
<1>2. Len(r) \in Nat /\ \A i \in 1..Len(r) : r[i].version \in Nat
  BY <1>1, VersionNumbers
<1>3. DOMAIN r = 1..Len(r)
  BY <1>1
<1>4. N \subseteq Nat
  BY <1>2, <1>3
<1>5. \E m \in N : \A y \in N : m >= y
  <2>1. CASE Len(r) = 0
    <3>1. N = {Len(r)} BY <2>1, <1>3
    <3>2. QED BY <3>1, <1>2
  <2>2. CASE Len(r) > 0
    <3> DEFINE l == r[Len(r)].version + 1
    <3>1. l \in N /\ l \in Nat
      BY <2>2, <1>2, <1>3
    <3>2. \A i \in 1..Len(r) : r[i].version + 1 <= l
      BY <2>2, <1>1, <1>2
    <3>3. CASE l >= Len(r)
      BY <3>1, <3>2, <3>3, <1>2, <1>3
    <3>4. CASE l < Len(r)
      BY <3>1, <3>2, <3>4, <1>2, <1>3
    <3>5. QED BY <3>1, <3>3, <3>4, <1>2
  <2>3. QED BY <2>1, <2>2, <1>2
<1>6. NewVersionIndex(def) \in N /\ \A y \in N : NewVersionIndex(def) >= y
  BY <1>5 DEF NewVersionIndex, Max
<1>7. NewVersionIndex(def) \in Nat
  BY <1>6, <1>4
<1>8. ASSUME NEW i \in 1..Len(r)
      PROVE  r[i].version < NewVersionIndex(def)
  <2>1. r[i].version + 1 \in N BY <1>3
  <2>2. QED BY <2>1, <1>2, <1>6, <1>7
<1>9. ASSUME NEW i \in 1..Len(def.versions)
      PROVE  def.versions[i].version < NewVersionIndex(def)
  <2> DEFINE n == Len(def.versions)
  <2>0. def.versions \in Seq(Version(Images))
    BY DEF Definition
  <2>1. n \in Nat /\ n > 0 /\ \A k \in 1..n : def.versions[k].version \in Nat
    BY <2>0, VersionNumbers
  <2>2. def.versions[i].version <= def.versions[n].version
    BY <2>0, <2>1 DEF Increasing
  <2>3. def.versions[n].version < NewVersionIndex(def)
    BY <1>1, <1>2, <1>8, <2>1
  <2>4. QED BY <2>1, <2>2, <2>3, <1>7
<1>10. QED BY <1>7, <1>8, <1>9

\* createNewVersion returns a definition whose numbers still increase, within
\* the bound on the history, with the new version last and without an image.
THEOREM CreateNewVersionCorrect ==
    ASSUME NEW Images, NEW def \in Definition(Images), Increasing(def)
    PROVE  LET new == CreateNewVersion(def)
           IN  /\ new \in Definition(Images)
               /\ Increasing(new)
               /\ Len(new.versions) <= MaxVersionHistory
               /\ HasVersion(new, NewVersionIndex(def))
               /\ new.deployedVersion = def.deployedVersion
<1> DEFINE r == Kept(def)
           v == [version |-> NewVersionIndex(def), image |-> NoImage]
           new == CreateNewVersion(def)
<1>1. /\ r \in Seq(Version(Images))
      /\ Len(r) <= MaxVersionHistory - 1
      /\ \A i, j \in 1..Len(r) : i < j => r[i].version < r[j].version
  BY KeptProperties
<1>2. /\ NewVersionIndex(def) \in Nat
      /\ \A i \in 1..Len(r) : r[i].version < NewVersionIndex(def)
  BY NewVersionIndexAbove
<1>3. v \in Version(Images)
  BY <1>2 DEF Version
<1>4. new = [versions |-> Append(r, v), deployedVersion |-> def.deployedVersion,
             paused |-> def.paused]
  <2>1. \A e : [def EXCEPT !.versions = e] =
           [versions |-> e, deployedVersion |-> def.deployedVersion,
            paused |-> def.paused]
    BY DEF Definition
  <2>2. QED BY <2>1 DEF CreateNewVersion
<1>5. /\ Append(r, v) \in Seq(Version(Images))
      /\ Len(Append(r, v)) = Len(r) + 1
      /\ \A i \in 1..Len(r) : Append(r, v)[i] = r[i]
      /\ Append(r, v)[Len(r) + 1] = v
  BY <1>1, <1>3
<1>6. new \in Definition(Images)
  BY <1>4, <1>5 DEF Definition
<1>7. ASSUME NEW i \in DOMAIN new.versions, NEW j \in DOMAIN new.versions, i < j
      PROVE  new.versions[i].version < new.versions[j].version
  <2>1. i \in 1..Len(r) /\ (j \in 1..Len(r) \/ j = Len(r) + 1)
    BY <1>1, <1>4, <1>5, <1>7
  <2>2. QED BY <2>1, <1>1, <1>2, <1>4, <1>5, <1>7
<1>8. Len(new.versions) <= MaxVersionHistory
  BY <1>1, <1>4, <1>5, HistoryAssumption
<1>9. HasVersion(new, NewVersionIndex(def))
  <2>1. Len(r) + 1 \in IndexesOf(new, NewVersionIndex(def))
    BY <1>1, <1>4, <1>5 DEF IndexesOf
  <2>2. QED BY <2>1 DEF HasVersion
<1>10. QED BY <1>4, <1>6, <1>7, <1>8, <1>9 DEF Increasing

\* setDeployedVersionAndImage changes no number, and what it deploys has the
\* image it was given.
THEOREM SetDeployedCorrect ==
    ASSUME NEW Images, NEW def \in Definition(Images), Increasing(def),
           NEW v \in Nat, HasVersion(def, v), NEW img \in Images
    PROVE  LET new == SetDeployedVersionAndImage(def, v, img)
           IN  /\ new \in Definition(Images)
               /\ Increasing(new)
               /\ DeployedImage(new) = img
               /\ \A w : HasVersion(new, w) <=> HasVersion(def, w)
<1> DEFINE s == def.versions
           new == SetDeployedVersionAndImage(def, v, img)
<1>1. s \in Seq(Version(Images)) /\ DOMAIN s = 1..Len(s) /\ Len(s) \in Nat
  BY DEF Definition
<1>2. \A d \in Definition(Images) : \A w \in Nat : \A i \in IndexesOf(d, w) :
          Increasing(d) => IndexesOf(d, w) = {i} /\ Min(IndexesOf(d, w)) = i
  <2> SUFFICES ASSUME NEW d \in Definition(Images), NEW w \in Nat,
                      NEW i \in IndexesOf(d, w), Increasing(d)
               PROVE  IndexesOf(d, w) = {i} /\ Min(IndexesOf(d, w)) = i
    OBVIOUS
  <2>1. /\ d.versions \in Seq(Version(Images)) /\ i \in 1..Len(d.versions)
        /\ DOMAIN d.versions = 1..Len(d.versions) /\ Len(d.versions) \in Nat
    BY DEF Definition, IndexesOf
  <2>2. ASSUME NEW j \in IndexesOf(d, w)
        PROVE  j = i
    <3>1. j \in 1..Len(d.versions) /\ d.versions[j].version = d.versions[i].version
      BY <2>1 DEF IndexesOf
    <3>2. d.versions[i].version \in Nat /\ d.versions[j].version \in Nat
      BY <2>1, <3>1, VersionNumbers
    <3>3. ~(i < j) /\ ~(j < i)
      BY <2>1, <3>1, <3>2 DEF Increasing
    <3>4. QED BY <2>1, <3>1, <3>3
  <2>3. IndexesOf(d, w) = {i}
    BY <2>2
  <2>4. QED BY <2>1, <2>3 DEF Min
<1>3. PICK k \in IndexesOf(def, v) : Min(IndexesOf(def, v)) = k
  BY <1>2 DEF HasVersion
<1>4. k \in 1..Len(s) /\ s[k].version = v
  BY <1>1, <1>3 DEF IndexesOf
<1>5. new = [versions |-> [s EXCEPT ![k].image = img],
             deployedVersion |-> v, paused |-> def.paused]
  BY <1>3 DEF SetDeployedVersionAndImage
<1>6. /\ [s EXCEPT ![k].image = img] \in Seq(Version(Images))
      /\ DOMAIN [s EXCEPT ![k].image = img] = DOMAIN s
      /\ \A i \in DOMAIN s : [s EXCEPT ![k].image = img][i].version = s[i].version
      /\ [s EXCEPT ![k].image = img][k].image = img
  <2>1. \A i \in 1..Len(s) : s[i] \in Version(Images)
    BY <1>1
  <2>2. [s[k] EXCEPT !.image = img] \in Version(Images)
    BY <2>1, <1>4 DEF Version
  <2>3. \A i \in DOMAIN s : [s EXCEPT ![k].image = img][i] \in Version(Images)
    BY <2>1, <2>2, <1>1, <1>4
  <2>4. QED BY <2>1, <2>2, <2>3, <1>1, <1>4 DEF Version
<1>7. new \in Definition(Images)
  BY <1>5, <1>6 DEF Definition
<1>8. Increasing(new)
  BY <1>5, <1>6 DEF Increasing
<1>9. \A w : IndexesOf(new, w) = IndexesOf(def, w)
  BY <1>5, <1>6 DEF IndexesOf
<1>10. DeployedImage(new) = img
  <2>1. k \in IndexesOf(new, v) /\ new.deployedVersion = v
    BY <1>3, <1>5, <1>9
  <2>2. Min(IndexesOf(new, v)) = k
    BY <1>3, <1>9
  <2>3. QED BY <2>1, <2>2, <1>5, <1>6 DEF DeployedImage, HasVersion
<1>11. QED BY <1>7, <1>8, <1>9, <1>10 DEF HasVersion

-----------------------------------------------------------------------------
(* Folds over finite sets, and recursive functions.                         *)

LEMMA AllNumbers ==
    ASSUME NEW T, 0 \in T, \A n \in Nat : n \in T => n + 1 \in T
    PROVE  Nat \subseteq T
<1>1. SUFFICES ASSUME Nat \ T # {}
               PROVE  FALSE
  OBVIOUS
<1>2. PICK m \in Nat \ T : \A k \in Nat \ T : ~(<<k, m>> \in OpToRel(<, Nat))
  <2>1. IsWellFoundedOn(OpToRel(<, Nat), Nat)
    BY NatLessThanWellFounded, Zenon
  <2>2. Nat \ T \subseteq Nat
    OBVIOUS
  <2>3. QED BY <1>1, <2>1, <2>2, WFMin, Zenon
<1>3. \A k \in Nat : k < m => k \in T
  BY <1>2 DEF OpToRel
<1>4. m # 0
  OBVIOUS
<1>5. m - 1 \in Nat /\ m - 1 \in T
  BY <1>3, <1>4
<1>6. QED BY <1>5

Picks(pick, S) == \A s \in SUBSET S : s # {} => pick[s] \in s

IsFold(g, S, pick, base, step) ==
    \A s \in SUBSET S : g[s] = IF s = {} THEN base ELSE step[<<pick[s], g[s \ {pick[s]}]>>]

\* A fold over a finite set has a value for each of its subsets: the elements
\* are taken in the order in which pick gives them.
LEMMA FoldExists ==
    ASSUME NEW S, IsFiniteSet(S), NEW pick, Picks(pick, S),
           NEW A, NEW base \in A, NEW step \in [S \X A -> A]
    PROVE  \E g \in [SUBSET S -> A] : IsFold(g, S, pick, base, step)
<1> DEFINE Value(g, s) == IF s = {} THEN base ELSE step[<<pick[s], g[s \ {pick[s]}]>>]
           Upto(m) == {s \in SUBSET S : Cardinality(s) <= m}
           T == {m \in Nat : \E g \in [SUBSET S -> A] : \A s \in Upto(m) : g[s] = Value(g, s)}
<1>1. \A s \in SUBSET S : IsFiniteSet(s) /\ Cardinality(s) \in Nat /\ Cardinality(s) <= Cardinality(S)
  BY FS_Subset, FS_CardinalityType
<1>2. \A s \in SUBSET S : s # {} =>
         /\ pick[s] \in S /\ s \ {pick[s]} \in SUBSET S
         /\ Cardinality(s \ {pick[s]}) = Cardinality(s) - 1
  BY <1>1, FS_RemoveElement DEF Picks
<1>3. \A g \in [SUBSET S -> A], s \in SUBSET S : Value(g, s) \in A
  BY <1>2
<1>4. 0 \in T
  <2>1. PICK g \in [SUBSET S -> A] : g = [s \in SUBSET S |-> base]
    OBVIOUS
  <2>2. \A s \in Upto(0) : s = {}
    BY <1>1, FS_EmptySet
  <2>3. \A s \in Upto(0) : g[s] = Value(g, s)
    BY <2>1, <2>2
  <2>4. QED BY <2>3
<1>5. ASSUME NEW m \in Nat, m \in T
      PROVE  m + 1 \in T
  <2>1. PICK g \in [SUBSET S -> A] : \A s \in Upto(m) : g[s] = Value(g, s)
    BY <1>5
  <2>2. PICK h : h = [s \in SUBSET S |-> Value(g, s)]
    OBVIOUS
  <2>3. h \in [SUBSET S -> A]
    BY <1>3, <2>2
  <2>4. \A s \in Upto(m) : h[s] = g[s]
    BY <2>1, <2>2
  <2>5. ASSUME NEW s \in Upto(m + 1)
        PROVE  h[s] = Value(h, s)
    <3>1. CASE s = {}
      BY <2>2, <3>1
    <3>2. CASE s # {}
      <4>1. s \ {pick[s]} \in Upto(m)
        BY <1>1, <1>2, <3>2
      <4>2. h[s \ {pick[s]}] = g[s \ {pick[s]}]
        BY <2>4, <4>1
      <4>3. QED BY <2>2, <4>2
    <3>3. QED BY <3>1, <3>2
  <2>6. \E f \in [SUBSET S -> A] : \A s \in Upto(m + 1) : f[s] = Value(f, s)
    <3> HIDE DEF Value, Upto
    <3>1. QED BY <2>3, <2>5
  <2>7. m + 1 \in Nat
    OBVIOUS
  <2>8. QED BY <2>6, <2>7, Zenon
<1>6. Cardinality(S) \in T
  <2>1. Nat \subseteq T
    <3> HIDE DEF T
    <3>1. QED BY <1>4, <1>5, AllNumbers
  <2>2. QED BY <1>1, <2>1
<1>7. PICK g \in [SUBSET S -> A] : \A s \in Upto(Cardinality(S)) : g[s] = Value(g, s)
  BY <1>6
<1>8. QED BY <1>1, <1>7 DEF IsFold

\* The elements of an array are taken from the last one down.
LEMMA LastFirst ==
    ASSUME NEW n \in Nat, NEW t \in SUBSET (1..n), t # {}
    PROVE  Max(t) \in t /\ \A y \in t : Max(t) >= y
<1> DEFINE T == {k \in Nat : \A s \in SUBSET (1..k) : s # {} => \E x \in s : \A y \in s : x >= y}
<1>1. 0 \in T
  <2>1. 1..0 = {} /\ 0 \in Nat
    OBVIOUS
  <2>2. QED BY <2>1
<1>2. ASSUME NEW k \in Nat, k \in T
      PROVE  k + 1 \in T
  <2>1. SUFFICES ASSUME NEW s \in SUBSET (1..(k + 1)), s # {}
                 PROVE  \E x \in s : \A y \in s : x >= y
    OBVIOUS
  <2>2. CASE k + 1 \in s
    BY <2>2
  <2>3. CASE k + 1 \notin s
    <3>1. s \in SUBSET (1..k)
      BY <2>3
    <3>2. QED BY <1>2, <2>1, <3>1
  <2>4. QED BY <2>2, <2>3
<1>3. n \in T
  <2>1. Nat \subseteq T
    <3> HIDE DEF T
    <3>1. QED BY <1>1, <1>2, AllNumbers
  <2>2. QED BY <2>1
<1>4. \E x \in t : \A y \in t : x >= y
  BY <1>3
<1>5. QED BY <1>4, Zenon DEF Max

LEMMA LastOfInterval ==
    ASSUME NEW n \in Nat, NEW i \in 1..n
    PROVE  1..i \in SUBSET (1..n) /\ 1..i # {} /\ Max(1..i) = i /\ (1..i) \ {Max(1..i)} = 1..(i - 1)
<1>1. 1..i \in SUBSET (1..n) /\ 1..i # {} /\ i \in 1..i
  OBVIOUS
<1>2. Max(1..i) \in 1..i /\ Max(1..i) >= i
  BY <1>1, LastFirst
<1>3. Max(1..i) = i
  BY <1>2
<1>4. QED BY <1>1, <1>3

IsRecursion(g, base, step) ==
    \A n \in Nat : g[n] = IF n = 0 THEN base ELSE step[<<n, g[n - 1]>>]

\* A function on the numbers, defined by what it is at 0 and how it goes on.
LEMMA RecursionExists ==
    ASSUME NEW A, NEW base \in A, NEW step \in [Nat \X A -> A]
    PROVE  \E g \in [Nat -> A] : IsRecursion(g, base, step)
<1> DEFINE Upto(g, n) == /\ g \in [Nat -> A]
                         /\ g[0] = base
                         /\ \A i \in 1..n : g[i] = step[<<i, g[i - 1]>>]
           T == {n \in Nat : \E g : Upto(g, n)}
<1>1. 0 \in T
  <2>1. PICK g : g = [n \in Nat |-> base]
    OBVIOUS
  <2>2. Upto(g, 0)
    BY <2>1
  <2>3. QED BY <2>2
<1>2. ASSUME NEW n \in Nat, n \in T
      PROVE  n + 1 \in T
  <2>1. PICK g : Upto(g, n)
    BY <1>2
  <2>2. PICK h : h = [g EXCEPT ![n + 1] = step[<<n + 1, g[n]>>]]
    OBVIOUS
  <2>3. step[<<n + 1, g[n]>>] \in A
    BY <2>1
  <2>4. h \in [Nat -> A] /\ \A i \in Nat : h[i] = IF i = n + 1 THEN step[<<n + 1, g[n]>>] ELSE g[i]
    BY <2>1, <2>2, <2>3
  <2>5. ASSUME NEW i \in 1..(n + 1)
        PROVE  h[i] = step[<<i, h[i - 1]>>]
    <3>1. i \in Nat /\ i - 1 \in Nat /\ i - 1 # n + 1
      OBVIOUS
    <3>2. h[i - 1] = g[i - 1]
      BY <2>4, <3>1
    <3>3. CASE i = n + 1
      <4>1. i - 1 = n
        BY <3>3
      <4>2. QED BY <2>4, <3>1, <3>2, <3>3, <4>1
    <3>4. CASE i # n + 1
      <4>1. i \in 1..n
        BY <3>4
      <4>2. g[i] = step[<<i, g[i - 1]>>]
        BY <2>1, <4>1
      <4>3. QED BY <2>4, <3>1, <3>2, <3>4, <4>2
    <3>5. QED BY <3>3, <3>4
  <2>6. h[0] = base
    BY <2>1, <2>4
  <2>7. Upto(h, n + 1)
    BY <2>4, <2>5, <2>6
  <2>8. n + 1 \in Nat
    OBVIOUS
  <2> HIDE DEF Upto
  <2>9. QED BY <2>7, <2>8
<1>3. \A n \in Nat : \E g : Upto(g, n)
  <2>1. Nat \subseteq T
    <3> HIDE DEF T
    <3>1. QED BY <1>1, <1>2, AllNumbers
  <2>2. QED BY <2>1
<1>4. ASSUME NEW f, NEW g, NEW m \in Nat, Upto(f, m), Upto(g, m), NEW n \in Nat, n <= m
      PROVE  f[n] = g[n]
  <2> DEFINE Same == {i \in Nat : i <= m => f[i] = g[i]}
  <2>1. 0 \in Same
    BY <1>4
  <2>2. ASSUME NEW i \in Nat, i \in Same
        PROVE  i + 1 \in Same
    <3>1. CASE i + 1 <= m
      <4>1. i + 1 \in 1..m /\ (i + 1) - 1 = i /\ f[i] = g[i]
        BY <2>2, <3>1
      <4>2. f[i + 1] = step[<<i + 1, f[i]>>] /\ g[i + 1] = step[<<i + 1, g[i]>>]
        BY <1>4, <4>1
      <4>3. f[i + 1] = g[i + 1] /\ i + 1 \in Nat
        BY <4>1, <4>2
      <4>4. QED BY <4>3
    <3>2. i + 1 \in Nat
      OBVIOUS
    <3>3. QED BY <3>1, <3>2
  <2>3. Nat \subseteq Same
    <3> HIDE DEF Same
    <3>1. QED BY <2>1, <2>2, AllNumbers
  <2>4. QED BY <1>4, <2>3
<1>5. PICK f : f = [n \in Nat |-> CHOOSE g : Upto(g, n)]
  OBVIOUS
<1>6. \A n \in Nat : Upto(f[n], n)
  <2> HIDE DEF Upto
  <2>1. QED BY <1>3, <1>5
<1>7. PICK g : g = [n \in Nat |-> f[n][n]]
  OBVIOUS
<1>8. g \in [Nat -> A]
  BY <1>6, <1>7
<1>9. ASSUME NEW n \in Nat
      PROVE  g[n] = IF n = 0 THEN base ELSE step[<<n, g[n - 1]>>]
  <2>1. CASE n = 0
    BY <1>6, <1>7, <2>1
  <2>2. CASE n # 0
    <3>1. n - 1 \in Nat /\ n - 1 <= n /\ n \in 1..n
      BY <2>2
    <3>2. Upto(f[n], n) /\ Upto(f[n - 1], n - 1)
      BY <1>6, <3>1
    <3>3. Upto(f[n], n - 1)
      BY <3>1, <3>2
    <3>4. f[n - 1][n - 1] = f[n][n - 1]
      <4> HIDE DEF Upto
      <4>1. QED BY <1>4, <3>1, <3>2, <3>3
    <3>5. f[n][n] = step[<<n, f[n][n - 1]>>]
      BY <3>1, <3>2
    <3>6. QED BY <1>7, <2>2, <3>1, <3>4, <3>5
  <2>3. QED BY <2>1, <2>2
<1>10. QED BY <1>8, <1>9 DEF IsRecursion

=============================================================================
