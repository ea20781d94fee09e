--------------------------- MODULE ProfilesProofs ---------------------------
(***************************************************************************)
(* Facts about the catalog of profiles, for any number of profiles: the    *)
(* walk along the backups, which is how the code looks for cycles, ends    *)
(* exactly where there are none, and whatever an operation writes, the     *)
(* next start accepts.                                                     *)
(*                                                                         *)
(* The walk is a recursive function, so what it does for every catalog     *)
(* takes an induction.  The one below is about sets of numbers: it is      *)
(* first-order, and follows from every such set having a least element.    *)
(***************************************************************************)
EXTENDS Profiles, FiniteSetTheorems, TLAPS

-----------------------------------------------------------------------------
(* Induction, and the walk.                                                *)

\* A set of numbers that has 0, and with every number the next, has them all.
LEMMA AllNumbers ==
  ASSUME NEW S \in SUBSET Nat, 0 \in S, \A n \in S : n + 1 \in S
  PROVE  \A n \in Nat : n \in S
<1> SUFFICES ASSUME Nat \ S # {} PROVE FALSE
    OBVIOUS
<1> DEFINE less == OpToRel(<, Nat)
<1>1. \E x \in Nat \ S : \A y \in Nat \ S : <<y, x>> \notin less
      <2> HIDE DEF less
      <2>1. IsWellFoundedOn(less, Nat)
            BY NatLessThanWellFounded DEF less
      <2> QED BY <2>1, WFMin
<1>2. \A x, y \in Nat : y < x => <<y, x>> \in less
      BY DEF OpToRel
<1>3. PICK x \in Nat \ S : \A y \in Nat \ S : ~(y < x)
      BY <1>1, <1>2
<1>4. x - 1 \in Nat /\ x - 1 < x /\ (x - 1) + 1 = x
      BY <1>3
<1> QED BY <1>3, <1>4

\* The walk starts at p and goes on along the backups.
LEMMA WalkSteps ==
  ASSUME NEW cat, NEW p, IsFiniteSet(DOMAIN cat)
  PROVE  LET last == Cardinality(DOMAIN cat)
         IN  /\ last \in Nat
             /\ Walk(cat, p)[0] = p
             /\ \A n \in 0..(last - 1) : Walk(cat, p)[n + 1] = Next1(cat, Walk(cat, p)[n])
<1> DEFINE last == Cardinality(DOMAIN cat)
           Walks(m, f) == f = [n \in 0..m |-> IF n = 0 THEN p ELSE Next1(cat, f[n - 1])]
           Good == {m \in Nat : \E f : Walks(m, f)}
<1>1. last \in Nat
      BY FS_CardinalityType
<1>2. 0 \in Good
  <2> DEFINE f == [n \in 0..0 |-> p]
  <2>1. Walks(0, f)
        OBVIOUS
  <2> QED BY <2>1
<1>3. ASSUME NEW m \in Good PROVE m + 1 \in Good
  <2>1. PICK f : Walks(m, f)
        OBVIOUS
  <2> DEFINE g == [n \in 0..(m + 1) |-> IF n = m + 1 THEN Next1(cat, f[m]) ELSE f[n]]
  <2>2. ASSUME NEW n \in 0..(m + 1)
        PROVE  g[n] = IF n = 0 THEN p ELSE Next1(cat, g[n - 1])
        BY <2>1
  <2>3. Walks(m + 1, g) /\ m + 1 \in Nat
        BY <2>2
  <2> HIDE DEF g, Walks
  <2> QED BY <2>3
<1>4. last \in Good
  <2> HIDE DEF Good
  <2>1. Good \in SUBSET Nat
        BY DEF Good
  <2> QED BY <1>1, <1>2, <1>3, <2>1, AllNumbers
<1>5. Walks(last, Walk(cat, p))
      BY <1>4 DEF Walk
<1> HIDE DEF last
<1>6. \A n \in 0..last : Walk(cat, p)[n] = IF n = 0 THEN p ELSE Next1(cat, Walk(cat, p)[n - 1])
      BY <1>5
<1>7. Walk(cat, p)[0] = p
      BY <1>1, <1>6
<1>8. ASSUME NEW n \in 0..(last - 1)
      PROVE  Walk(cat, p)[n + 1] = Next1(cat, Walk(cat, p)[n])
      BY <1>1, <1>6
<1> QED BY <1>1, <1>7, <1>8 DEF last

-----------------------------------------------------------------------------
(* What the walk finds.                                                    *)

\* A backup that is a profile is one of the catalog, and no fallback leads back to where
\* it came from: FallbacksEnd, of a catalog.
BackupsThere(cat) == \A p \in DOMAIN cat : cat[p].mode = "profile" => cat[p].backup \in DOMAIN cat

NoCycle(cat) ==
  \A S \in SUBSET DOMAIN cat :
    S # {} => \E p \in S : cat[p].mode # "profile" \/ cat[p].backup \notin S

\* A walk that starts in a cycle never ends.
LEMMA CyclesAreFound ==
  ASSUME NEW cat, IsFiniteSet(DOMAIN cat), None \notin DOMAIN cat,
         \A p \in DOMAIN cat : After(cat, p) = None
  PROVE  NoCycle(cat)
<1> SUFFICES ASSUME NEW S \in SUBSET DOMAIN cat, S # {},
                    \A p \in S : cat[p].mode = "profile" /\ cat[p].backup \in S
             PROVE  FALSE
    BY DEF NoCycle
<1>1. PICK p \in S : TRUE
      OBVIOUS
<1> DEFINE last == Cardinality(DOMAIN cat)
           at == Walk(cat, p)
           Inside == {n \in Nat : n <= last => at[n] \in S}
<1> HIDE DEF last, at
<1>2. /\ last \in Nat /\ at[0] = p
      /\ \A n \in 0..(last - 1) : at[n + 1] = Next1(cat, at[n])
      BY WalkSteps DEF last, at
<1>3. 0 \in Inside
      BY <1>1, <1>2
<1>4. ASSUME NEW n \in Inside PROVE n + 1 \in Inside
  <2> SUFFICES ASSUME n + 1 <= last PROVE at[n + 1] \in S
      OBVIOUS
  <2>1. at[n] \in S /\ at[n + 1] = Next1(cat, at[n])
        BY <1>2
  <2> QED BY <2>1 DEF Next1
<1>5. last \in Inside
  <2> HIDE DEF Inside
  <2>1. Inside \in SUBSET Nat
        BY DEF Inside
  <2> QED BY <1>2, <1>3, <1>4, <2>1, AllNumbers
<1> QED BY <1>1, <1>2, <1>5 DEF After, at, last

\* A walk that has not ended after as many steps as there are profiles has come to one of
\* them twice: the profiles from there on are a cycle.
LEMMA EndsAreReached ==
  ASSUME NEW cat, IsFiniteSet(DOMAIN cat), None \notin DOMAIN cat,
         BackupsThere(cat), NoCycle(cat), NEW p \in DOMAIN cat
  PROVE  After(cat, p) = None
<1> DEFINE last == Cardinality(DOMAIN cat)
           at == Walk(cat, p)
           Goes == {n \in Nat : n <= last => at[last - n] # None}
           Inside == {n \in Nat : n <= last => at[n] \in DOMAIN cat}
<1> SUFFICES ASSUME at[last] # None PROVE FALSE
    BY DEF After
<1> HIDE DEF last, at
<1>1. /\ last \in Nat /\ at[0] = p
      /\ \A n \in 0..(last - 1) : at[n + 1] = Next1(cat, at[n])
      BY WalkSteps DEF last, at
<1>2. \A n \in 0..last : at[n] # None
  <2>1. 0 \in Goes
        BY <1>1
  <2>2. ASSUME NEW n \in Goes PROVE n + 1 \in Goes
    <3> SUFFICES ASSUME n + 1 <= last, at[last - (n + 1)] = None PROVE FALSE
        OBVIOUS
    <3>1. last - (n + 1) \in 0..(last - 1) /\ (last - (n + 1)) + 1 = last - n /\ at[last - n] # None
          BY <1>1
    <3> QED BY <1>1, <3>1 DEF Next1
  <2>3. \A n \in Nat : n \in Goes
    <3> HIDE DEF Goes
    <3>1. Goes \in SUBSET Nat
          BY DEF Goes
    <3> QED BY <2>1, <2>2, <3>1, AllNumbers
  <2> TAKE n \in 0..last
  <2>4. last - n \in Goes /\ last - n <= last /\ last - (last - n) = n
        BY <1>1, <2>3
  <2> QED BY <2>4
<1>3. \A n \in 0..(last - 1) :
        at[n] \in DOMAIN cat => cat[at[n]].mode = "profile" /\ cat[at[n]].backup = at[n + 1]
  <2> TAKE n \in 0..(last - 1)
  <2>1. n + 1 \in 0..last
        BY <1>1
  <2> QED BY <1>1, <1>2, <2>1 DEF Next1
<1>4. \A n \in 0..last : at[n] \in DOMAIN cat
  <2>1. 0 \in Inside
        BY <1>1
  <2>2. ASSUME NEW n \in Inside PROVE n + 1 \in Inside
    <3> SUFFICES ASSUME n + 1 <= last PROVE at[n + 1] \in DOMAIN cat
        OBVIOUS
    <3>1. n \in 0..(last - 1) /\ at[n] \in DOMAIN cat
          BY <1>1
    <3> QED BY <1>3, <3>1 DEF BackupsThere
  <2>3. \A n \in Nat : n \in Inside
    <3> HIDE DEF Inside
    <3>1. Inside \in SUBSET Nat
          BY DEF Inside
    <3> QED BY <2>1, <2>2, <3>1, AllNumbers
  <2> QED BY <1>1, <2>3
<1>5. PICK i, j \in 0..last : i < j /\ at[i] = at[j]
  <2> DEFINE visit == [n \in 0..last |-> at[n]]
  <2>1. visit \in [0..last -> DOMAIN cat]
        BY <1>4
  <2>2. IsFiniteSet(0..last) /\ Cardinality(DOMAIN cat) < Cardinality(0..last)
        BY <1>1, FS_Interval DEF last
  <2> HIDE DEF visit
  <2>3. PICK i, j \in 0..last : i # j /\ visit[i] = visit[j]
        BY <2>1, <2>2, FS_PigeonHole
  <2>4. at[i] = at[j] /\ (i < j \/ j < i)
        BY <1>1, <2>3 DEF visit
  <2> QED BY <2>4
<1> DEFINE Cycle == {at[n] : n \in i..(j - 1)}
<1>6. Cycle \in SUBSET DOMAIN cat /\ Cycle # {}
  <2>1. i \in i..(j - 1) /\ i..(j - 1) \subseteq 0..last
        BY <1>1, <1>5
  <2> QED BY <1>4, <2>1
<1>7. ASSUME NEW q \in Cycle PROVE cat[q].mode = "profile" /\ cat[q].backup \in Cycle
  <2>1. PICK n \in i..(j - 1) : q = at[n]
        OBVIOUS
  <2>2. n \in 0..(last - 1) /\ n \in 0..last
        BY <1>1, <1>5
  <2>3. cat[q].mode = "profile" /\ cat[q].backup = at[n + 1]
        BY <1>3, <1>4, <2>1, <2>2
  <2>4. CASE n + 1 = j
        BY <1>5, <2>3, <2>4
  <2>5. CASE n + 1 # j
        BY <1>5, <2>3, <2>5
  <2> QED BY <2>3, <2>4, <2>5
<1> QED BY <1>6, <1>7 DEF NoCycle

\* The depth first search decides exactly whether the catalog has a cycle.
THEOREM SearchFindsCycles ==
  ASSUME NEW cat, IsFiniteSet(DOMAIN cat), None \notin DOMAIN cat, BackupsThere(cat)
  PROVE  (\A p \in DOMAIN cat : After(cat, p) = None) <=> NoCycle(cat)
BY CyclesAreFound, EndsAreReached

-----------------------------------------------------------------------------
(* The operations.                                                         *)

Settled == CatalogType /\ IsFiniteSet(DOMAIN catalog) /\ CatalogLoads

LEMMA NobodyIsNone == CatalogType => None \notin DOMAIN catalog
BY ProfilesAssumption DEF CatalogType, Spent

\* A catalog that is accepted has no cycle.
LEMMA SettledEnds == Settled => FallbacksEnd
<1> SUFFICES ASSUME Settled PROVE BackupsThere(catalog) /\ NoCycle(catalog)
    BY DEF FallbacksEnd, BackupsThere, NoCycle
<1>1. ValidGraph(catalog) /\ IsFiniteSet(DOMAIN catalog) /\ None \notin DOMAIN catalog
      BY NobodyIsNone DEF Settled, CatalogLoads, Loadable
<1> QED BY <1>1, CyclesAreFound DEF ValidGraph, BackupsThere

\* A profile that is saved has been checked with the rest of the catalog, and a new one
\* has been counted.
LEMMA SaveSettles ==
  ASSUME Settled, CatalogType', NEW p, NEW url, NEW mode, NEW backup, Save(p, url, mode, backup)
  PROVE  Settled'
<1>1. ValidGraph(catalog)' /\ DOMAIN catalog' = DOMAIN catalog \cup {p}
      BY DEF Save, With, Extended
<1>2. Cardinality(DOMAIN catalog) \in Nat /\ Cardinality(DOMAIN catalog) <= MaxProfiles
      BY FS_CardinalityType DEF Settled, CatalogLoads, Loadable
<1>3. /\ IsFiniteSet(DOMAIN catalog \cup {p})
      /\ Cardinality(DOMAIN catalog \cup {p}) <= MaxProfiles
  <2>1. CASE p \in DOMAIN catalog
    <3>1. DOMAIN catalog \cup {p} = DOMAIN catalog
          BY <2>1
    <3> QED BY <1>2, <3>1 DEF Settled
  <2>2. CASE p \notin DOMAIN catalog
    <3>1. Cardinality(DOMAIN catalog) < MaxProfiles
          BY <2>2 DEF Save
    <3>2. Cardinality(DOMAIN catalog \cup {p}) = Cardinality(DOMAIN catalog) + 1
          BY <2>2, FS_AddElement DEF Settled
    <3> QED BY <1>2, <3>1, <3>2, FS_AddElement, ProfilesAssumption DEF Settled
  <2> QED BY <2>1, <2>2
<1> QED BY <1>1, <1>3 DEF Settled, CatalogLoads, Loadable

\* What is left of a catalog without a profile that is nobody's backup has the same
\* fallbacks, and no cycle: the code does not check it again.
LEMMA DeleteSettles ==
  ASSUME Settled, CatalogType', NEW p, Delete(p)
  PROVE  Settled'
<1> DEFINE rest == catalog'
<1>1. /\ DOMAIN rest = DOMAIN catalog \ {p}
      /\ \A q \in DOMAIN rest : rest[q] = catalog[q]
      /\ \A q \in DOMAIN rest : catalog[q].mode = "profile" => catalog[q].backup # p
      BY DEF Delete
<1>2. /\ \A q \in DOMAIN catalog : ValidFields(q, catalog[q]) /\ IsFiniteSet(DOMAIN catalog)
      /\ Cardinality(DOMAIN catalog) <= MaxProfiles
      BY DEF Settled, CatalogLoads, Loadable, ValidGraph
<1>3. IsFiniteSet(DOMAIN rest) /\ Cardinality(DOMAIN rest) <= MaxProfiles
  <2>1. /\ IsFiniteSet(DOMAIN catalog) /\ DOMAIN rest \in SUBSET DOMAIN catalog
        /\ Cardinality(DOMAIN catalog) \in Nat /\ Cardinality(DOMAIN catalog) <= MaxProfiles
        BY <1>1, FS_CardinalityType DEF Settled, CatalogLoads, Loadable
  <2> HIDE DEF rest
  <2>2. IsFiniteSet(DOMAIN rest) /\ Cardinality(DOMAIN rest) <= Cardinality(DOMAIN catalog)
        BY <2>1, FS_Subset
  <2>3. Cardinality(DOMAIN rest) \in Nat
        BY <2>2, FS_CardinalityType
  <2> QED BY <2>1, <2>2, <2>3, ProfilesAssumption
<1>4. BackupsThere(catalog) /\ NoCycle(catalog)
      BY SettledEnds DEF FallbacksEnd, BackupsThere, NoCycle
<1>5. BackupsThere(rest) /\ None \notin DOMAIN rest
      BY <1>1, <1>4, NobodyIsNone DEF BackupsThere, Settled
<1>6. NoCycle(rest)
      BY <1>1, <1>4 DEF NoCycle
<1>7. \A q \in DOMAIN rest : After(rest, q) = None
  <2> HIDE DEF rest
  <2> QED BY <1>3, <1>5, <1>6, EndsAreReached
<1>8. \A q \in DOMAIN rest : ValidFields(q, rest[q])
      BY <1>1, <1>2
<1> QED BY <1>3, <1>5, <1>7, <1>8 DEF Settled, CatalogLoads, Loadable, ValidGraph, BackupsThere

\* A mark that is set or cleared has been checked with the rest of the catalog.
LEMMA UpdateSettles ==
  ASSUME Settled, CatalogType', NEW p, NEW next, DOMAIN next = DOMAIN catalog,
         UpdateFallback(p, next)
  PROVE  Settled'
BY DEF Settled, CatalogLoads, Loadable, UpdateFallback, CanUpdateFallback

\* A start leaves a catalog that is accepted, and the empty one is.
LEMMA LoadSettles ==
  ASSUME Settled, CatalogType', Load \/ LoadUnreadable
  PROVE  Settled'
<1>1. catalog' = catalog \/ catalog' = Empty
      BY DEF Load, LoadUnreadable
<1>2. IsFiniteSet(DOMAIN Empty) /\ Loadable(Empty)
  <2>1. DOMAIN Empty = {}
        BY DEF Empty
  <2> QED BY <2>1, FS_EmptySet, ProfilesAssumption DEF Loadable, ValidGraph
<1> QED BY <1>1, <1>2 DEF Settled, CatalogLoads

=============================================================================
