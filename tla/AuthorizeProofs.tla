-------------------------- MODULE AuthorizeProofs ---------------------------
(***************************************************************************)
(* What the gate's walk over the parent pointers computes, for every tree, *)
(* or every map that is not even a tree: the bounded walk of ScopeIndex    *)
(* meets every place above its start, however deep; a place above a place  *)
(* above is above; and coverage by constraints is what the database's      *)
(* minimum over the constraints says.                                      *)
(***************************************************************************)
EXTENDS Authorize, FiniteSetTheorems, WellFoundedInduction, TLAPS

-----------------------------------------------------------------------------
(* Numbers, and functions defined by steps.                                *)

LEMMA LeastNat ==
    ASSUME NEW S, S \subseteq Nat, S # {}
    PROVE  \E n \in S : \A m \in S : n <= m
<1>1. \E n \in S : \A m \in S : <<m, n>> \notin OpToRel(<, Nat)
  BY NatLessThanWellFounded, WFMin
<1>2. PICK n \in S : \A m \in S : <<m, n>> \notin OpToRel(<, Nat)
  BY <1>1
<1>3. \A m \in S : ~(m < n)
  BY <1>2 DEF OpToRel
<1> QED
  BY <1>3

(* Induction over the members of a set of numbers.                         *)
LEMMA Induct ==
    ASSUME NEW S, 0 \in S, \A k \in Nat : k \in S => k + 1 \in S
    PROVE  Nat \subseteq S
<1> SUFFICES ASSUME Nat \ S # {} PROVE FALSE
  OBVIOUS
<1>1. PICK n \in Nat \ S : \A m \in Nat \ S : n <= m
  BY LeastNat
<1>2. n # 0 /\ n \in Nat /\ n - 1 \in Nat
  BY <1>1
<1>3. n - 1 \in S
  BY <1>1, <1>2
<1> QED
  BY <1>1, <1>2, <1>3

(* The first n + 1 steps from a.                                           *)
Steps(V, D, a, n, g) ==
    g \in [0 .. n -> V] /\ g[0] = a /\ \A k \in 0 .. n - 1 : g[k + 1] = D[g[k]]

LEMMA StepsAgree ==
    ASSUME NEW V, NEW D \in [V -> V], NEW a \in V, NEW m \in Nat, NEW n \in Nat, NEW g, NEW h,
           Steps(V, D, a, m, g), Steps(V, D, a, n, h)
    PROVE  \A k \in Nat : k <= m /\ k <= n => g[k] = h[k]
<1> DEFINE S == {k \in Nat : k <= m /\ k <= n => g[k] = h[k]}
<1>1. 0 \in S
  BY DEF Steps
<1>2. ASSUME NEW k \in Nat, k \in S PROVE k + 1 \in S
  <2> SUFFICES ASSUME k + 1 <= m, k + 1 <= n PROVE g[k + 1] = h[k + 1]
    OBVIOUS
  <2>1. g[k] = h[k]
    BY <1>2
  <2>2. k \in 0 .. m - 1 /\ k \in 0 .. n - 1
    OBVIOUS
  <2> QED
    BY <2>1, <2>2 DEF Steps
<1> HIDE DEF S
<1>3. Nat \subseteq S
  BY <1>1, <1>2, Induct
<1> QED
  BY <1>3 DEF S

LEMMA StepsExist ==
    ASSUME NEW V, NEW D \in [V -> V], NEW a \in V
    PROVE  \A n \in Nat : \E g : Steps(V, D, a, n, g)
<1> DEFINE S == {n \in Nat : \E g : Steps(V, D, a, n, g)}
<1>1. 0 \in S
  <2>1. Steps(V, D, a, 0, [k \in 0 .. 0 |-> a])
    BY DEF Steps
  <2> QED
    BY <2>1
<1>2. ASSUME NEW n \in Nat, n \in S PROVE n + 1 \in S
  <2>1. PICK g : Steps(V, D, a, n, g)
    BY <1>2
  <2> DEFINE h == [k \in 0 .. n + 1 |-> IF k = n + 1 THEN D[g[n]] ELSE g[k]]
  <2>2. g[n] \in V
    BY <2>1 DEF Steps
  <2>3. h \in [0 .. n + 1 -> V] /\ h[0] = a
    BY <2>1, <2>2 DEF Steps
  <2>4. ASSUME NEW k \in 0 .. (n + 1) - 1 PROVE h[k + 1] = D[h[k]]
    <3>1. k \in 0 .. n /\ h[k] = g[k]
      OBVIOUS
    <3>2. CASE k = n
      BY <3>1, <3>2
    <3>3. CASE k # n
      <4>1. k \in 0 .. n - 1 /\ h[k + 1] = g[k + 1]
        BY <3>1, <3>3
      <4> QED
        BY <2>1, <3>1, <4>1 DEF Steps
    <3> QED
      BY <3>2, <3>3
  <2> HIDE DEF h
  <2>5. Steps(V, D, a, n + 1, h)
    BY <2>3, <2>4 DEF Steps
  <2> QED
    BY <2>5
<1> HIDE DEF S
<1>3. Nat \subseteq S
  BY <1>1, <1>2, Induct
<1> QED
  BY <1>3 DEF S

Endless(V, D, a, f) == f \in [Nat -> V] /\ f[0] = a /\ \A k \in Nat : f[k + 1] = D[f[k]]

LEMMA StepsForever ==
    ASSUME NEW V, NEW D, D \in [V -> V], NEW a, a \in V
    PROVE  \E f : Endless(V, D, a, f)
<1> DEFINE G(n) == CHOOSE g : Steps(V, D, a, n, g)
           f == [n \in Nat |-> G(n)[n]]
<1>1. \A n \in Nat : Steps(V, D, a, n, G(n))
  BY StepsExist
<1> HIDE DEF G
<1>2. f \in [Nat -> V]
  BY <1>1 DEF Steps
<1>3. f[0] = a
  BY <1>1 DEF Steps
<1>4. ASSUME NEW k \in Nat PROVE f[k + 1] = D[f[k]]
  <2>1. Steps(V, D, a, k, G(k)) /\ Steps(V, D, a, k + 1, G(k + 1))
    BY <1>1
  <2>2. G(k)[k] = G(k + 1)[k]
    BY <2>1, StepsAgree
  <2>3. G(k + 1)[k + 1] = D[G(k + 1)[k]]
    BY <2>1 DEF Steps
  <2> QED
    BY <2>2, <2>3
<1> HIDE DEF f
<1>5. Endless(V, D, a, f)
  BY <1>2, <1>3, <1>4 DEF Endless
<1> QED
  BY <1>5

-----------------------------------------------------------------------------
(* The walk up.                                                            *)

IsWalk(parent, t, f) ==
    f = [k \in Nat |-> IF k = 0 THEN Linked(parent, t)
                       ELSE IF f[k - 1] = None THEN None
                       ELSE Linked(parent, f[k - 1])]
Walk(parent, t) == CHOOSE f : IsWalk(parent, t, f)
Placed(parent) == {n \in Nodes : Known(parent, n)}

LEMMA AscentByWalk ==
    ASSUME NEW parent, NEW t
    PROVE  Ascent(parent, t) = {Walk(parent, t)[k] : k \in 0 .. Cardinality(Placed(parent)) - 1} \ {None}
  BY Zenon DEF Ascent, Walk, IsWalk, Placed

LEMMA LinkedFacts ==
    ASSUME NEW parent, NEW x
    PROVE  Linked(parent, x) \in Placed(parent) \cup {None}
  BY DEF Linked, Placed

LEMMA WalkExists ==
    ASSUME NEW parent, NEW t
    PROVE  IsWalk(parent, t, Walk(parent, t))
<1> DEFINE V == Placed(parent) \cup {None}
           D == [x \in V |-> IF x = None THEN None ELSE Linked(parent, x)]
           a == Linked(parent, t)
<1>1. a \in V /\ D \in [V -> V]
  BY LinkedFacts
<1>0. \E f : Endless(V, D, a, f)
  <2> HIDE DEF V, D, a
  <2> QED
    BY <1>1, StepsForever
<1>2. PICK f : f \in [Nat -> V] /\ f[0] = a /\ \A k \in Nat : f[k + 1] = D[f[k]]
  BY <1>0 DEF Endless
<1>3. ASSUME NEW k \in Nat
      PROVE  f[k] = IF k = 0 THEN Linked(parent, t) ELSE IF f[k - 1] = None THEN None ELSE Linked(parent, f[k - 1])
  <2>1. CASE k = 0
    BY <1>2, <2>1
  <2>2. CASE k # 0
    <3>1. k - 1 \in Nat /\ (k - 1) + 1 = k
      BY <2>2
    <3>2. f[k] = D[f[k - 1]] /\ f[k - 1] \in V
      BY <1>2, <3>1
    <3> QED
      BY <2>2, <3>2
  <2> QED
    BY <2>1, <2>2
<1>4. f = [k \in Nat |-> f[k]]
  BY <1>2
<1>5. IsWalk(parent, t, f)
  BY <1>3, <1>4, Zenon DEF IsWalk
<1> QED
  BY <1>5 DEF Walk

LEMMA WalkFacts ==
    ASSUME NEW parent, NEW t, NEW f, IsWalk(parent, t, f)
    PROVE  /\ f[0] = Linked(parent, t)
           /\ \A k \in Nat : f[k + 1] = IF f[k] = None THEN None ELSE Linked(parent, f[k])
           /\ \A k \in Nat : f[k] \in Placed(parent) \cup {None}
<1>1. \A k \in Nat : f[k] = IF k = 0 THEN Linked(parent, t) ELSE IF f[k - 1] = None THEN None ELSE Linked(parent, f[k - 1])
  BY Zenon DEF IsWalk
<1>2. f[0] = Linked(parent, t)
  BY <1>1
<1>3. ASSUME NEW k \in Nat PROVE f[k + 1] = IF f[k] = None THEN None ELSE Linked(parent, f[k])
  <2>1. k + 1 \in Nat /\ k + 1 # 0 /\ (k + 1) - 1 = k
    OBVIOUS
  <2> QED
    BY <1>1, <2>1
<1>4. \A k \in Nat : f[k] \in Placed(parent) \cup {None}
  BY <1>1, LinkedFacts
<1> QED
  BY <1>2, <1>3, <1>4

(* From the same place, the walk goes on the same way.                     *)
LEMMA WalkRepeats ==
    ASSUME NEW parent, NEW t, NEW f, IsWalk(parent, t, f), NEW i \in Nat, NEW j \in Nat, f[i] = f[j]
    PROVE  \A d \in Nat : f[i + d] = f[j + d]
<1> DEFINE S == {d \in Nat : f[i + d] = f[j + d]}
<1>1. 0 \in S
  OBVIOUS
<1>2. ASSUME NEW d \in Nat, d \in S PROVE d + 1 \in S
  <2>1. f[i + d] = f[j + d] /\ i + d \in Nat /\ j + d \in Nat
    BY <1>2
  <2>2. f[(i + d) + 1] = f[(j + d) + 1]
    BY <2>1, WalkFacts
  <2>3. (i + d) + 1 = i + (d + 1) /\ (j + d) + 1 = j + (d + 1)
    OBVIOUS
  <2> QED
    BY <2>2, <2>3
<1> HIDE DEF S
<1>3. Nat \subseteq S
  BY <1>1, <1>2, Induct
<1> QED
  BY <1>3 DEF S

LEMMA WalkEnds ==
    ASSUME NEW parent, NEW t, NEW f, IsWalk(parent, t, f), NEW i \in Nat, f[i] = None
    PROVE  \A d \in Nat : f[i + d] = None
<1> DEFINE S == {d \in Nat : f[i + d] = None}
<1>1. 0 \in S
  OBVIOUS
<1>2. ASSUME NEW d \in Nat, d \in S PROVE d + 1 \in S
  <2>1. f[i + d] = None /\ i + d \in Nat
    BY <1>2
  <2>2. f[(i + d) + 1] = None
    BY <2>1, WalkFacts
  <2>3. (i + d) + 1 = i + (d + 1)
    OBVIOUS
  <2> QED
    BY <2>2, <2>3
<1> HIDE DEF S
<1>3. Nat \subseteq S
  BY <1>1, <1>2, Induct
<1> QED
  BY <1>3 DEF S

(* As many steps as there are places are enough: a walk that were longer   *)
(* would have come back to a place, and been there earlier.                *)
LEMMA WalkIsShort ==
    ASSUME NEW parent, NEW t, NEW f, IsWalk(parent, t, f), NEW i \in Nat, f[i] # None
    PROVE  \E j \in 0 .. Cardinality(Placed(parent)) - 1 : f[j] = f[i]
<1> DEFINE S == {j \in Nat : f[j] = f[i]}
           len == Cardinality(Placed(parent))
<1>1. IsFiniteSet(Placed(parent)) /\ len \in Nat
  <2>1. Placed(parent) \subseteq Nodes
    BY DEF Placed
  <2> QED
    BY <2>1, TreeAssumption, FS_Subset, FS_CardinalityType
<1>2. PICK j \in S : \A k \in S : j <= k
  <2>1. S \subseteq Nat /\ S # {}
    OBVIOUS
  <2> HIDE DEF S
  <2> QED
    BY <2>1, LeastNat
<1> HIDE DEF len
<1>3. ASSUME j >= len PROVE FALSE
  <2>1. ASSUME NEW k \in 0 .. j, f[k] = None PROVE FALSE
    <3>1. k \in Nat /\ j - k \in Nat /\ k + (j - k) = j
      BY <1>2
    <3>2. f[j] = None
      BY <2>1, <3>1, WalkEnds
    <3> QED
      BY <1>2, <3>2
  <2> DEFINE h == [k \in 0 .. j |-> f[k]]
  <2>2. h \in [0 .. j -> Placed(parent)]
    BY <1>2, <2>1, WalkFacts
  <2>3. IsFiniteSet(0 .. j) /\ Cardinality(0 .. j) = j + 1
    <3>1. 0 \in Int /\ j \in Int /\ ~(0 > j)
      BY <1>2
    <3> QED
      BY <3>1, FS_Interval
  <2>4. Cardinality(Placed(parent)) < Cardinality(0 .. j)
    BY <1>1, <1>2, <1>3, <2>3 DEF len
  <2>5. \E x, y \in 0 .. j : x # y /\ h[x] = h[y]
    <3> HIDE DEF h
    <3> QED
      BY <1>1, <2>2, <2>3, <2>4, FS_PigeonHole
  <2>6. PICK x \in 0 .. j, y \in 0 .. j : x < y /\ f[x] = f[y]
    BY <1>2, <2>5
  <2>7. x \in Nat /\ y \in Nat /\ j - y \in Nat /\ y + (j - y) = j /\ x + (j - y) \in Nat /\ x + (j - y) < j
    BY <1>2, <2>6
  <2>8. f[x + (j - y)] = f[j]
    BY <2>6, <2>7, WalkRepeats
  <2>9. x + (j - y) \in S
    BY <1>2, <2>7, <2>8
  <2> QED
    BY <1>2, <2>7, <2>9
<1>4. j \in 0 .. len - 1 /\ f[j] = f[i]
  BY <1>1, <1>2, <1>3
<1> QED
  BY <1>4 DEF len

(* The walk of as many steps as there are places meets all that is above.  *)
LEMMA AscentIsComplete ==
    ASSUME NEW parent, NEW t, NEW n
    PROVE  n \in Ascent(parent, t) <=> n # None /\ \E k \in Nat : Walk(parent, t)[k] = n
<1> DEFINE f == Walk(parent, t)
           len == Cardinality(Placed(parent))
<1>1. IsWalk(parent, t, f) /\ len \in Nat
  <2>1. Placed(parent) \subseteq Nodes
    BY DEF Placed
  <2> QED
    BY <2>1, WalkExists, TreeAssumption, FS_Subset, FS_CardinalityType
<1>2. n \in Ascent(parent, t) <=> n # None /\ \E k \in 0 .. len - 1 : f[k] = n
  BY AscentByWalk
<1> HIDE DEF f, len
<1>3. ASSUME n # None, NEW k \in Nat, f[k] = n PROVE \E j \in 0 .. len - 1 : f[j] = n
  BY <1>1, <1>3, WalkIsShort DEF len
<1>4. \A k \in 0 .. len - 1 : k \in Nat
  BY <1>1
<1>5. n \in Ascent(parent, t) <=> n # None /\ \E k \in Nat : f[k] = n
  BY <1>2, <1>3, <1>4
<1> QED
  BY <1>5 DEF f

(* One step up, and on from there.                                         *)
LEMMA WalkFrom ==
    ASSUME NEW parent, NEW t, NEW f, IsWalk(parent, t, f), NEW j \in Nat, f[j] # None,
           NEW h, IsWalk(parent, f[j], h)
    PROVE  \A k \in Nat : h[k] = f[(j + 1) + k]
<1> DEFINE S == {k \in Nat : h[k] = f[(j + 1) + k]}
<1>1. 0 \in S
  <2>1. h[0] = Linked(parent, f[j])
    BY WalkFacts
  <2>2. f[j + 1] = Linked(parent, f[j])
    BY WalkFacts
  <2> QED
    BY <2>1, <2>2
<1>2. ASSUME NEW k \in Nat, k \in S PROVE k + 1 \in S
  <2>1. h[k] = f[(j + 1) + k] /\ (j + 1) + k \in Nat
    BY <1>2
  <2>2. h[k + 1] = IF h[k] = None THEN None ELSE Linked(parent, h[k])
    BY WalkFacts
  <2>3. f[((j + 1) + k) + 1] = IF h[k] = None THEN None ELSE Linked(parent, h[k])
    BY <2>1, WalkFacts
  <2>4. ((j + 1) + k) + 1 = (j + 1) + (k + 1)
    OBVIOUS
  <2> QED
    BY <2>2, <2>3, <2>4
<1> HIDE DEF S
<1>3. Nat \subseteq S
  BY <1>1, <1>2, Induct
<1> QED
  BY <1>3 DEF S

(* What is above a place above is above: a branch lies whole inside the    *)
(* branch its top lies in.                                                 *)
THEOREM AscentNests ==
    ASSUME NEW parent, NEW t, NEW m \in Ascent(parent, t), NEW n \in Ascent(parent, m)
    PROVE  n \in Ascent(parent, t)
<1> DEFINE f == Walk(parent, t)
           h == Walk(parent, m)
<1>1. IsWalk(parent, t, f) /\ IsWalk(parent, m, h)
  BY WalkExists
<1>2. PICK j \in Nat : f[j] = m /\ m # None
  BY AscentIsComplete
<1>3. PICK k \in Nat : h[k] = n /\ n # None
  BY AscentIsComplete
<1> HIDE DEF f, h
<1>4. n = f[(j + 1) + k] /\ (j + 1) + k \in Nat
  BY <1>1, <1>2, <1>3, WalkFrom
<1> QED
  BY <1>3, <1>4, AscentIsComplete DEF f

(* What is above a place is its parent, if the tree has that, and what is  *)
(* above the parent.                                                       *)
LEMMA AscentSteps ==
    ASSUME NEW parent, NEW t
    PROVE  Ascent(parent, t) = IF Linked(parent, t) = None THEN {}
                               ELSE {Linked(parent, t)} \cup Ascent(parent, Linked(parent, t))
<1> DEFINE f == Walk(parent, t)
           u == Linked(parent, t)
           h == Walk(parent, u)
<1>1. IsWalk(parent, t, f) /\ IsWalk(parent, u, h)
  BY WalkExists
<1>2. \A n : n \in Ascent(parent, t) <=> n # None /\ \E k \in Nat : f[k] = n
  BY AscentIsComplete
<1>3. \A n : n \in Ascent(parent, u) <=> n # None /\ \E k \in Nat : h[k] = n
  BY AscentIsComplete
<1>u. u = Linked(parent, t)
  OBVIOUS
<1> HIDE DEF f, u, h
<1>4. f[0] = u
  BY <1>1, <1>u, WalkFacts
<1>5. CASE u = None
  <2>1. \A k \in Nat : f[0 + k] = None
    BY <1>1, <1>4, <1>5, WalkEnds
  <2>2. \A k \in Nat : f[k] = None
    BY <2>1
  <2> QED
    BY <1>2, <1>5, <1>u, <2>2
<1>6. CASE u # None
  <2>1. \A k \in Nat : h[k] = f[(0 + 1) + k]
    BY <1>1, <1>4, <1>6, WalkFrom
  <2>2. \A k \in Nat : h[k] = f[k + 1]
    BY <2>1
  <2>3. ASSUME NEW n PROVE n \in Ascent(parent, t) <=> n = u \/ n \in Ascent(parent, u)
    <3>1. ASSUME n \in Ascent(parent, t) PROVE n = u \/ n \in Ascent(parent, u)
      <4>1. PICK k \in Nat : f[k] = n /\ n # None
        BY <1>2, <3>1
      <4>2. CASE k = 0
        BY <1>4, <4>1, <4>2
      <4>3. CASE k # 0
        <5>1. k - 1 \in Nat /\ h[k - 1] = n
          BY <2>2, <4>1, <4>3
        <5> QED
          BY <1>3, <4>1, <5>1
      <4> QED
        BY <4>2, <4>3
    <3>2. ASSUME n = u PROVE n \in Ascent(parent, t)
      BY <1>2, <1>4, <1>6, <3>2
    <3>3. ASSUME n \in Ascent(parent, u) PROVE n \in Ascent(parent, t)
      <4>1. PICK k \in Nat : h[k] = n /\ n # None
        BY <1>3, <3>3
      <4>2. k + 1 \in Nat /\ f[k + 1] = n
        BY <2>2, <4>1
      <4> QED
        BY <1>2, <4>1, <4>2
    <3> QED
      BY <3>1, <3>2, <3>3
  <2> QED
    BY <1>6, <1>u, <2>3
<1> QED
  BY <1>5, <1>6

LEMMA AscentIsPlaced ==
    ASSUME NEW parent, NEW t
    PROVE  Ascent(parent, t) \subseteq Placed(parent)
<1>1. IsWalk(parent, t, Walk(parent, t))
  BY WalkExists
<1>2. \A k \in Nat : Walk(parent, t)[k] \in Placed(parent) \cup {None}
  BY <1>1, WalkFacts
<1> QED
  BY <1>2, AscentIsComplete

-----------------------------------------------------------------------------
(* Coverage.                                                               *)

(* The constraints that bear on the target.                                *)
Bearing(parent, t, cs) == {k \in cs : k.node = t \/ (k.inherit /\ k.node \in Ascent(parent, t))}

(* CoveredBy, with its early returns and its short cuts where nothing is   *)
(* excluded or nothing inherits, is: something bears on the target and     *)
(* nothing that does excludes.                                             *)
THEOREM CoverageIsPlain ==
    ASSUME NEW parent, NEW t, NEW cs \in SUBSET Constraints
    PROVE  CoveredBy(parent, t, cs)
             <=> /\ Known(parent, t)
                 /\ Bearing(parent, t, cs) # {}
                 /\ \A k \in Bearing(parent, t, cs) : ~k.exclude
<1>1. \A k \in cs : k.inherit \in BOOLEAN /\ k.exclude \in BOOLEAN
  BY DEF Constraints
<1> DEFINE here == {c \in cs : c.node = t}
           above == {c \in cs : c.inherit /\ c.node \in Ascent(parent, t)}
           inherits == \E c \in cs : c.inherit
           excludes == \E c \in cs : c.exclude
<1>2. CoveredBy(parent, t, cs)
        <=> /\ Known(parent, t)
            /\ ~ \E c \in here : c.exclude
            /\ \/ here # {} /\ ~excludes
               \/ here # {} /\ ~inherits
               \/ inherits /\ (~ \E c \in above : c.exclude) /\ (here # {} \/ above # {})
  BY Zenon DEF CoveredBy
<1>3. Bearing(parent, t, cs) = here \cup above
  BY DEF Bearing
<1>4. above # {} => inherits
  OBVIOUS
<1>5. (\E c \in above : c.exclude) => excludes /\ inherits
  OBVIOUS
<1> HIDE DEF here, above, inherits, excludes
<1> QED
  BY <1>2, <1>3, <1>4, <1>5
=============================================================================
