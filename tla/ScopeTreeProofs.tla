-------------------------- MODULE ScopeTreeProofs ---------------------------
(***************************************************************************)
(* The closure table is the tree's, for any places, any number of writers  *)
(* who add and move at the same time, every failure included, until a      *)
(* commit comes between what another writer's row has read and what it     *)
(* writes (run ScopeMoves); and where the closure is the tree's, the gate  *)
(* and the database answer alike, whatever the catalog says.               *)
(***************************************************************************)
EXTENDS ScopeTree, AuthorizeProofs

-----------------------------------------------------------------------------
(* A table that says what a map of parents says, row by row: C holds every *)
(* place at distance 0 of itself, and above it what is above its parent,   *)
(* one further.  The map is a forest, and C is acyclic and not too deep.   *)

Rows == Nodes \X Nodes \X (0 .. MaxDepth)
Maps == [Nodes -> Nodes \cup {None, Absent}]

Rooted(up) == \A n \in Nodes : up[n] \in Nodes => up[up[n]] # Absent
Selves(C, up) == \A a \in Nodes, n \in Nodes : <<a, n, 0>> \in C <=> a = n /\ up[n] # Absent
Above(C, up) ==
    \A a \in Nodes, n \in Nodes, k \in Nat :
        <<a, n, k + 1>> \in C <=> up[n] \in Nodes /\ <<a, up[n], k>> \in C
Acyclic(C) == \A n \in Nodes, k \in Nat : <<n, n, k>> \in C => k = 0

Mirrors(C, up) ==
    /\ up \in Maps /\ Rooted(up)
    /\ C \subseteq Nodes \X Nodes \X Nat
    /\ Selves(C, up) /\ Above(C, up) /\ Acyclic(C)

(* What is above a place above is above, at the sum of the distances.      *)
LEMMA Compose ==
    ASSUME NEW C, NEW up, Mirrors(C, up), NEW a \in Nodes, NEW b \in Nodes, NEW i \in Nat,
           <<a, b, i>> \in C
    PROVE  \A j \in Nat : \A m \in Nodes : <<b, m, j>> \in C => <<a, m, i + j>> \in C
<1> DEFINE S == {j \in Nat : \A m \in Nodes : <<b, m, j>> \in C => <<a, m, i + j>> \in C}
<1>1. 0 \in S
  BY DEF Mirrors, Selves
<1>2. ASSUME NEW j \in Nat, j \in S PROVE j + 1 \in S
  <2> SUFFICES ASSUME NEW m \in Nodes, <<b, m, j + 1>> \in C PROVE <<a, m, i + (j + 1)>> \in C
    OBVIOUS
  <2>1. up[m] \in Nodes /\ <<b, up[m], j>> \in C
    BY DEF Mirrors, Above
  <2>2. <<a, up[m], i + j>> \in C /\ i + j \in Nat /\ (i + j) + 1 = i + (j + 1)
    BY <2>1, <1>2
  <2>3. <<a, m, (i + j) + 1>> \in C
    BY <2>1, <2>2 DEF Mirrors, Above
  <2> QED
    BY <2>2, <2>3
<1> HIDE DEF S
<1>3. Nat \subseteq S
  BY <1>1, <1>2, Induct
<1> QED
  BY <1>3 DEF S

(* Of two places above a third the further is above the nearer.            *)
LEMMA Drop ==
    ASSUME NEW C, NEW up, Mirrors(C, up), NEW b \in Nodes
    PROVE  \A i \in Nat : \A j \in Nat : \A a \in Nodes, m \in Nodes :
             <<b, m, i + j>> \in C /\ <<a, m, i>> \in C => <<b, a, j>> \in C
<1> DEFINE S == {i \in Nat : \A j \in Nat : \A a \in Nodes, m \in Nodes :
                   <<b, m, i + j>> \in C /\ <<a, m, i>> \in C => <<b, a, j>> \in C}
<1>1. 0 \in S
  BY DEF Mirrors, Selves
<1>2. ASSUME NEW i \in Nat, i \in S PROVE i + 1 \in S
  <2> SUFFICES ASSUME NEW j \in Nat, NEW a \in Nodes, NEW m \in Nodes,
                      <<b, m, (i + 1) + j>> \in C, <<a, m, i + 1>> \in C
               PROVE  <<b, a, j>> \in C
    OBVIOUS
  <2>0. i + j \in Nat /\ (i + 1) + j = (i + j) + 1
    OBVIOUS
  <2>1. up[m] \in Nodes /\ <<b, up[m], i + j>> \in C
    BY <2>0 DEF Mirrors, Above
  <2>2. <<a, up[m], i>> \in C
    BY DEF Mirrors, Above
  <2> QED
    BY <2>1, <2>2, <1>2
<1> HIDE DEF S
<1>3. Nat \subseteq S
  BY <1>1, <1>2, Induct
<1> QED
  BY <1>3 DEF S

(* A place is above another at one distance, and there is one place at a   *)
(* distance.                                                               *)
LEMMA OneDistance ==
    ASSUME NEW C, NEW up, Mirrors(C, up), NEW a \in Nodes, NEW b \in Nodes, NEW m \in Nodes,
           NEW i \in Nat, NEW j \in Nat, <<a, m, i>> \in C, <<b, m, j>> \in C
    PROVE  (a = b) <=> (i = j)
<1>1. ASSUME NEW x \in Nodes, NEW y \in Nodes, NEW k \in Nat, NEW l \in Nat,
             <<x, m, k>> \in C, <<y, m, l>> \in C, k <= l
      PROVE  <<y, x, l - k>> \in C /\ l - k \in Nat
  <2>1. l - k \in Nat /\ k + (l - k) = l
    BY <1>1
  <2>2. <<y, m, k + (l - k)>> \in C
    BY <2>1, <1>1
  <2> QED
    BY <2>1, <2>2, <1>1, Drop
<1>2. CASE i <= j
  <2>1. <<b, a, j - i>> \in C /\ j - i \in Nat
    BY <1>1, <1>2
  <2> QED
    BY <2>1 DEF Mirrors, Selves, Acyclic
<1>3. CASE j <= i
  <2>1. <<a, b, i - j>> \in C /\ i - j \in Nat
    BY <1>1, <1>3
  <2> QED
    BY <2>1 DEF Mirrors, Selves, Acyclic
<1> QED
  BY <1>2, <1>3

(* What is at distance k + 1 is the parent of what is at distance k.       *)
Tops(C, up) ==
    \A k \in Nat : \A a \in Nodes, n \in Nodes :
        <<a, n, k + 1>> \in C <=> \E b \in Nodes : <<b, n, k>> \in C /\ up[b] = a

LEMMA Top ==
    ASSUME NEW C, NEW up, Mirrors(C, up)
    PROVE  Tops(C, up)
<1> DEFINE S == {k \in Nat : \A a \in Nodes, n \in Nodes :
                   <<a, n, k + 1>> \in C <=> \E b \in Nodes : <<b, n, k>> \in C /\ up[b] = a}
<1>0. ASSUME NEW n \in Nodes, up[n] \in Nodes PROVE up[n] # Absent /\ up[up[n]] # Absent
  BY <1>0, TreeAssumption DEF Mirrors, Rooted
<1>1. 0 \in S
  <2> SUFFICES ASSUME NEW a \in Nodes, NEW n \in Nodes
               PROVE  <<a, n, 0 + 1>> \in C <=> \E b \in Nodes : <<b, n, 0>> \in C /\ up[b] = a
    OBVIOUS
  <2>1. <<a, n, 0 + 1>> \in C <=> up[n] \in Nodes /\ <<a, up[n], 0>> \in C
    BY DEF Mirrors, Above
  <2>2. \A b \in Nodes : <<b, n, 0>> \in C <=> b = n /\ up[n] # Absent
    BY DEF Mirrors, Selves
  <2>3. up[n] \in Nodes => (<<a, up[n], 0>> \in C <=> a = up[n])
    BY <1>0 DEF Mirrors, Selves
  <2> QED
    BY <2>1, <2>2, <2>3, <1>0
<1>2. ASSUME NEW k \in Nat, k \in S PROVE k + 1 \in S
  <2> SUFFICES ASSUME NEW a \in Nodes, NEW n \in Nodes
               PROVE  <<a, n, (k + 1) + 1>> \in C
                        <=> \E b \in Nodes : <<b, n, k + 1>> \in C /\ up[b] = a
    OBVIOUS
  <2>1. <<a, n, (k + 1) + 1>> \in C <=> up[n] \in Nodes /\ <<a, up[n], k + 1>> \in C
    BY DEF Mirrors, Above
  <2>2. up[n] \in Nodes => (<<a, up[n], k + 1>> \in C
                              <=> \E b \in Nodes : <<b, up[n], k>> \in C /\ up[b] = a)
    BY <1>2
  <2>3. \A b \in Nodes : <<b, n, k + 1>> \in C <=> up[n] \in Nodes /\ <<b, up[n], k>> \in C
    BY DEF Mirrors, Above
  <2> QED
    BY <2>1, <2>2, <2>3
<1> HIDE DEF S
<1>3. Nat \subseteq S
  BY <1>1, <1>2, Induct
<1> QED
  BY <1>3 DEF S, Tops

(* A path is shorter than there are places: no place is on it twice.       *)
LEMMA PathsAreShort ==
    ASSUME NEW C, NEW up, Mirrors(C, up), NEW n \in Nodes
    PROVE  \A k \in Nat : \A a \in Nodes : <<a, n, k>> \in C => k + 1 <= Cardinality(Nodes)
<1> DEFINE On(k) == {b \in Nodes : \E i \in 0 .. k : <<b, n, i>> \in C}
           S == {k \in Nat : \A a \in Nodes : <<a, n, k>> \in C
                   => IsFiniteSet(On(k)) /\ Cardinality(On(k)) = k + 1}
<1>1. 0 \in S
  <2> SUFFICES ASSUME NEW a \in Nodes, <<a, n, 0>> \in C
               PROVE  IsFiniteSet(On(0)) /\ Cardinality(On(0)) = 0 + 1
    OBVIOUS
  <2>1. On(0) = {n}
    BY DEF Mirrors, Selves
  <2>2. IsFiniteSet({n}) /\ Cardinality({n}) = 1
    BY FS_Singleton
  <2> HIDE DEF On
  <2> QED
    BY <2>1, <2>2
<1>2. ASSUME NEW k \in Nat, k \in S PROVE k + 1 \in S
  <2> SUFFICES ASSUME NEW a \in Nodes, <<a, n, k + 1>> \in C
               PROVE  IsFiniteSet(On(k + 1)) /\ Cardinality(On(k + 1)) = (k + 1) + 1
    OBVIOUS
  <2>1. PICK b \in Nodes : <<b, n, k>> \in C
    BY Top DEF Tops
  <2>2. IsFiniteSet(On(k)) /\ Cardinality(On(k)) = k + 1
    BY <1>2, <2>1
  <2>3. \A x \in Nodes : <<x, n, k + 1>> \in C => x = a
    BY OneDistance
  <2>4. a \notin On(k)
    <3> SUFFICES ASSUME NEW i \in 0 .. k, <<a, n, i>> \in C PROVE FALSE
      OBVIOUS
    <3>1. i = k + 1
      BY OneDistance
    <3> QED
      BY <3>1
  <2>5. On(k + 1) = On(k) \cup {a}
    <3>1. \A i : i \in 0 .. k + 1 <=> i \in 0 .. k \/ i = k + 1
      OBVIOUS
    <3> QED
      BY <3>1, <2>3
  <2> HIDE DEF On
  <2> QED
    BY <2>2, <2>4, <2>5, FS_AddElement
<1> HIDE DEF S
<1>3. Nat \subseteq S
  BY <1>1, <1>2, Induct
<1>4. ASSUME NEW k \in Nat, NEW a \in Nodes, <<a, n, k>> \in C
      PROVE  k + 1 <= Cardinality(Nodes)
  <2>1. Cardinality(On(k)) = k + 1 /\ On(k) \subseteq Nodes
    BY <1>3, <1>4 DEF S
  <2> HIDE DEF On
  <2> QED
    BY <2>1, TreeAssumption, FS_Subset
<1> QED
  BY <1>4

-----------------------------------------------------------------------------
(* Paths, the reading of a map of parents: its recursive function is the   *)
(* rows of a table that mirrors the map, distance by distance.             *)

IsLevels(up, f) ==
    f = [k \in Nat |-> IF k = 0 THEN {<<n, n, 0>> : n \in {m \in Nodes : up[m] # Absent}}
                       ELSE {<<up[r[1]], r[2], k>> : r \in {q \in f[k - 1] : up[q[1]] \in Nodes}}]
Levels(up) == CHOOSE f : IsLevels(up, f)

LEMMA PathsByLevels ==
    ASSUME NEW up
    PROVE  Paths(up) = UNION {Levels(up)[k] : k \in 0 .. Cardinality(Nodes)}
  BY Zenon DEF Paths, Levels, IsLevels

LevelOf(C, k) == {r \in C : r[3] = k}

LEMMA LevelZero ==
    ASSUME NEW C, NEW up, Mirrors(C, up)
    PROVE  LevelOf(C, 0) = {<<n, n, 0>> : n \in {m \in Nodes : up[m] # Absent}}
<1>1. ASSUME NEW r \in C, r[3] = 0 PROVE r \in {<<n, n, 0>> : n \in {m \in Nodes : up[m] # Absent}}
  <2>1. r \in Nodes \X Nodes \X Nat
    BY <1>1 DEF Mirrors
  <2>2. PICK a \in Nodes, n \in Nodes : r = <<a, n, 0>>
    BY <2>1, <1>1
  <2>3. a = n /\ up[n] # Absent
    BY <2>2 DEF Mirrors, Selves
  <2> QED
    BY <2>2, <2>3
<1>2. ASSUME NEW n \in Nodes, up[n] # Absent PROVE <<n, n, 0>> \in LevelOf(C, 0)
  BY <1>2 DEF Mirrors, Selves, LevelOf
<1> QED
  BY <1>1, <1>2 DEF LevelOf

LEMMA LevelNext ==
    ASSUME NEW C, NEW up, Mirrors(C, up), NEW k \in Nat
    PROVE  LevelOf(C, k + 1)
             = {<<up[r[1]], r[2], k + 1>> : r \in {q \in LevelOf(C, k) : up[q[1]] \in Nodes}}
<1> DEFINE R == {<<up[r[1]], r[2], k + 1>> : r \in {q \in LevelOf(C, k) : up[q[1]] \in Nodes}}
<1>0. \A a \in Nodes, n \in Nodes :
        <<a, n, k + 1>> \in C <=> \E b \in Nodes : <<b, n, k>> \in C /\ up[b] = a
  <2>1. Tops(C, up)
    BY Top
  <2> QED
    BY <2>1 DEF Tops
<1>1. ASSUME NEW s \in LevelOf(C, k + 1) PROVE s \in R
  <2>1. s \in Nodes \X Nodes \X Nat /\ s[3] = k + 1
    BY <1>1 DEF Mirrors, LevelOf
  <2>2. PICK a \in Nodes, n \in Nodes : s = <<a, n, k + 1>>
    BY <2>1
  <2>3. PICK b \in Nodes : <<b, n, k>> \in C /\ up[b] = a
    BY <2>2, <1>1, <1>0 DEF LevelOf
  <2>4. <<b, n, k>> \in {q \in LevelOf(C, k) : up[q[1]] \in Nodes}
    BY <2>3 DEF LevelOf
  <2> QED
    BY <2>2, <2>3, <2>4
<1>2. ASSUME NEW q \in LevelOf(C, k), up[q[1]] \in Nodes
      PROVE  <<up[q[1]], q[2], k + 1>> \in LevelOf(C, k + 1)
  <2>1. q \in Nodes \X Nodes \X Nat /\ q[3] = k /\ q \in C
    BY <1>2 DEF Mirrors, LevelOf
  <2>2. PICK b \in Nodes, n \in Nodes : q = <<b, n, k>>
    BY <2>1
  <2>3. <<up[b], n, k + 1>> \in C
    BY <2>1, <2>2, <1>2, <1>0
  <2> QED
    BY <2>2, <2>3 DEF LevelOf
<1> QED
  BY <1>1, <1>2

LEMMA LevelsExist ==
    ASSUME NEW C, NEW up, Mirrors(C, up)
    PROVE  IsLevels(up, Levels(up))
<1> DEFINE f == [k \in Nat |-> LevelOf(C, k)]
           G(k) == IF k = 0 THEN {<<n, n, 0>> : n \in {m \in Nodes : up[m] # Absent}}
                   ELSE {<<up[r[1]], r[2], k>> : r \in {q \in f[k - 1] : up[q[1]] \in Nodes}}
<1>1. ASSUME NEW k \in Nat PROVE LevelOf(C, k) = G(k)
  <2>1. CASE k = 0
    BY <2>1, LevelZero
  <2>2. CASE k # 0
    <3>1. k - 1 \in Nat /\ (k - 1) + 1 = k
      BY <2>2
    <3>2. f[k - 1] = LevelOf(C, k - 1)
      BY <3>1
    <3>3. LevelOf(C, (k - 1) + 1)
            = {<<up[r[1]], r[2], (k - 1) + 1>> : r \in {q \in LevelOf(C, k - 1) : up[q[1]] \in Nodes}}
      BY <3>1, LevelNext
    <3> QED
      BY <2>2, <3>1, <3>2, <3>3
  <2> QED
    BY <2>1, <2>2
<1>2. f = [k \in Nat |-> G(k)]
  <2> HIDE DEF G
  <2> QED
    BY <1>1
<1>3. IsLevels(up, f)
  BY <1>2, Zenon DEF IsLevels
<1> HIDE DEF f
<1> QED
  BY <1>3, Zenon DEF Levels

(* A table that mirrors a map is its reading: there is no other.           *)
LEMMA MirrorsPaths ==
    ASSUME NEW C, NEW up, Mirrors(C, up)
    PROVE  C = Paths(up)
<1> DEFINE f == Levels(up)
           S == {k \in Nat : f[k] = LevelOf(C, k)}
<1>0. \A k \in Nat : f[k] = IF k = 0 THEN {<<n, n, 0>> : n \in {m \in Nodes : up[m] # Absent}}
                       ELSE {<<up[r[1]], r[2], k>> : r \in {q \in f[k - 1] : up[q[1]] \in Nodes}}
  <2>1. IsLevels(up, f)
    BY LevelsExist
  <2> HIDE DEF f
  <2> QED
    BY <2>1, Zenon DEF IsLevels
<1> HIDE DEF f
<1>1. 0 \in S
  BY <1>0, LevelZero
<1>2. ASSUME NEW k \in Nat, k \in S PROVE k + 1 \in S
  <2>1. k + 1 \in Nat /\ k + 1 # 0 /\ (k + 1) - 1 = k
    OBVIOUS
  <2>2. f[k + 1] = {<<up[r[1]], r[2], k + 1>> : r \in {q \in f[k] : up[q[1]] \in Nodes}}
    BY <2>1, <1>0
  <2>3. f[k] = LevelOf(C, k)
    BY <1>2
  <2>4. LevelOf(C, k + 1)
          = {<<up[r[1]], r[2], k + 1>> : r \in {q \in LevelOf(C, k) : up[q[1]] \in Nodes}}
    BY LevelNext
  <2>5. f[k + 1] = LevelOf(C, k + 1)
    BY <2>2, <2>3, <2>4, Zenon
  <2> QED
    BY <2>1, <2>5
<1> HIDE DEF S
<1>3. Nat \subseteq S
  BY <1>1, <1>2, Induct
<1>4. Cardinality(Nodes) \in Nat
  BY TreeAssumption, FS_CardinalityType
<1>5. Paths(up) = UNION {LevelOf(C, k) : k \in 0 .. Cardinality(Nodes)}
  <2>1. Paths(up) = UNION {f[k] : k \in 0 .. Cardinality(Nodes)}
    BY PathsByLevels DEF f
  <2>2. \A k \in 0 .. Cardinality(Nodes) : f[k] = LevelOf(C, k)
    BY <1>3, <1>4 DEF S
  <2> QED
    BY <2>1, <2>2
<1>6. ASSUME NEW r \in C PROVE r[3] \in 0 .. Cardinality(Nodes)
  <2>1. r \in Nodes \X Nodes \X Nat
    BY DEF Mirrors
  <2>2. PICK a \in Nodes, n \in Nodes, k \in Nat : r = <<a, n, k>>
    BY <2>1
  <2>3. k + 1 <= Cardinality(Nodes)
    BY <2>2, PathsAreShort
  <2> QED
    BY <2>2, <2>3, <1>4
<1> QED
  BY <1>5, <1>6 DEF LevelOf

(* Every forest is mirrored: by where the walks of ScopeIndex lead.        *)
LEMMA ForestMirrored ==
    ASSUME NEW up, up \in Maps, Rooted(up), \A n \in Nodes : n \notin Ascent(up, n)
    PROVE  Mirrors(Paths(up), up)
<1> DEFINE W(n) == Walk(up, n)
           C == {r \in Nodes \X Nodes \X Nat :
                   up[r[2]] # Absent /\ IF r[3] = 0 THEN r[1] = r[2] ELSE W(r[2])[r[3] - 1] = r[1]}
<1>1. \A n : IsWalk(up, n, W(n))
  BY WalkExists
<1>2. ASSUME NEW n \in Nodes
      PROVE  /\ Linked(up, n) = IF up[n] \in Nodes THEN up[n] ELSE None
             /\ W(n)[0] = Linked(up, n)
             /\ \A k \in Nat : W(n)[k] \in Nodes => n # W(n)[k]
  <2>1. Linked(up, n) = IF up[n] \in Nodes THEN up[n] ELSE None
    BY DEF Linked, Known, Rooted
  <2>2. W(n)[0] = Linked(up, n)
    BY <1>1, WalkFacts
  <2>3. \A x : x \in Ascent(up, n) <=> x # None /\ \E k \in Nat : W(n)[k] = x
    BY AscentIsComplete
  <2>4. \A k \in Nat : W(n)[k] \in Nodes => W(n)[k] \in Ascent(up, n)
    BY <2>3, TreeAssumption
  <2> HIDE DEF W
  <2> QED
    BY <2>1, <2>2, <2>4
<1>3. ASSUME NEW n \in Nodes, up[n] \notin Nodes PROVE \A k \in Nat : W(n)[k] = None
  <2>1. W(n)[0] = None
    BY <1>2, <1>3
  <2>2. \A d \in Nat : W(n)[0 + d] = None
    BY <1>1, <2>1, WalkEnds
  <2> HIDE DEF W
  <2> QED
    BY <2>2
<1>4. ASSUME NEW n \in Nodes, up[n] \in Nodes PROVE \A k \in Nat : W(up[n])[k] = W(n)[k + 1]
  <2>1. W(n)[0] = up[n] /\ up[n] # None
    BY <1>2, <1>4, TreeAssumption
  <2>2. IsWalk(up, n, W(n)) /\ IsWalk(up, W(n)[0], W(up[n]))
    BY <1>1, <2>1
  <2>3. \A k \in Nat : W(up[n])[k] = W(n)[(0 + 1) + k]
    <3> HIDE DEF W
    <3> QED
      BY <2>1, <2>2, WalkFrom
  <2>4. \A k \in Nat : (0 + 1) + k = k + 1
    OBVIOUS
  <2> HIDE DEF W
  <2> QED
    BY <2>3, <2>4
<1> HIDE DEF W
<1>5. C \subseteq Nodes \X Nodes \X Nat
  OBVIOUS
<1>6. \A a \in Nodes, n \in Nodes, k \in Nat :
        <<a, n, k>> \in C <=> up[n] # Absent /\ IF k = 0 THEN a = n ELSE W(n)[k - 1] = a
  OBVIOUS
<1> HIDE DEF C
<1>7. Selves(C, up)
  BY <1>6 DEF Selves
<1>8. ASSUME NEW a \in Nodes, NEW n \in Nodes, NEW k \in Nat
      PROVE  <<a, n, k + 1>> \in C <=> up[n] \in Nodes /\ <<a, up[n], k>> \in C
  <2>0. k + 1 \in Nat /\ k + 1 # 0 /\ (k + 1) - 1 = k
    OBVIOUS
  <2>1. <<a, n, k + 1>> \in C <=> up[n] # Absent /\ W(n)[k] = a
    BY <2>0, <1>6
  <2>2. CASE up[n] \notin Nodes
    BY <2>1, <2>2, <1>3, TreeAssumption
  <2>3. CASE up[n] \in Nodes
    <3>1. up[n] # Absent /\ up[up[n]] # Absent
      BY <2>3, TreeAssumption DEF Rooted
    <3>2. <<a, up[n], k>> \in C <=> IF k = 0 THEN a = up[n] ELSE W(up[n])[k - 1] = a
      BY <3>1, <2>3, <1>6
    <3>3. CASE k = 0
      BY <3>1, <3>2, <3>3, <2>1, <2>3, <1>2
    <3>4. CASE k # 0
      <4>1. k - 1 \in Nat /\ (k - 1) + 1 = k
        BY <3>4
      <4>2. W(up[n])[k - 1] = W(n)[k]
        BY <4>1, <1>4, <2>3
      <4> QED
        BY <4>2, <3>4, <3>1, <3>2, <2>1, <2>3
    <3> QED
      BY <3>3, <3>4
  <2> QED
    BY <2>2, <2>3
<1>9. Above(C, up)
  BY <1>8 DEF Above
<1>10. Acyclic(C)
  <2> SUFFICES ASSUME NEW n \in Nodes, NEW k \in Nat, <<n, n, k>> \in C, k # 0 PROVE FALSE
    BY DEF Acyclic
  <2>1. k - 1 \in Nat /\ W(n)[k - 1] = n
    BY <1>6
  <2> QED
    BY <2>1, <1>2
<1>11. Mirrors(C, up)
  BY <1>5, <1>7, <1>9, <1>10 DEF Mirrors
<1>12. C = Paths(up)
  BY <1>11, MirrorsPaths
<1> QED
  BY <1>11, <1>12

-----------------------------------------------------------------------------
(* What the statements make of a table that mirrors a map.                 *)

(* A place that is not in the tree has no rows.                            *)
LEMMA AbsentHasNoRows ==
    ASSUME NEW C, NEW up, Mirrors(C, up), NEW n \in Nodes, up[n] = Absent
    PROVE  \A a \in Nodes, k \in Nat : <<a, n, k>> \notin C
<1> SUFFICES ASSUME NEW a \in Nodes, NEW k \in Nat, <<a, n, k>> \in C PROVE FALSE
  OBVIOUS
<1>1. CASE k = 0
  BY <1>1 DEF Mirrors, Selves
<1>2. CASE k # 0
  <2>1. k - 1 \in Nat /\ (k - 1) + 1 = k
    BY <1>2
  <2>2. up[n] \in Nodes
    BY <2>1 DEF Mirrors, Above
  <2> QED
    BY <2>2, TreeAssumption
<1> QED
  BY <1>1, <1>2

(* scope_add_node: the new place and the links to what is above its parent.*)
Closed(C, n, p) ==
    C \cup {<<n, n, 0>>} \cup {<<r[1], n, r[3] + 1>> : r \in {q \in C : q[2] = p}}

LEMMA ClosedRows ==
    ASSUME NEW C, C \subseteq Nodes \X Nodes \X Nat, NEW n \in Nodes, NEW p \in Nodes
    PROVE  /\ Closed(C, n, p) \subseteq Nodes \X Nodes \X Nat
           /\ \A a \in Nodes, m \in Nodes, k \in Nat :
                <<a, m, k>> \in Closed(C, n, p)
                  <=> \/ <<a, m, k>> \in C
                      \/ m = n /\ k = 0 /\ a = n
                      \/ m = n /\ k # 0 /\ <<a, p, k - 1>> \in C
<1>1. ASSUME NEW r \in C PROVE \E a \in Nodes, m \in Nodes, k \in Nat : r = <<a, m, k>>
  <2>1. r \in Nodes \X Nodes \X Nat
    OBVIOUS
  <2> QED
    BY <2>1
<1>2. ASSUME NEW s, s \in Closed(C, n, p)
      PROVE  \/ s \in C
             \/ s = <<n, n, 0>>
             \/ \E a \in Nodes, k \in Nat : s = <<a, n, k + 1>> /\ <<a, p, k>> \in C
  <2>1. CASE \E r \in {q \in C : q[2] = p} : s = <<r[1], n, r[3] + 1>>
    <3>1. PICK r \in C : r[2] = p /\ s = <<r[1], n, r[3] + 1>>
      BY <2>1
    <3>2. PICK a \in Nodes, m \in Nodes, k \in Nat : r = <<a, m, k>>
      BY <1>1
    <3>3. m = p /\ s = <<a, n, k + 1>> /\ <<a, p, k>> \in C
      BY <3>1, <3>2
    <3> QED
      BY <3>3
  <2> QED
    BY <2>1, <1>2 DEF Closed
<1>3. Closed(C, n, p) \subseteq Nodes \X Nodes \X Nat
  <2> SUFFICES ASSUME NEW s \in Closed(C, n, p) PROVE s \in Nodes \X Nodes \X Nat
    OBVIOUS
  <2>1. CASE \E a \in Nodes, k \in Nat : s = <<a, n, k + 1>> /\ <<a, p, k>> \in C
    BY <2>1
  <2>2. CASE s = <<n, n, 0>>
    BY <2>2
  <2> QED
    BY <1>2, <2>1, <2>2
<1>4. ASSUME NEW a \in Nodes, NEW m \in Nodes, NEW k \in Nat, <<a, m, k>> \in Closed(C, n, p)
      PROVE  \/ <<a, m, k>> \in C
             \/ m = n /\ k = 0 /\ a = n
             \/ m = n /\ k # 0 /\ <<a, p, k - 1>> \in C
  <2>1. CASE \E b \in Nodes, j \in Nat : <<a, m, k>> = <<b, n, j + 1>> /\ <<b, p, j>> \in C
    <3>1. PICK b \in Nodes, j \in Nat : <<a, m, k>> = <<b, n, j + 1>> /\ <<b, p, j>> \in C
      BY <2>1
    <3>2. a = b /\ m = n /\ k = j + 1
      BY <3>1
    <3>3. k # 0 /\ k - 1 = j
      BY <3>2
    <3> QED
      BY <3>1, <3>2, <3>3
  <2> QED
    BY <1>2, <1>4, <2>1
<1>5. ASSUME NEW a \in Nodes, NEW k \in Nat, k # 0, <<a, p, k - 1>> \in C
      PROVE  <<a, n, k>> \in Closed(C, n, p)
  <2> DEFINE r == <<a, p, k - 1>>
  <2>1. r \in {q \in C : q[2] = p} /\ <<r[1], n, r[3] + 1>> = <<a, n, k>>
    BY <1>5
  <2> HIDE DEF r
  <2> QED
    BY <2>1 DEF Closed
<1>6. \A a \in Nodes, m \in Nodes, k \in Nat :
        \/ <<a, m, k>> \in C
        \/ m = n /\ k = 0 /\ a = n
        => <<a, m, k>> \in Closed(C, n, p)
  BY DEF Closed
<1> QED
  BY <1>3, <1>4, <1>5, <1>6

LEMMA AddKeeps ==
    ASSUME NEW C, NEW up, Mirrors(C, up), NEW n \in Nodes, NEW p \in Nodes,
           up[n] = Absent, up[p] # Absent
    PROVE  Mirrors(Closed(C, n, p), [up EXCEPT ![n] = p])
<1> DEFINE D == Closed(C, n, p)
           v == [up EXCEPT ![n] = p]
<1>0. C \subseteq Nodes \X Nodes \X Nat /\ up \in Maps /\ Rooted(up)
  BY DEF Mirrors
<1>1. /\ D \subseteq Nodes \X Nodes \X Nat
      /\ \A a \in Nodes, m \in Nodes, k \in Nat :
           <<a, m, k>> \in D <=> \/ <<a, m, k>> \in C
                                 \/ m = n /\ k = 0 /\ a = n
                                 \/ m = n /\ k # 0 /\ <<a, p, k - 1>> \in C
  BY <1>0, ClosedRows
<1>2. v \in Maps /\ v[n] = p /\ \A m \in Nodes : m # n => v[m] = up[m]
  BY <1>0 DEF Maps
<1>3. \A a \in Nodes, k \in Nat : <<a, n, k>> \notin C
  BY AbsentHasNoRows
<1>4. n # p /\ p # Absent /\ n # Absent /\ \A m \in Nodes : up[m] # n
  BY <1>0, TreeAssumption DEF Rooted
<1> HIDE DEF D, v
<1>5. Rooted(v)
  BY <1>0, <1>2, <1>4, TreeAssumption DEF Rooted
<1>6. Selves(D, v)
  <2> SUFFICES ASSUME NEW a \in Nodes, NEW m \in Nodes
               PROVE  <<a, m, 0>> \in D <=> a = m /\ v[m] # Absent
    BY DEF Selves
  <2>1. <<a, m, 0>> \in D <=> <<a, m, 0>> \in C \/ (m = n /\ a = n)
    BY <1>1
  <2>2. <<a, m, 0>> \in C <=> a = m /\ up[m] # Absent
    BY DEF Mirrors, Selves
  <2> QED
    BY <2>1, <2>2, <1>2, <1>4
<1>7. Above(D, v)
  <2> SUFFICES ASSUME NEW a \in Nodes, NEW m \in Nodes, NEW k \in Nat
               PROVE  <<a, m, k + 1>> \in D <=> v[m] \in Nodes /\ <<a, v[m], k>> \in D
    BY DEF Above
  <2>0. k + 1 \in Nat /\ k + 1 # 0 /\ (k + 1) - 1 = k
    OBVIOUS
  <2>1. <<a, m, k + 1>> \in D <=> <<a, m, k + 1>> \in C \/ (m = n /\ <<a, p, k>> \in C)
    BY <2>0, <1>1
  <2>2. <<a, m, k + 1>> \in C <=> up[m] \in Nodes /\ <<a, up[m], k>> \in C
    BY DEF Mirrors, Above
  <2>3. \A b \in Nodes : b # n => (<<a, b, k>> \in D <=> <<a, b, k>> \in C)
    BY <1>1
  <2>4. CASE m = n
    BY <2>4, <2>0, <2>1, <2>3, <1>2, <1>3, <1>4
  <2>5. CASE m # n
    BY <2>5, <2>1, <2>2, <2>3, <1>2, <1>4
  <2> QED
    BY <2>4, <2>5
<1>8. Acyclic(D)
  <2> SUFFICES ASSUME NEW m \in Nodes, NEW k \in Nat, <<m, m, k>> \in D, k # 0 PROVE FALSE
    BY DEF Acyclic
  <2>1. <<m, m, k>> \notin C
    BY DEF Mirrors, Acyclic
  <2>0. m = n /\ <<m, p, k - 1>> \in C
    BY <1>1, <2>1
  <2>2. m = n /\ <<n, p, k - 1>> \in C /\ k - 1 \in Nat
    BY <2>0
  <2>3. k - 1 = 0 => n = p
    BY <2>2 DEF Mirrors, Selves
  <2>4. ASSUME k - 1 # 0 PROVE FALSE
    <3>1. k - 2 \in Nat /\ (k - 2) + 1 = k - 1
      BY <2>2, <2>4
    <3>2. Tops(C, up)
      BY Top
    <3>3. \E b \in Nodes : <<b, p, k - 2>> \in C /\ up[b] = n
      BY <3>1, <3>2, <2>2 DEF Tops
    <3> QED
      BY <3>3, <1>4
  <2> QED
    BY <2>3, <2>4, <1>4
<1> QED
  BY <1>1, <1>2, <1>5, <1>6, <1>7, <1>8 DEF Mirrors, D, v

(* scope_move_node: the links from above n into its subtree are cut, those *)
(* from the new parent and what is above it into the subtree are joined.   *)
Cut(C, n) ==
    LET below == {r[2] : r \in {q \in C : q[1] = n}}
        above == {r[1] : r \in {q \in C : q[2] = n}} \ {n}
    IN  {r \in C : r[2] \in below /\ r[1] \in above}
Joined(C, n, p) ==
    {<<sup[1], sub[2], sup[3] + sub[3] + 1>> :
        sup \in {r \in C : r[2] = p}, sub \in {r \in C : r[1] = n}}
Moved(C, n, p) == (C \ Cut(C, n)) \cup Joined(C \ Cut(C, n), n, p)

Inside(C, n, m) == \E j \in Nat : <<n, m, j>> \in C

LEMMA CutRows ==
    ASSUME NEW C, C \subseteq Nodes \X Nodes \X Nat, NEW n \in Nodes,
           NEW a \in Nodes, NEW m \in Nodes, NEW k \in Nat
    PROVE  <<a, m, k>> \in Cut(C, n)
             <=> <<a, m, k>> \in C /\ Inside(C, n, m) /\ a # n /\ Inside(C, a, n)
<1> DEFINE below == {r[2] : r \in {q \in C : q[1] = n}}
           above == {r[1] : r \in {q \in C : q[2] = n}} \ {n}
<1>0. ASSUME NEW r \in C PROVE \E x \in Nodes, y \in Nodes, i \in Nat : r = <<x, y, i>>
  <2>1. r \in Nodes \X Nodes \X Nat
    OBVIOUS
  <2> QED
    BY <2>1
<1>1. m \in below <=> Inside(C, n, m)
  <2>1. ASSUME m \in below PROVE Inside(C, n, m)
    <3>1. PICK r \in C : r[1] = n /\ r[2] = m
      BY <2>1
    <3>2. PICK x \in Nodes, y \in Nodes, i \in Nat : r = <<x, y, i>>
      BY <1>0
    <3>3. r = <<n, m, i>>
      BY <3>1, <3>2
    <3> QED
      BY <3>3 DEF Inside
  <2>2. ASSUME NEW j \in Nat, <<n, m, j>> \in C PROVE m \in below
    <3> DEFINE r == <<n, m, j>>
    <3>1. r \in C /\ r[1] = n /\ r[2] = m
      BY <2>2
    <3> HIDE DEF r
    <3> QED
      BY <3>1
  <2> QED
    BY <2>1, <2>2 DEF Inside
<1>2. a \in above <=> a # n /\ Inside(C, a, n)
  <2>1. ASSUME a \in above PROVE a # n /\ Inside(C, a, n)
    <3>1. PICK r \in C : r[2] = n /\ r[1] = a
      BY <2>1
    <3>2. PICK x \in Nodes, y \in Nodes, i \in Nat : r = <<x, y, i>>
      BY <1>0
    <3>3. r = <<a, n, i>> /\ a # n
      BY <3>1, <3>2, <2>1
    <3> QED
      BY <3>3 DEF Inside
  <2>2. ASSUME NEW j \in Nat, <<a, n, j>> \in C, a # n PROVE a \in above
    <3> DEFINE r == <<a, n, j>>
    <3>1. r \in C /\ r[2] = n /\ r[1] = a
      BY <2>2
    <3> HIDE DEF r
    <3> QED
      BY <3>1, <2>2
  <2> QED
    BY <2>1, <2>2 DEF Inside
<1>3. Cut(C, n) = {r \in C : r[2] \in below /\ r[1] \in above}
  BY DEF Cut
<1> HIDE DEF below, above
<1>4. <<a, m, k>> \in Cut(C, n) <=> <<a, m, k>> \in C /\ m \in below /\ a \in above
  BY <1>3
<1> QED
  BY <1>1, <1>2, <1>4

Spliced(C, n, p, a, m, k) ==
    \E i \in Nat, j \in Nat : k = i + j + 1 /\ <<a, p, i>> \in C /\ <<n, m, j>> \in C

LEMMA JoinedRows ==
    ASSUME NEW C, C \subseteq Nodes \X Nodes \X Nat, NEW n \in Nodes, NEW p \in Nodes
    PROVE  /\ Joined(C, n, p) \subseteq Nodes \X Nodes \X Nat
           /\ \A a \in Nodes, m \in Nodes, k \in Nat :
                <<a, m, k>> \in Joined(C, n, p) <=> Spliced(C, n, p, a, m, k)
<1>0. ASSUME NEW r \in C PROVE \E x \in Nodes, y \in Nodes, i \in Nat : r = <<x, y, i>>
  <2>1. r \in Nodes \X Nodes \X Nat
    OBVIOUS
  <2> QED
    BY <2>1
<1>1. ASSUME NEW s \in Joined(C, n, p)
      PROVE  \E a \in Nodes, m \in Nodes, i \in Nat, j \in Nat :
               s = <<a, m, i + j + 1>> /\ <<a, p, i>> \in C /\ <<n, m, j>> \in C
  <2>1. PICK t \in C, u \in C : t[2] = p /\ u[1] = n /\ s = <<t[1], u[2], t[3] + u[3] + 1>>
    BY DEF Joined
  <2>2. PICK a \in Nodes, y \in Nodes, i \in Nat : t = <<a, y, i>>
    BY <1>0
  <2>3. PICK x \in Nodes, m \in Nodes, j \in Nat : u = <<x, m, j>>
    BY <1>0
  <2>4. t = <<a, p, i>> /\ u = <<n, m, j>> /\ s = <<a, m, i + j + 1>>
    BY <2>1, <2>2, <2>3
  <2> QED
    BY <2>4
<1>2. Joined(C, n, p) \subseteq Nodes \X Nodes \X Nat
  <2> SUFFICES ASSUME NEW s \in Joined(C, n, p) PROVE s \in Nodes \X Nodes \X Nat
    OBVIOUS
  <2>1. PICK a \in Nodes, m \in Nodes, i \in Nat, j \in Nat :
          s = <<a, m, i + j + 1>> /\ <<a, p, i>> \in C /\ <<n, m, j>> \in C
    BY <1>1
  <2> QED
    BY <2>1
<1>3. ASSUME NEW a \in Nodes, NEW m \in Nodes, NEW k \in Nat, <<a, m, k>> \in Joined(C, n, p)
      PROVE  Spliced(C, n, p, a, m, k)
  <2>1. PICK b \in Nodes, x \in Nodes, i \in Nat, j \in Nat :
          <<a, m, k>> = <<b, x, i + j + 1>> /\ <<b, p, i>> \in C /\ <<n, x, j>> \in C
    BY <1>1, <1>3
  <2>2. a = b /\ m = x /\ k = i + j + 1
    BY <2>1
  <2> QED
    BY <2>1, <2>2 DEF Spliced
<1>4. ASSUME NEW a \in Nodes, NEW m \in Nodes, NEW i \in Nat, NEW j \in Nat,
             <<a, p, i>> \in C, <<n, m, j>> \in C
      PROVE  <<a, m, i + j + 1>> \in Joined(C, n, p)
  <2> DEFINE t == <<a, p, i>>
             u == <<n, m, j>>
  <2>1. t \in {r \in C : r[2] = p} /\ u \in {r \in C : r[1] = n}
    BY <1>4
  <2>2. <<t[1], u[2], t[3] + u[3] + 1>> = <<a, m, i + j + 1>>
    OBVIOUS
  <2> HIDE DEF t, u
  <2> QED
    BY <2>1, <2>2 DEF Joined
<1>5. ASSUME NEW a \in Nodes, NEW m \in Nodes, NEW k \in Nat, Spliced(C, n, p, a, m, k)
      PROVE  <<a, m, k>> \in Joined(C, n, p)
  <2>1. PICK i \in Nat, j \in Nat : k = i + j + 1 /\ <<a, p, i>> \in C /\ <<n, m, j>> \in C
    BY <1>5 DEF Spliced
  <2> QED
    BY <2>1, <1>4
<1> QED
  BY <1>2, <1>3, <1>5

(* The rows of the table after the move: of a place outside the subtree    *)
(* what they were; of a place in it at distance j from n what they were up *)
(* to n, and above n what is above the new parent.                         *)
LEMMA MovedRows ==
    ASSUME NEW C, NEW up, Mirrors(C, up), NEW n \in Nodes, NEW p \in Nodes, ~Inside(C, n, p)
    PROVE  /\ Moved(C, n, p) \subseteq Nodes \X Nodes \X Nat
           /\ \A a \in Nodes, m \in Nodes, k \in Nat :
                ~Inside(C, n, m) => (<<a, m, k>> \in Moved(C, n, p) <=> <<a, m, k>> \in C)
           /\ \A a \in Nodes, m \in Nodes, k \in Nat, j \in Nat :
                <<n, m, j>> \in C =>
                  (<<a, m, k>> \in Moved(C, n, p)
                     <=> IF k <= j THEN <<a, m, k>> \in C ELSE <<a, p, k - j - 1>> \in C)
<1> DEFINE E == C \ Cut(C, n)
<1>0. C \subseteq Nodes \X Nodes \X Nat /\ E \subseteq Nodes \X Nodes \X Nat
  BY DEF Mirrors
<1>1. \A a \in Nodes, m \in Nodes, k \in Nat :
        <<a, m, k>> \in E
          <=> <<a, m, k>> \in C /\ ~(Inside(C, n, m) /\ a # n /\ Inside(C, a, n))
  BY <1>0, CutRows
<1>2. Moved(C, n, p) = E \cup Joined(E, n, p)
  BY DEF Moved
<1> HIDE DEF E
<1>3. /\ Joined(E, n, p) \subseteq Nodes \X Nodes \X Nat
      /\ \A a \in Nodes, m \in Nodes, k \in Nat :
           <<a, m, k>> \in Joined(E, n, p) <=> Spliced(E, n, p, a, m, k)
  BY <1>0, JoinedRows
<1>4. /\ \A a \in Nodes, i \in Nat : <<a, p, i>> \in E <=> <<a, p, i>> \in C
      /\ \A m \in Nodes, j \in Nat : <<n, m, j>> \in E <=> <<n, m, j>> \in C
  BY <1>1
<1>5. ASSUME NEW a \in Nodes, NEW m \in Nodes, NEW k \in Nat
      PROVE  Spliced(E, n, p, a, m, k) <=> Spliced(C, n, p, a, m, k)
  BY <1>4 DEF Spliced
<1>6. \A a \in Nodes, m \in Nodes, k \in Nat :
        <<a, m, k>> \in Moved(C, n, p)
          <=> \/ <<a, m, k>> \in C /\ ~(Inside(C, n, m) /\ a # n /\ Inside(C, a, n))
              \/ Spliced(C, n, p, a, m, k)
  BY <1>1, <1>2, <1>3, <1>5
<1>7. ASSUME NEW a \in Nodes, NEW m \in Nodes, NEW k \in Nat, ~Inside(C, n, m)
      PROVE  <<a, m, k>> \in Moved(C, n, p) <=> <<a, m, k>> \in C
  <2>1. ~Spliced(C, n, p, a, m, k)
    BY <1>7 DEF Spliced, Inside
  <2> QED
    BY <2>1, <1>6, <1>7
<1>8. ASSUME NEW a \in Nodes, NEW m \in Nodes, NEW k \in Nat, NEW j \in Nat, <<n, m, j>> \in C
      PROVE  <<a, m, k>> \in Moved(C, n, p)
               <=> IF k <= j THEN <<a, m, k>> \in C ELSE <<a, p, k - j - 1>> \in C
  <2>1. Inside(C, n, m)
    BY <1>8 DEF Inside
  <2>2. ASSUME NEW i \in Nat, <<n, m, i>> \in C PROVE i = j
    BY <1>8, <2>2, OneDistance
  <2>3. CASE k <= j
    <3>1. ~Spliced(C, n, p, a, m, k)
      <4>1. ASSUME NEW i \in Nat, NEW l \in Nat, k = i + l + 1, <<n, m, l>> \in C PROVE FALSE
        <5>1. l = j
          BY <4>1, <2>2
        <5> QED
          BY <5>1, <4>1, <2>3
      <4> QED
        BY <4>1 DEF Spliced
    <3>2. ASSUME <<a, m, k>> \in C, a # n, NEW i \in Nat, <<a, n, i>> \in C PROVE FALSE
      <4>1. j - k \in Nat /\ k + (j - k) = j
        BY <2>3
      <4>2. <<n, m, k + (j - k)>> \in C
        BY <4>1, <1>8
      <4>3. <<n, a, j - k>> \in C
        BY <4>1, <4>2, <3>2, Drop
      <4>4. <<n, n, (j - k) + i>> \in C /\ (j - k) + i \in Nat
        BY <4>1, <4>3, <3>2, Compose
      <4>5. (j - k) + i = 0
        BY <4>4 DEF Mirrors, Acyclic
      <4>6. i = 0
        BY <4>1, <4>5
      <4> QED
        BY <4>6, <3>2 DEF Mirrors, Selves
    <3> QED
      BY <3>1, <3>2, <2>1, <2>3, <1>6 DEF Inside
  <2>4. CASE k > j
    <3>1. k - j \in Nat /\ k - j # 0 /\ j + (k - j) = k /\ k - j - 1 \in Nat
      BY <2>4
    <3>2. Spliced(C, n, p, a, m, k) <=> <<a, p, k - j - 1>> \in C
      <4>1. ASSUME NEW i \in Nat, NEW l \in Nat, k = i + l + 1, <<n, m, l>> \in C
            PROVE  i = k - j - 1
        BY <4>1, <2>2
      <4>2. k = (k - j - 1) + j + 1
        BY <3>1
      <4> QED
        BY <4>1, <4>2, <3>1, <1>8 DEF Spliced
    <3>3. ASSUME <<a, m, k>> \in C PROVE a # n /\ Inside(C, a, n)
      <4>1. <<a, m, j + (k - j)>> \in C
        BY <3>1, <3>3
      <4>2. <<a, n, k - j>> \in C
        BY <4>1, <3>1, <1>8, Drop
      <4>3. a # n
        BY <4>2, <3>1 DEF Mirrors, Acyclic
      <4> QED
        BY <4>2, <4>3, <3>1 DEF Inside
    <3> QED
      BY <3>2, <3>3, <2>1, <2>4, <1>6
  <2> QED
    BY <2>3, <2>4
<1>9. Moved(C, n, p) \subseteq Nodes \X Nodes \X Nat
  BY <1>0, <1>2, <1>3
<1> QED
  BY <1>7, <1>8, <1>9

LEMMA MoveKeeps ==
    ASSUME NEW C, NEW up, Mirrors(C, up), NEW n \in Nodes, NEW p \in Nodes,
           up[n] # Absent, up[p] # Absent, ~Inside(C, n, p)
    PROVE  Mirrors(Moved(C, n, p), [up EXCEPT ![n] = p])
<1> DEFINE D == Moved(C, n, p)
           v == [up EXCEPT ![n] = p]
<1>0. up \in Maps /\ Rooted(up)
  BY DEF Mirrors
<1>1. D \subseteq Nodes \X Nodes \X Nat
  BY MovedRows
<1>2. \A a \in Nodes, m \in Nodes, k \in Nat :
        ~Inside(C, n, m) => (<<a, m, k>> \in D <=> <<a, m, k>> \in C)
  BY MovedRows
<1>3. ASSUME NEW a \in Nodes, NEW m \in Nodes, NEW k \in Nat, NEW j \in Nat, <<n, m, j>> \in C
      PROVE  <<a, m, k>> \in D <=> IF k <= j THEN <<a, m, k>> \in C ELSE <<a, p, k - j - 1>> \in C
  BY <1>3, MovedRows
<1>4. v \in Maps /\ v[n] = p /\ \A m \in Nodes : m # n => v[m] = up[m]
  BY <1>0 DEF Maps
<1> HIDE DEF D, v
<1>5. Rooted(v)
  BY <1>0, <1>4, TreeAssumption DEF Rooted
<1>6. Selves(D, v)
  <2> SUFFICES ASSUME NEW a \in Nodes, NEW m \in Nodes
               PROVE  <<a, m, 0>> \in D <=> a = m /\ v[m] # Absent
    BY DEF Selves
  <2>1. <<a, m, 0>> \in C <=> a = m /\ up[m] # Absent
    BY DEF Mirrors, Selves
  <2>2. v[m] # Absent <=> up[m] # Absent
    BY <1>4, TreeAssumption
  <2>3. ASSUME NEW j \in Nat, <<n, m, j>> \in C PROVE <<a, m, 0>> \in D <=> <<a, m, 0>> \in C
    <3>1. <<a, m, 0>> \in D <=> IF 0 <= j THEN <<a, m, 0>> \in C ELSE <<a, p, 0 - j - 1>> \in C
      BY <1>3, <2>3
    <3>2. 0 <= j
      OBVIOUS
    <3> QED
      BY <3>1, <3>2
  <2>4. <<a, m, 0>> \in D <=> <<a, m, 0>> \in C
    BY <1>2, <2>3 DEF Inside
  <2> QED
    BY <2>1, <2>2, <2>4
<1>7. \A a \in Nodes, m \in Nodes, k \in Nat :
        <<a, m, k + 1>> \in C <=> up[m] \in Nodes /\ <<a, up[m], k>> \in C
  BY DEF Mirrors, Above
<1>8. Above(D, v)
  <2> SUFFICES ASSUME NEW a \in Nodes, NEW m \in Nodes, NEW k \in Nat
               PROVE  <<a, m, k + 1>> \in D <=> v[m] \in Nodes /\ <<a, v[m], k>> \in D
    BY DEF Above
  <2>1. CASE m = n
    <3>1. <<n, n, 0>> \in C
      BY DEF Mirrors, Selves
    <3>2. <<a, n, k + 1>> \in D <=> <<a, p, (k + 1) - 0 - 1>> \in C
      BY <3>1, <1>3
    <3>3. (k + 1) - 0 - 1 = k
      OBVIOUS
    <3>4. <<a, p, k>> \in D <=> <<a, p, k>> \in C
      BY <1>2
    <3> QED
      BY <2>1, <3>2, <3>3, <3>4, <1>4
  <2>2. CASE m # n /\ ~Inside(C, n, m)
    <3>1. <<a, m, k + 1>> \in D <=> <<a, m, k + 1>> \in C
      BY <1>2, <2>2
    <3>2. ASSUME up[m] \in Nodes PROVE ~Inside(C, n, up[m])
      <4> SUFFICES ASSUME NEW j \in Nat, <<n, up[m], j>> \in C PROVE FALSE
        BY DEF Inside
      <4>1. <<n, m, j + 1>> \in C /\ j + 1 \in Nat
        BY <1>7, <3>2
      <4> QED
        BY <4>1, <2>2 DEF Inside
    <3>3. up[m] \in Nodes => (<<a, up[m], k>> \in D <=> <<a, up[m], k>> \in C)
      BY <3>2, <1>2
    <3> QED
      BY <3>1, <3>3, <2>2, <1>4, <1>7
  <2>3. ASSUME m # n, NEW j \in Nat, <<n, m, j>> \in C
        PROVE  <<a, m, k + 1>> \in D <=> v[m] \in Nodes /\ <<a, v[m], k>> \in D
    <3>1. j # 0
      BY <2>3 DEF Mirrors, Selves
    <3>2. j - 1 \in Nat /\ (j - 1) + 1 = j
      BY <3>1
    <3>3. up[m] \in Nodes /\ <<n, up[m], j - 1>> \in C
      BY <3>2, <2>3, <1>7
    <3>4. <<a, m, k + 1>> \in D
            <=> IF k + 1 <= j THEN <<a, m, k + 1>> \in C ELSE <<a, p, (k + 1) - j - 1>> \in C
      BY <2>3, <1>3
    <3>5. <<a, up[m], k>> \in D
            <=> IF k <= j - 1 THEN <<a, up[m], k>> \in C ELSE <<a, p, k - (j - 1) - 1>> \in C
      BY <3>2, <3>3, <1>3
    <3>6. k - (j - 1) - 1 = (k + 1) - j - 1 /\ (k + 1 <= j <=> k <= j - 1)
      OBVIOUS
    <3>7. <<a, m, k + 1>> \in C <=> <<a, up[m], k>> \in C
      BY <3>3, <1>7
    <3> QED
      BY <3>3, <3>4, <3>5, <3>6, <3>7, <2>3, <1>4
  <2> QED
    BY <2>1, <2>2, <2>3 DEF Inside
<1>9. Acyclic(D)
  <2> SUFFICES ASSUME NEW m \in Nodes, NEW k \in Nat, <<m, m, k>> \in D, k # 0 PROVE FALSE
    BY DEF Acyclic
  <2>1. <<m, m, k>> \notin C
    BY DEF Mirrors, Acyclic
  <2>2. PICK j \in Nat : <<n, m, j>> \in C
    BY <2>1, <1>2 DEF Inside
  <2>3. ~(k <= j) /\ <<m, p, k - j - 1>> \in C
    BY <2>1, <2>2, <1>3
  <2>4. k - j - 1 \in Nat
    BY <2>3
  <2>5. <<n, p, j + (k - j - 1)>> \in C /\ j + (k - j - 1) \in Nat
    BY <2>2, <2>3, <2>4, Compose
  <2> QED
    BY <2>5 DEF Inside
<1> QED
  BY <1>1, <1>4, <1>5, <1>6, <1>8, <1>9 DEF Mirrors, D, v

-----------------------------------------------------------------------------
(* The two readers of the tree.                                            *)

(* The rows of a place are where the gate's walk up from it leads.         *)
LEMMA RowsAreTheWalk ==
    ASSUME NEW C, NEW up, Mirrors(C, up), NEW n \in Nodes
    PROVE  \A k \in Nat : \A a \in Nodes : <<a, n, k + 1>> \in C <=> Walk(up, n)[k] = a
<1> DEFINE f == Walk(up, n)
           S == {k \in Nat : \A a \in Nodes : <<a, n, k + 1>> \in C <=> f[k] = a}
<1>0. IsWalk(up, n, f)
  BY WalkExists
<1> HIDE DEF f
<1>1. /\ f[0] = Linked(up, n)
      /\ \A k \in Nat : f[k + 1] = IF f[k] = None THEN None ELSE Linked(up, f[k])
      /\ \A k \in Nat : f[k] \in Nodes \cup {None}
  <2>1. Placed(up) \subseteq Nodes
    BY DEF Placed
  <2> QED
    BY <1>0, <2>1, WalkFacts
<1>2. \A m \in Nodes : Linked(up, m) = IF up[m] \in Nodes THEN up[m] ELSE None
  BY DEF Linked, Known, Mirrors, Rooted
<1>3. 0 \in S
  <2> SUFFICES ASSUME NEW a \in Nodes PROVE <<a, n, 0 + 1>> \in C <=> f[0] = a
    OBVIOUS
  <2>1. <<a, n, 0 + 1>> \in C <=> up[n] \in Nodes /\ <<a, up[n], 0>> \in C
    BY DEF Mirrors, Above
  <2>2. up[n] \in Nodes => (<<a, up[n], 0>> \in C <=> a = up[n])
    BY TreeAssumption DEF Mirrors, Selves, Rooted
  <2> QED
    BY <2>1, <2>2, <1>1, <1>2, TreeAssumption
<1>4. ASSUME NEW k \in Nat, k \in S PROVE k + 1 \in S
  <2> SUFFICES ASSUME NEW a \in Nodes PROVE <<a, n, (k + 1) + 1>> \in C <=> f[k + 1] = a
    OBVIOUS
  <2>1. Tops(C, up)
    BY Top
  <2>2. <<a, n, (k + 1) + 1>> \in C <=> \E b \in Nodes : <<b, n, k + 1>> \in C /\ up[b] = a
    <3>1. PICK l \in Nat : l = k + 1
      OBVIOUS
    <3>2. <<a, n, l + 1>> \in C <=> \E b \in Nodes : <<b, n, l>> \in C /\ up[b] = a
      BY <2>1 DEF Tops
    <3> QED
      BY <3>1, <3>2
  <2>3. \A b \in Nodes : <<b, n, k + 1>> \in C <=> f[k] = b
    BY <1>4
  <2>4. CASE f[k] = None
    BY <2>2, <2>3, <2>4, <1>1, TreeAssumption
  <2>5. CASE f[k] # None
    <3>1. f[k] \in Nodes /\ f[k + 1] = Linked(up, f[k])
      BY <2>5, <1>1
    <3>2. f[k + 1] = IF up[f[k]] \in Nodes THEN up[f[k]] ELSE None
      BY <3>1, <1>2
    <3>3. <<a, n, (k + 1) + 1>> \in C <=> up[f[k]] = a
      BY <2>2, <2>3, <3>1
    <3> QED
      BY <3>2, <3>3, TreeAssumption
  <2> QED
    BY <2>4, <2>5
<1> HIDE DEF S
<1>5. Nat \subseteq S
  BY <1>3, <1>4, Induct
<1> QED
  BY <1>5 DEF S, f

(* What the closure says of a constraint and a place is what the walk says.*)
LEMMA CoversIsBearing ==
    ASSUME NEW C, NEW up, Mirrors(C, up), NEW t \in Nodes,
           NEW k, k.node \in Nodes
    PROVE  Covers(C, k, t)
             <=> Known(up, t) /\ (k.node = t \/ (k.inherit /\ k.node \in Ascent(up, t)))
<1>0. \A i \in Nat : \A a \in Nodes : <<a, t, i + 1>> \in C <=> Walk(up, t)[i] = a
  BY RowsAreTheWalk
<1>1. \A a \in Nodes : a \in Ascent(up, t) <=> \E i \in Nat : <<a, t, i + 1>> \in C
  <2> SUFFICES ASSUME NEW a \in Nodes
               PROVE  a \in Ascent(up, t) <=> \E i \in Nat : <<a, t, i + 1>> \in C
    OBVIOUS
  <2>1. a \in Ascent(up, t) <=> a # None /\ \E i \in Nat : Walk(up, t)[i] = a
    BY AscentIsComplete
  <2> QED
    BY <2>1, <1>0, TreeAssumption
<1>2. \A a \in Nodes : <<a, t, 0>> \in C <=> a = t /\ Known(up, t)
  BY DEF Mirrors, Selves, Known
<1>3. ASSUME NEW a \in Nodes, NEW i \in Nat, <<a, t, i>> \in C PROVE Known(up, t)
  BY <1>3, AbsentHasNoRows DEF Known
<1>4. ASSUME Covers(C, k, t)
      PROVE  Known(up, t) /\ (k.node = t \/ (k.inherit /\ k.node \in Ascent(up, t)))
  <2>1. PICK r \in C : r[1] = k.node /\ r[2] = t /\ (k.inherit \/ r[3] = 0)
    BY <1>4 DEF Covers
  <2>2. r \in Nodes \X Nodes \X Nat
    BY DEF Mirrors
  <2>3. PICK i \in Nat : i = r[3] /\ <<k.node, t, i>> \in C
    BY <2>1, <2>2
  <2>4. Known(up, t)
    BY <2>3, <1>3
  <2>5. CASE i = 0
    BY <2>3, <2>4, <2>5, <1>2
  <2>6. CASE i # 0
    <3>1. i - 1 \in Nat /\ (i - 1) + 1 = i
      BY <2>6
    <3>2. <<k.node, t, (i - 1) + 1>> \in C
      BY <3>1, <2>3
    <3> QED
      BY <3>1, <3>2, <2>1, <2>3, <2>4, <2>6, <1>1
  <2> QED
    BY <2>5, <2>6
<1>5. ASSUME NEW i \in Nat, <<k.node, t, i>> \in C, k.inherit \/ i = 0 PROVE Covers(C, k, t)
  <2> DEFINE r == <<k.node, t, i>>
  <2>1. r \in C /\ r[1] = k.node /\ r[2] = t /\ r[3] = i
    BY <1>5
  <2> HIDE DEF r
  <2> QED
    BY <2>1, <1>5 DEF Covers
<1>6. ASSUME Known(up, t), k.node = t PROVE Covers(C, k, t)
  <2>1. <<k.node, t, 0>> \in C
    BY <1>2, <1>6
  <2> QED
    BY <2>1, <1>5
<1>7. ASSUME k.inherit, k.node \in Ascent(up, t) PROVE Covers(C, k, t)
  <2>1. PICK i \in Nat : <<k.node, t, i + 1>> \in C
    BY <1>1, <1>7
  <2>2. i + 1 \in Nat
    OBVIOUS
  <2> QED
    BY <2>1, <2>2, <1>5, <1>7
<1> QED
  BY <1>4, <1>6, <1>7, Zenon

Scoped(c) == \A g \in c.grants : \A x \in DOMAIN g.scopes : g.scopes[x] \subseteq Constraints

(* The minimum over an axis's constraints in authorize() is CoveredBy.     *)
LEMMA AxisAgrees ==
    ASSUME NEW C, NEW up, Mirrors(C, up), NEW cs, cs \subseteq Constraints, NEW targets, NEW x,
           x \in DOMAIN targets => targets[x] \in Nodes
    PROVE  AxisEval(C, cs, targets, x)
             <=> x \in DOMAIN targets /\ CoveredBy(up, targets[x], cs)
<1> DEFINE hit(k) == x \in DOMAIN targets /\ Covers(C, k, targets[x])
           rank(k) == IF ~hit(k) THEN 2 ELSE IF k.exclude THEN 0 ELSE 1
<1>1. AxisEval(C, cs, targets, x) <=> 1 \in {rank(k) : k \in cs} /\ 0 \notin {rank(k) : k \in cs}
  BY DEF AxisEval
<1> HIDE DEF hit
<1>2. AxisEval(C, cs, targets, x)
        <=> /\ \E k \in cs : hit(k) /\ ~k.exclude
            /\ \A k \in cs : ~(hit(k) /\ k.exclude)
  BY <1>1
<1>3. CASE x \notin DOMAIN targets
  BY <1>2, <1>3 DEF hit
<1>4. CASE x \in DOMAIN targets
  <2> DEFINE t == targets[x]
  <2>1. t \in Nodes
    BY <1>4
  <2>2. ASSUME NEW k \in cs
        PROVE  hit(k) <=> Known(up, t) /\ k \in Bearing(up, t, cs)
    <3>1. k.node \in Nodes
      BY DEF Constraints
    <3>2. Covers(C, k, t)
            <=> Known(up, t) /\ (k.node = t \/ (k.inherit /\ k.node \in Ascent(up, t)))
      BY <3>1, <2>1, CoversIsBearing
    <3>3. hit(k) <=> Covers(C, k, t)
      BY <1>4 DEF hit
    <3> QED
      BY <3>2, <3>3 DEF Bearing
  <2>3. CoveredBy(up, t, cs)
          <=> /\ Known(up, t)
              /\ Bearing(up, t, cs) # {}
              /\ \A k \in Bearing(up, t, cs) : ~k.exclude
    BY CoverageIsPlain
  <2>4. Bearing(up, t, cs) \subseteq cs
    BY DEF Bearing
  <2>5. (\E k \in cs : hit(k) /\ ~k.exclude) /\ (\A k \in cs : ~(hit(k) /\ k.exclude))
          <=> CoveredBy(up, t, cs)
    <3> HIDE DEF t
    <3> QED
      BY <2>2, <2>3, <2>4
  <2> QED
    BY <1>2, <1>4, <2>5
<1> QED
  BY <1>3, <1>4

(* Evaluate over the gate's tree and authorize() over the closure decide   *)
(* alike, for every forest and the table that mirrors it, every catalog    *)
(* the database holds and every request.                                   *)
THEOREM DecisionsAgree ==
    ASSUME NEW C, NEW up, Mirrors(C, up), NEW c, Scoped(c), NEW req,
           \A x \in DOMAIN req.targets : req.targets[x] \in Nodes, NEW now
    PROVE  Evaluate(up, c, req, now) <=> SqlAuthorize(C, c, req, now)
<1>1. ASSUME NEW g \in c.grants
      PROVE  AxesSatisfied(up, g, req.targets, {})
               <=> \A x \in DOMAIN g.scopes : AxisEval(C, g.scopes[x], req.targets, x)
  <2>1. ASSUME NEW x \in DOMAIN g.scopes
        PROVE  AxisEval(C, g.scopes[x], req.targets, x)
                 <=> x \in DOMAIN req.targets /\ CoveredBy(up, req.targets[x], g.scopes[x])
    <3>1. g.scopes[x] \subseteq Constraints
      BY DEF Scoped
    <3> QED
      BY <3>1, AxisAgrees
  <2> QED
    BY <2>1 DEF AxesSatisfied
<1>2. ASSUME NEW g \in c.grants
      PROVE  StrictAxesAddressed(c, g) <=> \A x \in c.strict : x \in DOMAIN g.scopes
  BY DEF StrictAxesAddressed
<1> DEFINE gates == c.status = "active" /\ c.known /\ c.min <= c.level
           able(g) == /\ Live(g, now) /\ g.confers /\ (g.self => req.owner = "self")
                      /\ AxesSatisfied(up, g, req.targets, {}) /\ StrictAxesAddressed(c, g)
           share == req.record /\ c.share > now
<1>3. Evaluate(up, c, req, now) <=> gates /\ ((\E g \in c.grants : able(g)) \/ share)
  BY Zenon DEF Evaluate, SharedRecordAllows
<1>4. ASSUME NEW g \in c.grants
      PROVE  able(g)
               <=> /\ g.confers
                   /\ g.from <= now /\ (g.until = 0 \/ g.until > now)
                   /\ ~g.self \/ req.owner = "self"
                   /\ \A x \in DOMAIN g.scopes : AxisEval(C, g.scopes[x], req.targets, x)
                   /\ \A x \in c.strict : x \in DOMAIN g.scopes
  BY <1>1, <1>2, Zenon DEF Live
<1>5. SqlAuthorize(C, c, req, now)
        <=> \/ \E g \in c.grants :
                 /\ gates /\ g.confers
                 /\ g.from <= now /\ (g.until = 0 \/ g.until > now)
                 /\ ~g.self \/ req.owner = "self"
                 /\ \A x \in DOMAIN g.scopes : AxisEval(C, g.scopes[x], req.targets, x)
                 /\ \A x \in c.strict : x \in DOMAIN g.scopes
            \/ gates /\ share
  BY Zenon DEF SqlAuthorize
<1> HIDE DEF gates, able, share
<1> QED
  BY <1>3, <1>4, <1>5, Zenon

(* The places GrantedNodes lists for a set of constraints contain what     *)
(* CoveredBy covers.                                                       *)
LEMMA PlacesAgree ==
    ASSUME NEW C, NEW up, Mirrors(C, up), NEW cs, cs \subseteq Constraints, NEW n \in Nodes,
           Known(up, n)
    PROVE  CoveredBy(up, n, cs) <=> \E k \in ConstraintsToNodes(cs) : Within(C, n, k)
<1> DEFINE excl == {e \in cs : e.exclude}
           place(d) == [node |-> d.node, inherit |-> d.inherit, except |-> excl]
<1>1. ASSUME NEW k \in cs PROVE Covers(C, k, n) <=> k \in Bearing(up, n, cs)
  <2>1. k.node \in Nodes
    BY DEF Constraints
  <2>2. Covers(C, k, n)
          <=> Known(up, n) /\ (k.node = n \/ (k.inherit /\ k.node \in Ascent(up, n)))
    BY <2>1, CoversIsBearing
  <2> QED
    BY <2>2 DEF Bearing
<1>2. CoveredBy(up, n, cs)
        <=> /\ Bearing(up, n, cs) # {}
            /\ \A k \in Bearing(up, n, cs) : ~k.exclude
  BY CoverageIsPlain
<1>3. Bearing(up, n, cs) \subseteq cs
  BY DEF Bearing
<1>4. CoveredBy(up, n, cs)
        <=> /\ \E k \in cs : Covers(C, k, n) /\ ~k.exclude
            /\ ~ \E e \in excl : Covers(C, e, n)
  BY <1>1, <1>2, <1>3
<1>5. ASSUME NEW d \in cs
      PROVE  Within(C, n, place(d)) <=> Covers(C, d, n) /\ ~ \E e \in excl : Covers(C, e, n)
  <2>1. place(d).node = d.node /\ place(d).inherit = d.inherit /\ place(d).except = excl
    OBVIOUS
  <2> HIDE DEF place, excl
  <2>2. Covers(C, place(d), n) <=> Covers(C, d, n)
    BY <2>1 DEF Covers
  <2> QED
    BY <2>1, <2>2 DEF Within
<1>6. ConstraintsToNodes(cs) = {place(d) : d \in {e \in cs : ~e.exclude}}
  BY Zenon DEF ConstraintsToNodes
<1> HIDE DEF place, excl
<1> QED
  BY <1>4, <1>5, <1>6

(* A list, of the axis x with the other targets fixed, and the question    *)
(* about one place of the axis.                                            *)
LEMMA AxesSplit ==
    ASSUME NEW up, NEW g, NEW x, NEW n, NEW fixed, x \notin DOMAIN fixed
    PROVE  AxesSatisfied(up, g, Over(At(x, n), fixed), {})
             <=> /\ AxesSatisfied(up, g, fixed, {x})
                 /\ x \in DOMAIN g.scopes => CoveredBy(up, n, g.scopes[x])
<1> DEFINE T == Over(At(x, n), fixed)
<1>1. /\ DOMAIN T = {x} \cup DOMAIN fixed /\ T[x] = n
      /\ \A y \in DOMAIN fixed : y # x => T[y] = fixed[y]
  BY DEF Over, At
<1> HIDE DEF T
<1>2. AxesSatisfied(up, g, T, {})
        <=> /\ AxesSatisfied(up, g, fixed, {x})
            /\ x \in DOMAIN g.scopes => CoveredBy(up, n, g.scopes[x])
  BY <1>1 DEF AxesSatisfied
<1> QED
  BY <1>2 DEF T

(* GrantedNodes lists the places where Evaluate allows, for every forest   *)
(* and the table that mirrors it, and says OwnRecords only of an identity  *)
(* whose own records pass everywhere.                                      *)
THEOREM ListsAgree ==
    ASSUME NEW C, NEW up, Mirrors(C, up), NEW c, Scoped(c), c.known,
           \A g \in c.grants : g.self => DOMAIN g.scopes = {},
           NEW now, NEW x, NEW fixed, x \notin DOMAIN fixed, NEW n \in Nodes, Known(up, n)
    PROVE  /\ Evaluate(up, c, Ask(Over(At(x, n), fixed), "none"), now)
                <=> \/ GrantedNodes(up, c, x, fixed, now).everywhere
                    \/ \E k \in GrantedNodes(up, c, x, fixed, now).nodes : Within(C, n, k)
           /\ GrantedNodes(up, c, x, fixed, now).own
                => Evaluate(up, c, Ask(Over(At(x, n), fixed), "self"), now)
<1> DEFINE T == Over(At(x, n), fixed)
           pass == c.status = "active" /\ c.min <= c.level
           able == {g \in c.grants : pass /\ GrantQualifies(c, g, now)}
           placed == {g \in able : ~g.self /\ AxesSatisfied(up, g, fixed, {x})}
           every == \E g \in placed : x \notin DOMAIN g.scopes
           list == GrantedNodes(up, c, x, fixed, now)
           there(g) == AxesSatisfied(up, g, T, {})
<1>1. /\ list.own = (\E g \in able : g.self)
      /\ list.everywhere = every
      /\ list.nodes = IF every THEN {}
                      ELSE UNION {ConstraintsToNodes(g.scopes[x]) : g \in placed}
  BY DEF GrantedNodes
<1>2. ASSUME NEW owner
      PROVE  Evaluate(up, c, Ask(T, owner), now)
               <=> \E g \in able : (g.self => owner = "self") /\ there(g)
  <2> DEFINE req == Ask(T, owner)
  <2>1. req.targets = T /\ req.owner = owner /\ req.record = FALSE
    BY DEF Ask
  <2> HIDE DEF req, T
  <2>2. Evaluate(up, c, req, now)
          <=> /\ pass /\ c.known
              /\ \/ \E g \in c.grants :
                      /\ Live(g, now) /\ g.confers
                      /\ g.self => req.owner = "self"
                      /\ AxesSatisfied(up, g, req.targets, {})
                      /\ StrictAxesAddressed(c, g)
                 \/ req.record /\ SharedRecordAllows(c, now)
    BY Zenon DEF Evaluate
  <2>3. ASSUME NEW g
        PROVE  g \in able <=> g \in c.grants /\ pass /\ Live(g, now) /\ g.confers /\ StrictAxesAddressed(c, g)
    BY DEF GrantQualifies
  <2> HIDE DEF able, pass
  <2>4. (\E g \in able : (g.self => owner = "self") /\ AxesSatisfied(up, g, T, {}))
          <=> /\ pass
              /\ \E g \in c.grants :
                   /\ Live(g, now) /\ g.confers
                   /\ g.self => owner = "self"
                   /\ AxesSatisfied(up, g, T, {})
                   /\ StrictAxesAddressed(c, g)
    BY <2>3, Zenon
  <2>5. Evaluate(up, c, req, now)
          <=> /\ pass
              /\ \E g \in c.grants :
                   /\ Live(g, now) /\ g.confers
                   /\ g.self => owner = "self"
                   /\ AxesSatisfied(up, g, T, {})
                   /\ StrictAxesAddressed(c, g)
    BY <2>1, <2>2
  <2> QED
    BY <2>4, <2>5, Zenon DEF req
<1>3. ASSUME NEW g \in able
      PROVE  there(g) <=> /\ AxesSatisfied(up, g, fixed, {x})
                          /\ x \in DOMAIN g.scopes => CoveredBy(up, n, g.scopes[x])
  BY AxesSplit
<1>4. ASSUME NEW g \in able, x \in DOMAIN g.scopes
      PROVE  CoveredBy(up, n, g.scopes[x])
               <=> \E k \in ConstraintsToNodes(g.scopes[x]) : Within(C, n, k)
  <2>1. g.scopes[x] \subseteq Constraints
    BY <1>4 DEF Scoped
  <2> QED
    BY <2>1, PlacesAgree
<1>5. Evaluate(up, c, Ask(T, "none"), now)
        <=> \E g \in placed : x \in DOMAIN g.scopes
              => \E k \in ConstraintsToNodes(g.scopes[x]) : Within(C, n, k)
  <2>1. Evaluate(up, c, Ask(T, "none"), now) <=> \E g \in able : ~g.self /\ there(g)
    BY <1>2
  <2> HIDE DEF able, there
  <2> QED
    BY <2>1, <1>3, <1>4, Zenon
<1>6. (\E g \in placed : x \in DOMAIN g.scopes
              => \E k \in ConstraintsToNodes(g.scopes[x]) : Within(C, n, k))
        <=> list.everywhere \/ \E k \in list.nodes : Within(C, n, k)
  <2> HIDE DEF placed, list
  <2>1. CASE every
    BY <2>1, <1>1
  <2>2. CASE ~every
    <3>1. \A g \in placed : x \in DOMAIN g.scopes
      BY <2>2
    <3>2. list.nodes = UNION {ConstraintsToNodes(g.scopes[x]) : g \in placed} /\ ~list.everywhere
      BY <2>2, <1>1
    <3> QED
      BY <3>1, <3>2
  <2> QED
    BY <2>1, <2>2
<1>7. list.own => Evaluate(up, c, Ask(T, "self"), now)
  <2> SUFFICES ASSUME NEW g \in able, g.self PROVE Evaluate(up, c, Ask(T, "self"), now)
    BY <1>1
  <2>1. DOMAIN g.scopes = {}
    OBVIOUS
  <2>2. there(g)
    BY <2>1 DEF AxesSatisfied
  <2> HIDE DEF able, there
  <2> QED
    BY <2>2, <1>2
<1> QED
  BY <1>5, <1>6, <1>7

(* Who is allowed at a place, without a share, can be pinned to it.        *)
LEMMA AllowedReaches ==
    ASSUME NEW up, NEW c, NEW now, NEW f, Evaluate(up, c, Ask(f, "none"), now),
           NEW x \in DOMAIN f, Known(up, f[x])
    PROVE  Reaches(up, c, x, f[x], now)
<1> DEFINE req == Ask(f, "none")
<1>1. req.targets = f /\ req.owner = "none" /\ req.record = FALSE
  BY DEF Ask
<1> HIDE DEF req
<1>2. /\ c.status = "active"
      /\ \/ \E g \in c.grants :
              /\ Live(g, now) /\ (g.self => req.owner = "self")
              /\ AxesSatisfied(up, g, req.targets, {}) /\ StrictAxesAddressed(c, g)
         \/ req.record
  BY Zenon DEF Evaluate, req
<1>3. PICK g \in c.grants :
        /\ Live(g, now) /\ (g.self => req.owner = "self")
        /\ AxesSatisfied(up, g, req.targets, {}) /\ StrictAxesAddressed(c, g)
  BY <1>1, <1>2
<1>4. Live(g, now) /\ ~g.self /\ StrictAxesAddressed(c, g)
  BY <1>1, <1>3
<1>5. x \in DOMAIN g.scopes => CoveredBy(up, f[x], g.scopes[x])
  BY <1>1, <1>3 DEF AxesSatisfied
<1> QED
  BY <1>2, <1>4, <1>5 DEF Reaches

(* Where the closure mirrors the tree the engines agree, and the lists and *)
(* the reach test with them.                                               *)
LEMMA MirrorsAgree ==
    ASSUME Mirrors(closure, parent)
    PROVE  EnginesAgree /\ AnswersAgree
<1>1. ASSUME NEW c \in Catalogs
      PROVE  Scoped(c) /\ \A g \in c.grants : g.self => DOMAIN g.scopes = {}
  BY CatalogsAssumption DEF Scoped
<1>2. ASSUME NEW xs, NEW f \in TargetsOf(xs)
      PROVE  DOMAIN f = xs /\ \A x \in xs : f[x] \in Nodes
  BY DEF TargetsOf
<1>3. EnginesAgree
  <2> SUFFICES ASSUME NEW c \in Catalogs, NEW req \in Requests, NEW now \in 0 .. MaxTime
               PROVE  Evaluate(parent, c, req, now) <=> SqlAuthorize(closure, c, req, now)
    BY DEF EnginesAgree, Evaluate, SqlAuthorize
  <2>1. PICK xs \in SUBSET Axes : req.targets \in TargetsOf(xs)
    BY DEF Requests
  <2>2. \A x \in DOMAIN req.targets : req.targets[x] \in Nodes
    BY <2>1, <1>2
  <2> QED
    BY <2>2, <1>1, DecisionsAgree
<1>4. ListSaysWhereAllowed
  <2> SUFFICES ASSUME NEW c \in Catalogs, c.known, NEW now \in 0 .. MaxTime, NEW x \in Axes,
                      NEW fixed \in UNION {TargetsOf(xs) : xs \in SUBSET (Axes \ {x})},
                      NEW n \in Nodes, Known(parent, n)
               PROVE  LET list == GrantedNodes(parent, c, x, fixed, now)
                          allowed(m, owner) == Evaluate(parent, c, Ask(Over(At(x, m), fixed), owner), now)
                      IN  /\ allowed(n, "none")
                               = (list.everywhere \/ \E k \in list.nodes : Within(closure, n, k))
                          /\ list.own => allowed(n, "self")
    BY DEF ListSaysWhereAllowed, OnAxis
  <2>1. x \notin DOMAIN fixed
    <3>1. PICK xs \in SUBSET (Axes \ {x}) : fixed \in TargetsOf(xs)
      OBVIOUS
    <3> QED
      BY <3>1, <1>2
  <2>2. /\ Evaluate(parent, c, Ask(Over(At(x, n), fixed), "none"), now)
             <=> \/ GrantedNodes(parent, c, x, fixed, now).everywhere
                 \/ \E k \in GrantedNodes(parent, c, x, fixed, now).nodes : Within(closure, n, k)
        /\ GrantedNodes(parent, c, x, fixed, now).own
             => Evaluate(parent, c, Ask(Over(At(x, n), fixed), "self"), now)
    BY <2>1, <1>1, ListsAgree
  <2>3. Evaluate(parent, c, Ask(Over(At(x, n), fixed), "none"), now) \in BOOLEAN
    BY DEF Evaluate
  <2> QED
    BY <2>2, <2>3
<1>5. ASSUME NEW c \in Catalogs, NEW now \in 0 .. MaxTime, NEW xs \in SUBSET Axes,
             NEW f \in TargetsOf(xs), Evaluate(parent, c, Ask(f, "none"), now),
             NEW x \in xs, Known(parent, f[x])
      PROVE  Reaches(parent, c, x, f[x], now)
  BY <1>5, <1>2, AllowedReaches
<1> QED
  BY <1>3, <1>4, <1>5 DEF AnswersAgree

-----------------------------------------------------------------------------
(* The invariant.  It is stated of a transaction t and the committed       *)
(* tables C and up, so that a step of one writer says nothing of the       *)
(* others.                                                                 *)

(* A commit overtakes a row in flight: a transaction that has written the  *)
(* tree commits while another is between looking at the tree and writing   *)
(* what follows from it.  scope_move_node has looked at the subtree's      *)
(* height and at both paths until its UPDATE, so it is overtaken by adds   *)
(* and by moves; before it has weighed the subtree, and in scope_add_node  *)
(* before its INSERT, moves alone do harm.  Two adds never overtake one    *)
(* another.  Nothing in the routines keeps a commit from coming between:   *)
(* run ScopeMoves shows one.                                               *)
OnlyAdds(w) == \A n \in DOMAIN tx[w].par : parent[n] = Absent
Overtakes(w, q) ==
    /\ DOMAIN tx[w].par # {}
    /\ \/ tx[q].pc \in {"sever", "severing", "graft", "grafting", "reparent"}
       \/ tx[q].pc \in {"insert", "weigh"} /\ ~OnlyAdds(w)
NoOvertaking == \A w \in Writers, q \in Writers : w # q /\ Commit(w) => ~Overtakes(w, q)

Adding == {"measure", "insert", "close"}
Moving == {"probe", "weigh", "sever", "severing", "graft", "grafting", "reparent"}
Patches == UNION {[S -> Nodes] : S \in SUBSET Nodes}
Saves == [rem : SUBSET Rows, add : SUBSET Rows, par : Patches]
Txs == [pc : {"idle", "row"} \cup Adding \cup Moving, kind : Kinds \cup {"admin"},
        rows : 0 .. MaxRows + 1, node : Nodes \cup {None}, dest : Nodes \cup {None},
        want : SUBSET Rows, rem : SUBSET Rows, add : SUBSET Rows, par : Patches, save : Saves]

(* What a transaction, or its savepoint, makes of the tables.              *)
SeenRows(t, C) == (C \ t.rem) \cup t.add
SeenMap(t, up) == Over(t.par, up)

(* A transaction has written no rows before it holds the lock on           *)
(* catalog_version, and none that a savepoint goes back to.                *)
Steady(t) ==
    /\ t.pc = "row" /\ DOMAIN t.par = {} => t.rem = {} /\ t.add = {}
    /\ DOMAIN t.save.par = {} => t.save.rem = {} /\ t.save.add = {}

Resting(t, C, up) == Mirrors(SeenRows(t, C), SeenMap(t, up))

(* In the middle of a row, with R and m what the savepoint saw.            *)
Saved(t, R, m) == Mirrors(R, m) /\ t.node \in Nodes /\ t.dest \in Nodes /\ m[t.dest] # Absent

Unwritten(t) == t.rem = t.save.rem /\ t.add = t.save.add
Untouched(t) == Unwritten(t) /\ t.par = t.save.par

AtAdd(t, R, m) ==
    /\ t.pc # "close" => Untouched(t) /\ t.node \notin DOMAIN t.save.par
    /\ t.pc # "measure" => \A r \in R : r[2] = t.dest => r[3] + 1 <= MaxDepth
    /\ t.pc = "close" => /\ Unwritten(t) /\ t.par = Over(At(t.node, t.dest), t.save.par)
                         /\ m[t.node] = Absent

AtMove(t, C, R, m) ==
    LET E == R \ Cut(R, t.node) IN
    /\ t.par = t.save.par /\ m[t.node] # Absent
    /\ t.pc \in {"probe", "weigh", "sever", "severing"} => Untouched(t)
    /\ t.pc # "probe" => ~Inside(R, t.node, t.dest)
    /\ t.pc \notin {"probe", "weigh"} =>
         \A r \in R, s \in R : r[2] = t.dest /\ s[1] = t.node => r[3] + s[3] + 1 <= MaxDepth
    /\ t.pc = "severing" => t.want = Cut(R, t.node)
    /\ t.pc \in {"graft", "grafting"} => SeenRows(t, C) = E
    /\ t.pc = "grafting" => t.want = Joined(E, t.node, t.dest)
    /\ t.pc = "reparent" => SeenRows(t, C) = Moved(R, t.node, t.dest)

Good(t, C, up) ==
    LET R == SeenRows(t.save, C)
        m == SeenMap(t.save, up)
    IN  /\ t.pc = "idle" => t = Idle
        /\ Steady(t)
        /\ t.pc = "row" => Resting(t, C, up)
        /\ t.pc \in Adding \cup Moving => Saved(t, R, m)
        /\ t.pc \in Adding => AtAdd(t, R, m)
        /\ t.pc \in Moving => AtMove(t, C, R, m)

Shape ==
    /\ parent \in Maps /\ closure \subseteq Rows /\ begun \in 0 .. MaxTx /\ duty \in Duties
    /\ tx \in [Writers -> Txs]

(* One transaction at a time holds the lock on catalog_version.            *)
OneHolder == \A w \in Writers, q \in Writers :
                 w # q /\ DOMAIN tx[w].par # {} => DOMAIN tx[q].par = {}

IInv == /\ Shape /\ Mirrors(closure, parent) /\ OneHolder
        /\ \A w \in Writers : Good(tx[w], closure, parent)

-----------------------------------------------------------------------------
(* Maps and rows.                                                          *)

LEMMA Numbers == MaxDepth \in Nat /\ MaxRows \in Nat /\ MaxTx \in Nat /\ Rows \subseteq Nodes \X Nodes \X Nat
<1>1. MaxDepth \in Nat /\ MaxRows \in Nat /\ MaxTx \in Nat
  BY WritersAssumption
<1> QED
  BY <1>1 DEF Rows

LEMMA OverFacts ==
    ASSUME NEW s \in Patches, NEW up \in Maps
    PROVE  /\ DOMAIN s \subseteq Nodes /\ \A n \in DOMAIN s : s[n] \in Nodes
           /\ Over(s, up) \in Maps
           /\ \A n \in Nodes : Over(s, up)[n] = IF n \in DOMAIN s THEN s[n] ELSE up[n]
           /\ DOMAIN s = {} => Over(s, up) = up
<1>1. DOMAIN s \subseteq Nodes /\ \A n \in DOMAIN s : s[n] \in Nodes
  BY DEF Patches
<1>2. DOMAIN up = Nodes /\ up = [n \in Nodes |-> up[n]] /\ \A n \in Nodes : up[n] \in Nodes \cup {None, Absent}
  BY DEF Maps
<1>3. Over(s, up) = [n \in Nodes |-> IF n \in DOMAIN s THEN s[n] ELSE up[n]]
  <2>1. DOMAIN s \cup DOMAIN up = Nodes
    BY <1>1, <1>2
  <2> QED
    BY <2>1 DEF Over
<1>4. Over(s, up) \in Maps
  BY <1>1, <1>2, <1>3 DEF Maps
<1>5. \A n \in Nodes : Over(s, up)[n] = IF n \in DOMAIN s THEN s[n] ELSE up[n]
  BY <1>3
<1>6. DOMAIN s = {} => Over(s, up) = up
  BY <1>2, <1>3
<1> QED
  BY <1>1, <1>4, <1>5, <1>6

Patched(s, up, n, p) == Over(Over(At(n, p), s), up) = [Over(s, up) EXCEPT ![n] = p]

LEMMA OverAt ==
    ASSUME NEW s \in Patches, NEW up \in Maps, NEW n \in Nodes, NEW p \in Nodes
    PROVE  /\ Over(At(n, p), s) \in Patches
           /\ DOMAIN Over(At(n, p), s) = DOMAIN s \cup {n}
           /\ Patched(s, up, n, p)
<1> DEFINE v == Over(At(n, p), s)
<1>1. DOMAIN s \subseteq Nodes /\ \A x \in DOMAIN s : s[x] \in Nodes
  BY OverFacts
<1>2. v = [x \in {n} \cup DOMAIN s |-> IF x \in {n} THEN p ELSE s[x]]
  BY DEF Over, At
<1>3. DOMAIN v = DOMAIN s \cup {n} /\ v[n] = p /\ \A x \in DOMAIN s : x # n => v[x] = s[x]
  BY <1>2
<1>4. v \in [DOMAIN s \cup {n} -> Nodes]
  BY <1>1, <1>2
<1>5. v \in Patches
  BY <1>1, <1>4 DEF Patches
<1> HIDE DEF v
<1>6. Over(v, up) \in Maps /\ \A x \in Nodes : Over(v, up)[x] = IF x \in DOMAIN v THEN v[x] ELSE up[x]
  BY <1>5, OverFacts
<1>7. Over(s, up) \in Maps /\ \A x \in Nodes : Over(s, up)[x] = IF x \in DOMAIN s THEN s[x] ELSE up[x]
  BY OverFacts
<1>8. \A x \in Nodes : Over(v, up)[x] = [Over(s, up) EXCEPT ![n] = p][x]
  BY <1>3, <1>6, <1>7 DEF Maps
<1>9. [Over(s, up) EXCEPT ![n] = p] \in Maps
  BY <1>7 DEF Maps
<1>10. Over(v, up) = [Over(s, up) EXCEPT ![n] = p]
  <2> DEFINE e == [Over(s, up) EXCEPT ![n] = p]
             o == Over(v, up)
  <2>1. e \in Maps /\ o \in Maps /\ \A x \in Nodes : o[x] = e[x]
    BY <1>6, <1>8, <1>9
  <2> HIDE DEF e, o
  <2>2. o = e
    BY <2>1 DEF Maps
  <2> QED
    BY <2>2 DEF e, o
<1> QED
  BY <1>3, <1>5, <1>10 DEF v, Patched

LEMMA Seen ==
    ASSUME NEW w \in Writers, tx \in [Writers -> Txs], parent \in Maps
    PROVE  /\ View(w) = SeenRows(tx[w], closure)
           /\ \A n \in Nodes : ViewParent(w, n) = SeenMap(tx[w], parent)[n]
           /\ SeenMap(tx[w], parent) \in Maps
<1>1. tx[w].par \in Patches
  BY DEF Txs
<1> QED
  BY <1>1, OverFacts DEF View, ViewParent, SeenRows, SeenMap

(* The deepest of a set of rows is as deep as each.                        *)
LEMMA DepthBounds ==
    ASSUME NEW R, R \subseteq Rows
    PROVE  Depth(R) \in Nat /\ \A r \in R : r[3] \in Nat /\ r[3] <= Depth(R)
<1>0. \A r \in R : r[3] \in Nat /\ r[3] <= MaxDepth
  BY Numbers DEF Rows
<1>1. CASE R = {}
  BY <1>1 DEF Depth
<1>2. CASE R # {}
  <2> DEFINE K == {r[3] : r \in R}
             S == {MaxDepth - k : k \in K}
  <2>1. S \subseteq Nat /\ S # {}
    BY <1>0, <1>2, Numbers
  <2>2. PICK i \in S : \A j \in S : i <= j
    <3> HIDE DEF S
    <3> QED
      BY <2>1, LeastNat
  <2>3. PICK k \in K : i = MaxDepth - k
    BY <2>2
  <2>4. k \in Nat /\ \A r \in R : r[3] <= k
    <3>1. \A r \in R : MaxDepth - r[3] \in S
      OBVIOUS
    <3>2. k \in Nat
      BY <1>0, <2>3
    <3>3. ASSUME NEW r \in R PROVE r[3] <= k
      <4>1. i <= MaxDepth - r[3]
        <5> HIDE DEF S
        <5> QED
          BY <3>1, <2>2
      <4>2. r[3] \in Nat
        BY <1>0
      <4> QED
        BY <4>1, <4>2, <3>2, <2>3, Numbers
    <3> QED
      BY <3>2, <3>3
  <2>5. \E x \in K : \A r \in R : r[3] <= x
    BY <2>3, <2>4
  <2>6. Depth(R) = CHOOSE x \in K : \A r \in R : r[3] <= x
    BY <1>2 DEF Depth
  <2>7. Depth(R) \in K /\ \A r \in R : r[3] <= Depth(R)
    <3> HIDE DEF K
    <3> QED
      BY <2>5, <2>6
  <2> QED
    BY <2>7, <1>0
<1> QED
  BY <1>1, <1>2

-----------------------------------------------------------------------------
(* A step of one writer.                                                   *)

LEMMA IdleFacts ==
    /\ Idle \in Txs /\ Idle.pc = "idle" /\ Idle.kind = "admin" /\ Idle.rows = 0
    /\ Idle.rem = {} /\ Idle.add = {} /\ Idle.par = <<>> /\ DOMAIN Idle.par = {}
    /\ Idle.save.rem = {} /\ Idle.save.add = {} /\ DOMAIN Idle.save.par = {}
<1>1. <<>> \in Patches /\ DOMAIN <<>> = {}
  BY DEF Patches
<1>2. [rem |-> {}, add |-> {}, par |-> <<>>] \in Saves
  BY <1>1 DEF Saves
<1>3. 0 \in 0 .. MaxRows + 1
  BY Numbers
<1> QED
  BY <1>1, <1>2, <1>3 DEF Idle, Txs

LEMMA IdleIsGood ==
    ASSUME NEW C, NEW up
    PROVE  Good(Idle, C, up)
  BY IdleFacts DEF Good, Steady, Adding, Moving

(* Of a transaction with the fields said, everything else is as it was.    *)
Becomes(t, said, r) ==
    /\ r.pc = IF "pc" \in DOMAIN said THEN said.pc ELSE t.pc
    /\ r.kind = IF "kind" \in DOMAIN said THEN said.kind ELSE t.kind
    /\ r.rows = IF "rows" \in DOMAIN said THEN said.rows ELSE t.rows
    /\ r.node = IF "node" \in DOMAIN said THEN said.node ELSE t.node
    /\ r.dest = IF "dest" \in DOMAIN said THEN said.dest ELSE t.dest
    /\ r.want = IF "want" \in DOMAIN said THEN said.want ELSE t.want
    /\ r.rem = IF "rem" \in DOMAIN said THEN said.rem ELSE t.rem
    /\ r.add = IF "add" \in DOMAIN said THEN said.add ELSE t.add
    /\ r.par = IF "par" \in DOMAIN said THEN said.par ELSE t.par
    /\ r.save = IF "save" \in DOMAIN said THEN said.save ELSE t.save

Typed(r) ==
    /\ r.pc \in {"idle", "row"} \cup Adding \cup Moving /\ r.kind \in Kinds \cup {"admin"}
    /\ r.rows \in 0 .. MaxRows + 1 /\ r.node \in Nodes \cup {None} /\ r.dest \in Nodes \cup {None}
    /\ r.want \subseteq Rows /\ r.rem \subseteq Rows /\ r.add \subseteq Rows
    /\ r.par \in Patches /\ r.save \in Saves

LEMMA GoesTo ==
    ASSUME tx \in [Writers -> Txs], NEW w \in Writers, NEW said, Goes(w, said)
    PROVE  \E r : /\ tx' = [tx EXCEPT ![w] = r]
                  /\ Becomes(tx[w], said, r)
                  /\ Typed(r) => r \in Txs
<1> DEFINE t == tx[w]
           r == [f \in DOMAIN t |-> IF f \in DOMAIN said THEN said[f] ELSE t[f]]
<1>1. tx' = [tx EXCEPT ![w] = r]
  BY DEF Goes
<1>2. t \in Txs
  OBVIOUS
<1>3. DOMAIN t = {"pc", "kind", "rows", "node", "dest", "want", "rem", "add", "par", "save"}
  BY <1>2 DEF Txs
<1> HIDE DEF t
<1>4. Becomes(t, said, r)
  BY <1>3 DEF Becomes
<1>5. ASSUME Typed(r) PROVE r \in Txs
  <2>1. r = [pc |-> r.pc, kind |-> r.kind, rows |-> r.rows, node |-> r.node, dest |-> r.dest,
             want |-> r.want, rem |-> r.rem, add |-> r.add, par |-> r.par, save |-> r.save]
    BY <1>3
  <2> HIDE DEF r
  <2> QED
    BY <2>1, <1>5 DEF Typed, Txs
<1> HIDE DEF r
<1> QED
  BY <1>1, <1>4, <1>5 DEF t

LEMMA OneWriter ==
    ASSUME IInv, NEW w \in Writers, NEW r \in Txs, tx' = [tx EXCEPT ![w] = r],
           parent' = parent, closure' = closure, duty' = duty, begun' \in 0 .. MaxTx,
           Good(r, closure, parent),
           \/ DOMAIN r.par \subseteq DOMAIN tx[w].par
           \/ \A q \in Writers : q # w => DOMAIN tx[q].par = {}
    PROVE  IInv'
<1>1. Shape /\ OneHolder /\ Mirrors(closure, parent)
      /\ \A q \in Writers : Good(tx[q], closure, parent)
  BY DEF IInv
<1>2. tx' \in [Writers -> Txs] /\ tx'[w] = r /\ \A q \in Writers : q # w => tx'[q] = tx[q]
  BY <1>1 DEF Shape
<1>3. Shape'
  BY <1>1, <1>2 DEF Shape
<1>4. OneHolder'
  BY <1>1, <1>2 DEF OneHolder
<1>5. \A q \in Writers : Good(tx'[q], closure', parent')
  BY <1>1, <1>2
<1>6. Mirrors(closure', parent')
  BY <1>1
<1> QED
  BY <1>3, <1>4, <1>5, <1>6 DEF IInv

LEMMA GoodHere ==
    ASSUME IInv, NEW w \in Writers
    PROVE  /\ tx \in [Writers -> Txs] /\ tx[w] \in Txs /\ Typed(tx[w])
           /\ tx[w].save \in Saves
           /\ tx[w].save.rem \subseteq Rows /\ tx[w].save.add \subseteq Rows /\ tx[w].save.par \in Patches
           /\ closure \subseteq Rows /\ parent \in Maps /\ begun \in 0 .. MaxTx
           /\ Good(tx[w], closure, parent)
           /\ View(w) = SeenRows(tx[w], closure) /\ View(w) \subseteq Rows
           /\ SeenRows(tx[w].save, closure) \subseteq Rows
           /\ \A n \in Nodes : ViewParent(w, n) = SeenMap(tx[w], parent)[n]
<1>1. Shape /\ Good(tx[w], closure, parent)
  BY DEF IInv
<1>2. tx \in [Writers -> Txs] /\ tx[w] \in Txs /\ closure \subseteq Rows /\ parent \in Maps /\ begun \in 0 .. MaxTx
  BY <1>1 DEF Shape
<1>3. Typed(tx[w]) /\ tx[w].save \in Saves
  BY <1>2 DEF Typed, Txs
<1>4. tx[w].save.rem \subseteq Rows /\ tx[w].save.add \subseteq Rows /\ tx[w].save.par \in Patches
  BY <1>3 DEF Saves
<1>5. View(w) = SeenRows(tx[w], closure) /\ \A n \in Nodes : ViewParent(w, n) = SeenMap(tx[w], parent)[n]
  BY <1>2, Seen
<1>6. View(w) \subseteq Rows /\ SeenRows(tx[w].save, closure) \subseteq Rows
  BY <1>2, <1>3, <1>4, <1>5 DEF SeenRows, Typed
<1> QED
  BY <1>1, <1>2, <1>3, <1>4, <1>5, <1>6

(* The transaction rolls back.                                             *)
LEMMA RollbackKeeps ==
    ASSUME IInv, NEW w \in Writers, tx' = [tx EXCEPT ![w] = Idle], Unchanged
    PROVE  IInv'
<1>1. begun' \in 0 .. MaxTx
  BY GoodHere DEF Unchanged
<1>2. DOMAIN Idle.par \subseteq DOMAIN tx[w].par /\ Idle \in Txs
  BY IdleFacts
<1>3. Good(Idle, closure, parent)
  BY IdleIsGood
<1> QED
  BY <1>1, <1>2, <1>3, OneWriter DEF Unchanged

(* An error in the middle of a row.                                        *)
LEMMA FailKeeps ==
    ASSUME IInv, NEW w \in Writers, tx[w].pc \in Adding \cup Moving, Fail(w), Unchanged
    PROVE  IInv'
<1>1. CASE tx[w].kind # "sync"
  BY <1>1, RollbackKeeps DEF Fail
<1>2. CASE tx[w].kind = "sync"
  <2> DEFINE t == tx[w]
             said == Over([pc |-> "row", want |-> {}], t.save)
  <2>1. Goes(w, said)
    BY <1>2 DEF Fail
  <2>2. /\ tx \in [Writers -> Txs] /\ Typed(t) /\ t.save \in Saves /\ begun \in 0 .. MaxTx
        /\ t.save.rem \subseteq Rows /\ t.save.add \subseteq Rows /\ t.save.par \in Patches
        /\ Good(t, closure, parent)
    BY GoodHere
  <2>3. /\ DOMAIN said = {"pc", "want", "rem", "add", "par"} /\ said.pc = "row" /\ said.want = {}
        /\ said.rem = t.save.rem /\ said.add = t.save.add /\ said.par = t.save.par
    BY <2>2 DEF Over, Saves
  <2>t. t.pc \in Adding \cup Moving
    OBVIOUS
  <2> HIDE DEF said
  <2>4. PICK r : tx' = [tx EXCEPT ![w] = r] /\ Becomes(tx[w], said, r) /\ (Typed(r) => r \in Txs)
    BY <2>1, <2>2, GoesTo
  <2>5. /\ r.pc = "row" /\ r.want = {} /\ r.rem = t.save.rem /\ r.add = t.save.add
        /\ r.par = t.save.par /\ r.kind = t.kind /\ r.rows = t.rows /\ r.node = t.node
        /\ r.dest = t.dest /\ r.save = t.save
    BY <2>3, <2>4 DEF Becomes
  <2> HIDE DEF t
  <2>6. r \in Txs
    BY <2>2, <2>4, <2>5 DEF Typed
  <2>7. Mirrors(SeenRows(t.save, closure), SeenMap(t.save, parent))
    BY <2>2, <2>t DEF Good, Saved
  <2>8. SeenRows(r, closure) = SeenRows(t.save, closure) /\ SeenMap(r, parent) = SeenMap(t.save, parent)
    BY <2>5 DEF SeenRows, SeenMap
  <2>9. Resting(r, closure, parent)
    BY <2>7, <2>8 DEF Resting
  <2>10. Steady(t)
    BY <2>2 DEF Good
  <2>11. Steady(r)
    BY <2>5, <2>10 DEF Steady
  <2>13. Good(r, closure, parent)
    BY <2>5, <2>9, <2>11 DEF Good, Adding, Moving
  <2>14. DOMAIN r.par \subseteq DOMAIN t.par
    <3>1. CASE t.pc = "close"
      <4>1. t.par = Over(At(t.node, t.dest), t.save.par) /\ t.node \in Nodes /\ t.dest \in Nodes
        BY <2>2, <2>t, <3>1 DEF Good, AtAdd, Saved, Adding
      <4>2. DOMAIN Over(At(t.node, t.dest), t.save.par) = DOMAIN t.save.par \cup {t.node}
        BY <2>2, <4>1, OverAt, GoodHere
      <4> QED
        BY <2>5, <4>1, <4>2
    <3>2. CASE t.pc # "close"
      BY <2>2, <2>5, <2>t, <3>2 DEF Good, AtAdd, AtMove, Untouched
    <3> QED
      BY <3>1, <3>2
  <2>15. begun' \in 0 .. MaxTx
    BY <2>2 DEF Unchanged
  <2> QED
    BY <2>4, <2>6, <2>13, <2>14, <2>15, OneWriter DEF Unchanged, t
<1> QED
  BY <1>1, <1>2

LEMMA BeginKeeps ==
    ASSUME IInv, NEW w \in Writers, NEW kind \in Kinds, Begin(w, kind)
    PROVE  IInv'
<1> DEFINE said == [pc |-> "row", kind |-> kind]
<1>1. Goes(w, said) /\ tx[w].pc = "idle" /\ begun < MaxTx /\ begun' = begun + 1
      /\ parent' = parent /\ closure' = closure /\ duty' = duty
  BY DEF Begin
<1>2. /\ tx \in [Writers -> Txs] /\ begun \in 0 .. MaxTx /\ parent \in Maps
      /\ Good(tx[w], closure, parent)
  BY GoodHere
<1>3. tx[w] = Idle
  BY <1>1, <1>2 DEF Good
<1>4. DOMAIN said = {"pc", "kind"} /\ said.pc = "row" /\ said.kind = kind
  OBVIOUS
<1> HIDE DEF said
<1>5. PICK r : tx' = [tx EXCEPT ![w] = r] /\ Becomes(tx[w], said, r) /\ (Typed(r) => r \in Txs)
  BY <1>1, <1>2, GoesTo
<1>6. /\ r.pc = "row" /\ r.kind = kind /\ r.rows = Idle.rows /\ r.node = Idle.node
      /\ r.dest = Idle.dest /\ r.want = Idle.want /\ r.rem = Idle.rem /\ r.add = Idle.add
      /\ r.par = Idle.par /\ r.save = Idle.save
  BY <1>3, <1>4, <1>5 DEF Becomes
<1>7. Typed(Idle)
  BY IdleFacts DEF Typed, Txs
<1>8. r \in Txs
  BY <1>5, <1>6, <1>7 DEF Typed
<1>9. r.rem = {} /\ r.add = {} /\ DOMAIN r.par = {} /\ r.par \in Patches
      /\ r.save.rem = {} /\ r.save.add = {} /\ DOMAIN r.save.par = {}
  BY <1>6, <1>7, IdleFacts DEF Typed
<1>10. SeenRows(r, closure) = closure /\ SeenMap(r, parent) = parent
  BY <1>2, <1>9, OverFacts DEF SeenRows, SeenMap
<1>11. Mirrors(closure, parent)
  BY DEF IInv
<1>12. Good(r, closure, parent)
  BY <1>1, <1>6, <1>9, <1>10, <1>11 DEF Good, Steady, Resting, Adding, Moving
<1>13. begun' \in 0 .. MaxTx
  BY <1>1, <1>2, Numbers
<1>14. DOMAIN r.par \subseteq DOMAIN tx[w].par
  BY <1>9
<1> QED
  BY <1>1, <1>5, <1>8, <1>12, <1>13, <1>14, OneWriter

LEMMA RowKeeps ==
    ASSUME IInv, NEW w \in Writers, NEW n \in Nodes, NEW p \in Nodes, Row(w, n, p)
    PROVE  IInv'
<1> DEFINE t == tx[w]
           op == IF ViewParent(w, n) = Absent THEN "add" ELSE "move"
           pc == IF op = "add" THEN "measure" ELSE "probe"
           save == [rem |-> t.rem, add |-> t.add, par |-> t.par]
           said == [pc |-> pc, rows |-> t.rows + 1, node |-> n, dest |-> p, save |-> save]
<1>1. /\ Goes(w, said) /\ t.pc = "row" /\ ViewParent(w, p) # Absent
      /\ t.rows < (IF t.kind = "admin" THEN 1 ELSE MaxRows) /\ Unchanged
  BY DEF Row
<1>2. /\ tx \in [Writers -> Txs] /\ Typed(t) /\ begun \in 0 .. MaxTx /\ parent \in Maps
      /\ Good(t, closure, parent)
      /\ \A m \in Nodes : ViewParent(w, m) = SeenMap(t, parent)[m]
  BY GoodHere
<1>3. /\ DOMAIN said = {"pc", "rows", "node", "dest", "save"} /\ said.pc = pc /\ said.rows = t.rows + 1
      /\ said.node = n /\ said.dest = p /\ said.save = save
  OBVIOUS
<1>4. save.rem = t.rem /\ save.add = t.add /\ save.par = t.par
  OBVIOUS
<1>5. save \in Saves
  BY <1>2 DEF Saves, Typed
<1> HIDE DEF said, save
<1>6. PICK r : tx' = [tx EXCEPT ![w] = r] /\ Becomes(tx[w], said, r) /\ (Typed(r) => r \in Txs)
  BY <1>1, <1>2, GoesTo
<1>7. /\ r.pc = pc /\ r.rows = t.rows + 1 /\ r.node = n /\ r.dest = p /\ r.save = save
      /\ r.kind = t.kind /\ r.want = t.want /\ r.rem = t.rem /\ r.add = t.add /\ r.par = t.par
  BY <1>3, <1>6 DEF Becomes
<1>8. pc \in {"measure", "probe"} /\ (pc = "measure" <=> ViewParent(w, n) = Absent)
  OBVIOUS
<1> HIDE DEF pc, op, t
<1>9. r.rows \in 0 .. MaxRows + 1
  <2>1. t.rows \in Nat
    BY <1>2, Numbers DEF Typed
  <2> QED
    BY <2>1, <1>1, <1>7, Numbers
<1>10. r \in Txs
  BY <1>2, <1>5, <1>6, <1>7, <1>8, <1>9 DEF Typed, Adding, Moving
<1>11. SeenRows(r.save, closure) = SeenRows(t, closure) /\ SeenMap(r.save, parent) = SeenMap(t, parent)
  BY <1>4, <1>7 DEF SeenRows, SeenMap
<1>12. Mirrors(SeenRows(t, closure), SeenMap(t, parent))
  BY <1>1, <1>2 DEF Good, Resting
<1>13. Steady(r)
  BY <1>1, <1>2, <1>4, <1>7, <1>8 DEF Good, Steady
<1>14. SeenMap(t, parent)[p] # Absent
  BY <1>1, <1>2
<1>15. Saved(r, SeenRows(t, closure), SeenMap(t, parent))
  BY <1>7, <1>12, <1>14 DEF Saved
<1>16. Untouched(r)
  BY <1>4, <1>7 DEF Untouched, Unwritten
<1>17. ASSUME pc = "measure" PROVE n \notin DOMAIN t.par
  <2>1. SeenMap(t, parent)[n] = Absent
    BY <1>2, <1>8, <1>17
  <2>2. t.par \in Patches
    BY <1>2 DEF Typed
  <2> QED
    BY <2>1, <2>2, <1>2, OverFacts, TreeAssumption DEF SeenMap
<1>18. pc = "measure" => AtAdd(r, SeenRows(t, closure), SeenMap(t, parent))
  BY <1>4, <1>7, <1>16, <1>17 DEF AtAdd
<1>19. ASSUME pc = "probe" PROVE AtMove(r, closure, SeenRows(t, closure), SeenMap(t, parent))
  <2>1. SeenMap(t, parent)[n] # Absent
    BY <1>2, <1>8, <1>19
  <2> QED
    BY <2>1, <1>4, <1>7, <1>16, <1>19 DEF AtMove
<1>20. r.pc \in {"measure", "probe"} /\ (r.pc \in Adding => pc = "measure") /\ (r.pc \in Moving => pc = "probe")
  BY <1>7, <1>8 DEF Adding, Moving
<1>21. Good(r, closure, parent)
  BY <1>8, <1>11, <1>13, <1>15, <1>18, <1>19, <1>20 DEF Good
<1>22. begun' \in 0 .. MaxTx /\ DOMAIN r.par \subseteq DOMAIN tx[w].par
  BY <1>1, <1>2, <1>7 DEF Unchanged, t
<1> QED
  BY <1>1, <1>6, <1>10, <1>21, <1>22, OneWriter DEF Unchanged

(* A transaction that only goes on to another statement.                   *)
SameBut(r, t, pc) ==
    /\ r.pc = pc /\ r.kind = t.kind /\ r.rows = t.rows /\ r.node = t.node /\ r.dest = t.dest
    /\ r.want = t.want /\ r.rem = t.rem /\ r.add = t.add /\ r.par = t.par /\ r.save = t.save

LEMMA GoesOn ==
    ASSUME IInv, NEW w \in Writers, NEW pc \in Adding \cup Moving, Goes(w, [pc |-> pc])
    PROVE  \E r \in Txs : tx' = [tx EXCEPT ![w] = r] /\ SameBut(r, tx[w], pc)
<1> DEFINE said == [pc |-> pc]
<1>1. tx \in [Writers -> Txs] /\ Typed(tx[w])
  BY GoodHere
<1>2. DOMAIN said = {"pc"} /\ said.pc = pc /\ Goes(w, said)
  OBVIOUS
<1> HIDE DEF said
<1>3. PICK r : tx' = [tx EXCEPT ![w] = r] /\ Becomes(tx[w], said, r) /\ (Typed(r) => r \in Txs)
  BY <1>1, <1>2, GoesTo
<1>4. SameBut(r, tx[w], pc)
  BY <1>2, <1>3 DEF Becomes, SameBut
<1>5. r \in Txs
  BY <1>1, <1>3, <1>4 DEF SameBut, Typed
<1> QED
  BY <1>3, <1>4, <1>5

(* Where it only goes on, what it has to show is what it did at pc.        *)
LEMMA GoesOnKeeps ==
    ASSUME IInv, NEW w \in Writers, NEW r \in Txs, tx' = [tx EXCEPT ![w] = r],
           SameBut(r, tx[w], r.pc), tx[w].pc \in Adding \cup Moving, Unchanged,
           \/ r.pc \in Adding /\ AtAdd(r, SeenRows(r.save, closure), SeenMap(r.save, parent))
           \/ /\ r.pc \in Moving /\ tx[w].pc \in Moving
              /\ AtMove(r, closure, SeenRows(r.save, closure), SeenMap(r.save, parent))
    PROVE  IInv'
<1> DEFINE t == tx[w]
<1>1. Good(t, closure, parent) /\ begun \in 0 .. MaxTx /\ t.pc \in Adding \cup Moving
  BY GoodHere
<1>2. r.save = t.save /\ r.par = t.par /\ r.rem = t.rem /\ r.add = t.add /\ r.node = t.node /\ r.dest = t.dest
  BY DEF SameBut
<1> HIDE DEF t
<1>3. Saved(t, SeenRows(t.save, closure), SeenMap(t.save, parent))
  BY <1>1 DEF Good, Adding, Moving
<1>4. Saved(r, SeenRows(r.save, closure), SeenMap(r.save, parent))
  BY <1>2, <1>3 DEF Saved
<1>5. r.pc # "row" => Steady(r)
  BY <1>1, <1>2 DEF Good, Steady
<1>7. CASE r.pc \in Adding /\ AtAdd(r, SeenRows(r.save, closure), SeenMap(r.save, parent))
  <2>1. r.pc \notin Moving /\ r.pc # "idle" /\ r.pc # "row"
    BY <1>7 DEF Adding, Moving
  <2>2. Good(r, closure, parent)
    BY <2>1, <1>3, <1>4, <1>5, <1>7 DEF Good
  <2> QED
    BY <2>2, <1>1, <1>2, OneWriter DEF Unchanged, t
<1>8. CASE /\ r.pc \in Moving /\ t.pc \in Moving
           /\ AtMove(r, closure, SeenRows(r.save, closure), SeenMap(r.save, parent))
  <2>1. r.pc \notin Adding /\ r.pc # "idle" /\ r.pc # "row"
    BY <1>8 DEF Adding, Moving
  <2>2. Good(r, closure, parent)
    BY <2>1, <1>3, <1>4, <1>5, <1>8 DEF Good
  <2> QED
    BY <2>2, <1>1, <1>2, OneWriter DEF Unchanged, t
<1> QED
  BY <1>7, <1>8 DEF t

(* In the middle of a row.                                                 *)
LEMMA Midway ==
    ASSUME IInv, NEW w \in Writers, tx[w].pc \in Adding \cup Moving
    PROVE  /\ Saved(tx[w], SeenRows(tx[w].save, closure), SeenMap(tx[w].save, parent))
           /\ tx[w].pc \in Adding => AtAdd(tx[w], SeenRows(tx[w].save, closure), SeenMap(tx[w].save, parent))
           /\ tx[w].pc \in Moving => AtMove(tx[w], closure, SeenRows(tx[w].save, closure), SeenMap(tx[w].save, parent))
           /\ Steady(tx[w])
           /\ tx[w].node \in Nodes /\ tx[w].dest \in Nodes
           /\ Unwritten(tx[w]) => View(w) = SeenRows(tx[w].save, closure)
<1>1. Good(tx[w], closure, parent) /\ View(w) = SeenRows(tx[w], closure)
  BY GoodHere
<1>2. Unwritten(tx[w]) => View(w) = SeenRows(tx[w].save, closure)
  BY <1>1 DEF Unwritten, SeenRows
<1> QED
  BY <1>1, <1>2 DEF Good, Saved, Adding, Moving

LEMMA AddMeasureKeeps ==
    ASSUME IInv, NEW w \in Writers, AddMeasure(w)
    PROVE  IInv'
<1> DEFINE t == tx[w]
           R == SeenRows(t.save, closure)
           m == SeenMap(t.save, parent)
<1>1. t.pc = "measure" /\ Unchanged
      /\ (IF DepthOf(w, t.dest) + 1 > MaxDepth THEN Fail(w) ELSE Goes(w, [pc |-> "insert"]))
  BY DEF AddMeasure
<1>2. t.pc \in Adding /\ "insert" \in Adding
  BY <1>1 DEF Adding
<1>3. CASE DepthOf(w, t.dest) + 1 > MaxDepth
  BY <1>1, <1>2, <1>3, FailKeeps
<1>4. CASE ~(DepthOf(w, t.dest) + 1 > MaxDepth)
  <2>1. PICK r \in Txs : tx' = [tx EXCEPT ![w] = r] /\ SameBut(r, t, "insert")
    BY <1>1, <1>2, <1>4, GoesOn
  <2>2. AtAdd(t, R, m) /\ (Unwritten(t) => View(w) = R)
    BY <1>2, Midway
  <2>3. Untouched(t) /\ t.node \notin DOMAIN t.save.par
    BY <1>1, <2>2 DEF AtAdd
  <2>4. View(w) = R /\ R \subseteq Rows
    BY <2>2, <2>3, GoodHere DEF Untouched
  <2>5. \A x \in R : x[2] = t.dest => x[3] + 1 <= MaxDepth
    <3> DEFINE D == {x \in View(w) : x[2] = t.dest}
    <3>1. D \subseteq Rows /\ DepthOf(w, t.dest) = Depth(D)
      BY <2>4 DEF DepthOf
    <3> HIDE DEF D
    <3>2. Depth(D) \in Nat /\ \A x \in D : x[3] \in Nat /\ x[3] <= Depth(D)
      BY <3>1, DepthBounds
    <3>3. \A x \in D : x[3] + 1 <= MaxDepth
      BY <3>1, <3>2, <1>4, Numbers
    <3> QED
      BY <3>3, <2>4 DEF D
  <2>6. AtAdd(r, SeenRows(r.save, closure), SeenMap(r.save, parent))
    BY <2>1, <2>3, <2>5 DEF AtAdd, SameBut, Untouched, Unwritten
  <2>7. r.pc = "insert" /\ SameBut(r, t, r.pc)
    BY <2>1 DEF SameBut
  <2> QED
    BY <1>1, <1>2, <2>1, <2>6, <2>7, GoesOnKeeps
<1> QED
  BY <1>3, <1>4

LEMMA AddInsertKeeps ==
    ASSUME IInv, NEW w \in Writers, AddInsert(w)
    PROVE  IInv'
<1> DEFINE t == tx[w]
           n == t.node
           p == t.dest
           R == SeenRows(t.save, closure)
           m == SeenMap(t.save, parent)
           par == Over(At(n, p), t.par)
           said == [pc |-> "close", par |-> par]
<1>1. t.pc = "insert" /\ Unchanged /\ WaitsFor(w) = {}
      /\ (IF parent[n] # Absent \/ p \notin Legal[n] THEN Fail(w) ELSE Goes(w, said))
  BY DEF AddInsert
<1>2. t.pc \in Adding
  BY <1>1 DEF Adding
<1>3. CASE parent[n] # Absent \/ p \notin Legal[n]
  BY <1>1, <1>2, <1>3, FailKeeps
<1>4. CASE ~(parent[n] # Absent \/ p \notin Legal[n])
  <2>1. /\ AtAdd(t, R, m) /\ Saved(t, R, m) /\ Steady(t)
        /\ n \in Nodes /\ p \in Nodes
    BY <1>2, Midway
  <2>2. /\ tx \in [Writers -> Txs] /\ Typed(t) /\ begun \in 0 .. MaxTx /\ parent \in Maps
        /\ t.save.par \in Patches /\ t.par \in Patches
    BY GoodHere DEF Typed
  <2>3. Untouched(t) /\ n \notin DOMAIN t.save.par /\ \A x \in R : x[2] = p => x[3] + 1 <= MaxDepth
    BY <1>1, <2>1 DEF AtAdd
  <2>4. parent[n] = Absent /\ Goes(w, said)
    BY <1>1, <1>4
  <2>5. m[n] = Absent
    BY <2>1, <2>2, <2>3, <2>4, OverFacts DEF SeenMap
  <2>6. par \in Patches /\ DOMAIN par = DOMAIN t.par \cup {n}
    BY <2>1, <2>2, OverAt
  <2>7. par = Over(At(n, p), t.save.par)
    BY <2>3 DEF Untouched
  <2>8. DOMAIN said = {"pc", "par"} /\ said.pc = "close" /\ said.par = par
    OBVIOUS
  <2> HIDE DEF said, par
  <2>9. PICK r : tx' = [tx EXCEPT ![w] = r] /\ Becomes(tx[w], said, r) /\ (Typed(r) => r \in Txs)
    BY <2>2, <2>4, GoesTo
  <2>10. /\ r.pc = "close" /\ r.par = par /\ r.kind = t.kind /\ r.rows = t.rows /\ r.node = n
         /\ r.dest = p /\ r.want = t.want /\ r.rem = t.rem /\ r.add = t.add /\ r.save = t.save
    BY <2>8, <2>9 DEF Becomes
  <2>t. t = tx[w]
    OBVIOUS
  <2>11. r \in Txs
    BY <2>2, <2>6, <2>9, <2>10 DEF Typed, Adding
  <2>12. Steady(r)
    <3> HIDE DEF t
    <3> QED
      BY <2>1, <2>10 DEF Steady
  <2>13. Saved(r, R, m)
    BY <2>1, <2>10 DEF Saved
  <2>14. AtAdd(r, R, m)
    BY <2>3, <2>5, <2>7, <2>10 DEF AtAdd, Untouched, Unwritten
  <2> HIDE DEF t, n, p
  <2>15. Good(r, closure, parent)
    BY <2>1, <2>10, <2>12, <2>13, <2>14 DEF Good, Adding, Moving
  <2>16. \A q \in Writers : q # w => DOMAIN tx[q].par = {}
    BY <1>1 DEF WaitsFor, t
  <2>17. begun' \in 0 .. MaxTx
    BY <1>1, <2>2 DEF Unchanged
  <2> QED
    BY <1>1, <2>9, <2>11, <2>15, <2>16, <2>17, OneWriter DEF Unchanged
<1> QED
  BY <1>3, <1>4

LEMMA AddCloseKeeps ==
    ASSUME IInv, NEW w \in Writers, AddClose(w)
    PROVE  IInv'
<1> DEFINE t == tx[w]
           n == t.node
           p == t.dest
           R == SeenRows(t.save, closure)
           m == SeenMap(t.save, parent)
           new == {<<r[1], n, r[3] + 1>> : r \in {q \in View(w) : q[2] = p}}
           add == t.add \cup {<<n, n, 0>>} \cup new
           said == [pc |-> "row", add |-> add]
<1>1. t.pc = "close" /\ Unchanged /\ Goes(w, said)
  BY DEF AddClose
<1>2. t.pc \in Adding
  BY <1>1 DEF Adding
<1>3. /\ AtAdd(t, R, m) /\ Saved(t, R, m) /\ Steady(t)
      /\ n \in Nodes /\ p \in Nodes /\ (Unwritten(t) => View(w) = R)
  BY <1>2, Midway
<1>4. /\ tx \in [Writers -> Txs] /\ Typed(t) /\ begun \in 0 .. MaxTx /\ parent \in Maps
      /\ t.save.par \in Patches /\ t.par \in Patches /\ R \subseteq Rows
  BY GoodHere DEF Typed
<1>5. /\ Unwritten(t) /\ t.par = Over(At(n, p), t.save.par) /\ m[n] = Absent
      /\ \A x \in R : x[2] = p => x[3] + 1 <= MaxDepth
  BY <1>1, <1>3 DEF AtAdd
<1>6. View(w) = R /\ Mirrors(R, m) /\ m[p] # Absent /\ SeenRows(t, closure) = R
  BY <1>3, <1>5 DEF Saved, Unwritten, SeenRows
<1>7. add \subseteq Rows
  <2>1. <<n, n, 0>> \in Rows
    BY <1>3, Numbers DEF Rows
  <2>2. ASSUME NEW x \in R, x[2] = p PROVE <<x[1], n, x[3] + 1>> \in Rows
    <3>1. x \in Nodes \X Nodes \X (0 .. MaxDepth)
      BY <1>4 DEF Rows
    <3>2. x[1] \in Nodes /\ x[3] \in 0 .. MaxDepth
      BY <3>1
    <3>3. x[3] + 1 \in 0 .. MaxDepth
      BY <3>2, <2>2, <1>5, Numbers
    <3> QED
      BY <3>2, <3>3, <1>3 DEF Rows
  <2>3. new \subseteq Rows
    BY <2>2, <1>6
  <2> QED
    BY <2>1, <2>3, <1>4 DEF Typed
<1>8. (closure \ t.rem) \cup add = Closed(R, n, p)
  BY <1>6 DEF Closed, SeenRows
<1>o. /\ DOMAIN Over(At(n, p), t.save.par) = DOMAIN t.save.par \cup {n}
      /\ Over(Over(At(n, p), t.save.par), parent) = [Over(t.save.par, parent) EXCEPT ![n] = p]
  <2> DEFINE s == t.save.par
  <2>1. s \in Patches /\ n \in Nodes /\ p \in Nodes /\ parent \in Maps
    BY <1>3, <1>4
  <2> HIDE DEF n, p, t, s
  <2>2. DOMAIN Over(At(n, p), s) = DOMAIN s \cup {n}
    BY <2>1, OverAt
  <2>3. Patched(s, parent, n, p)
    BY <2>1, OverAt
  <2> QED
    BY <2>2, <2>3 DEF s, Patched
<1>9. Over(t.par, parent) = [m EXCEPT ![n] = p]
  BY <1>5, <1>o DEF SeenMap
<1>10. DOMAIN t.par # {}
  BY <1>5, <1>o
<1>11. Mirrors(Closed(R, n, p), [m EXCEPT ![n] = p])
  BY <1>3, <1>5, <1>6, AddKeeps
<1>12. DOMAIN said = {"pc", "add"} /\ said.pc = "row" /\ said.add = add
  OBVIOUS
<1> HIDE DEF said, add
<1>13. PICK r : tx' = [tx EXCEPT ![w] = r] /\ Becomes(tx[w], said, r) /\ (Typed(r) => r \in Txs)
  BY <1>1, <1>4, GoesTo
<1>14. /\ r.pc = "row" /\ r.par = t.par /\ r.kind = t.kind /\ r.rows = t.rows /\ r.node = n
       /\ r.dest = p /\ r.want = t.want /\ r.rem = t.rem /\ r.add = add /\ r.save = t.save
  BY <1>12, <1>13 DEF Becomes
<1>15. r \in Txs
  BY <1>4, <1>7, <1>13, <1>14 DEF Typed
<1>16. Resting(r, closure, parent)
  BY <1>8, <1>9, <1>11, <1>14 DEF Resting, SeenRows, SeenMap
<1>17. Steady(r)
  <2> HIDE DEF t
  <2> QED
    BY <1>3, <1>10, <1>14 DEF Steady
<1>18. Good(r, closure, parent)
  BY <1>3, <1>14, <1>16, <1>17 DEF Good, Adding, Moving
<1>19. begun' \in 0 .. MaxTx /\ DOMAIN r.par \subseteq DOMAIN tx[w].par
  BY <1>1, <1>4, <1>14 DEF Unchanged
<1> QED
  BY <1>1, <1>13, <1>15, <1>18, <1>19, OneWriter DEF Unchanged

LEMMA MoveProbeKeeps ==
    ASSUME IInv, NEW w \in Writers, MoveProbe(w)
    PROVE  IInv'
<1> DEFINE t == tx[w]
           R == SeenRows(t.save, closure)
           m == SeenMap(t.save, parent)
<1>1. t.pc = "probe" /\ Unchanged
      /\ (IF InsideSubtree(w) THEN Fail(w) ELSE Goes(w, [pc |-> "weigh"]))
  BY DEF MoveProbe
<1>2. t.pc \in Moving /\ "weigh" \in Moving
  BY <1>1 DEF Moving
<1>3. CASE InsideSubtree(w)
  BY <1>1, <1>2, <1>3, FailKeeps
<1>4. CASE ~InsideSubtree(w)
  <2>1. PICK r \in Txs : tx' = [tx EXCEPT ![w] = r] /\ SameBut(r, t, "weigh")
    BY <1>1, <1>2, <1>4, GoesOn
  <2>2. AtMove(t, closure, R, m) /\ (Unwritten(t) => View(w) = R)
    BY <1>2, Midway
  <2>3. Untouched(t) /\ m[t.node] # Absent
    BY <1>1, <2>2 DEF AtMove
  <2>4. View(w) = R
    BY <2>2, <2>3 DEF Untouched
  <2>5. ~Inside(R, t.node, t.dest)
    <3> SUFFICES ASSUME NEW j \in Nat, <<t.node, t.dest, j>> \in R PROVE FALSE
      BY DEF Inside
    <3> DEFINE x == <<t.node, t.dest, j>>
    <3>1. x \in View(w) /\ x[1] = t.node /\ x[2] = t.dest
      BY <2>4
    <3> HIDE DEF x
    <3> QED
      BY <3>1, <1>4 DEF InsideSubtree
  <2>6. AtMove(r, closure, SeenRows(r.save, closure), SeenMap(r.save, parent))
    BY <2>1, <2>3, <2>5 DEF AtMove, SameBut, Untouched, Unwritten
  <2>7. r.pc = "weigh" /\ SameBut(r, t, r.pc)
    BY <2>1 DEF SameBut
  <2> QED
    BY <1>1, <1>2, <2>1, <2>6, <2>7, GoesOnKeeps
<1> QED
  BY <1>3, <1>4

LEMMA MoveWeighKeeps ==
    ASSUME IInv, NEW w \in Writers, MoveWeigh(w)
    PROVE  IInv'
<1> DEFINE t == tx[w]
           R == SeenRows(t.save, closure)
           m == SeenMap(t.save, parent)
<1>1. t.pc = "weigh" /\ Unchanged
      /\ (IF TooDeep(w) THEN Fail(w) ELSE Goes(w, [pc |-> "sever"]))
  BY DEF MoveWeigh
<1>2. t.pc \in Moving /\ "sever" \in Moving
  BY <1>1 DEF Moving
<1>3. CASE TooDeep(w)
  BY <1>1, <1>2, <1>3, FailKeeps
<1>4. CASE ~TooDeep(w)
  <2>1. PICK r \in Txs : tx' = [tx EXCEPT ![w] = r] /\ SameBut(r, t, "sever")
    BY <1>1, <1>2, <1>4, GoesOn
  <2>2. AtMove(t, closure, R, m) /\ (Unwritten(t) => View(w) = R)
    BY <1>2, Midway
  <2>3. Untouched(t) /\ m[t.node] # Absent /\ ~Inside(R, t.node, t.dest)
    BY <1>1, <2>2 DEF AtMove
  <2>4. View(w) = R /\ R \subseteq Rows
    BY <2>2, <2>3, GoodHere DEF Untouched
  <2>5. \A x \in R, y \in R : x[2] = t.dest /\ y[1] = t.node => x[3] + y[3] + 1 <= MaxDepth
    <3> DEFINE D == {x \in View(w) : x[2] = t.dest}
               H == {x \in View(w) : x[1] = t.node}
    <3>1. D \subseteq Rows /\ H \subseteq Rows /\ ~(Depth(D) + Depth(H) + 1 > MaxDepth)
      BY <2>4, <1>4 DEF DepthOf, HeightOf, TooDeep
    <3> HIDE DEF D, H
    <3>2. /\ Depth(D) \in Nat /\ \A x \in D : x[3] \in Nat /\ x[3] <= Depth(D)
          /\ Depth(H) \in Nat /\ \A x \in H : x[3] \in Nat /\ x[3] <= Depth(H)
      BY <3>1, DepthBounds
    <3>3. \A x \in D, y \in H : x[3] + y[3] + 1 <= MaxDepth
      BY <3>1, <3>2, Numbers
    <3> QED
      BY <3>3, <2>4 DEF D, H
  <2>6. AtMove(r, closure, SeenRows(r.save, closure), SeenMap(r.save, parent))
    BY <2>1, <2>3, <2>5 DEF AtMove, SameBut, Untouched, Unwritten
  <2>7. r.pc = "sever" /\ SameBut(r, t, r.pc)
    BY <2>1 DEF SameBut
  <2> QED
    BY <1>1, <1>2, <2>1, <2>6, <2>7, GoesOnKeeps
<1> QED
  BY <1>3, <1>4

(* A statement of a move that writes: it goes on within the row.           *)
LEMMA MoveStep ==
    ASSUME IInv, NEW w \in Writers, NEW r \in Txs, tx' = [tx EXCEPT ![w] = r], Unchanged,
           tx[w].pc \in Moving, r.pc \in Moving, r.node = tx[w].node, r.dest = tx[w].dest,
           r.par = tx[w].par, r.save = tx[w].save,
           AtMove(r, closure, SeenRows(r.save, closure), SeenMap(r.save, parent))
    PROVE  IInv'
<1>1. /\ Saved(tx[w], SeenRows(tx[w].save, closure), SeenMap(tx[w].save, parent))
      /\ Steady(tx[w])
  BY Midway
<1>2. Saved(r, SeenRows(r.save, closure), SeenMap(r.save, parent))
  BY <1>1 DEF Saved
<1>3. Good(r, closure, parent)
  BY <1>1, <1>2 DEF Good, Steady, Adding, Moving
<1>4. begun' \in 0 .. MaxTx
  BY GoodHere DEF Unchanged
<1> QED
  BY <1>3, <1>4, OneWriter DEF Unchanged

LEMMA MoveSeverKeeps ==
    ASSUME IInv, NEW w \in Writers, MoveSever(w)
    PROVE  IInv'
<1> DEFINE t == tx[w]
           R == SeenRows(t.save, closure)
           m == SeenMap(t.save, parent)
           said == [pc |-> "severing", want |-> Severed(w)]
<1>1. t.pc = "sever" /\ Unchanged /\ Goes(w, said)
  BY DEF MoveSever
<1>2. t.pc \in Moving /\ "severing" \in Moving
  BY <1>1 DEF Moving
<1>3. AtMove(t, closure, R, m) /\ (Unwritten(t) => View(w) = R)
  BY <1>2, Midway
<1>4. Untouched(t)
  BY <1>1, <1>3 DEF AtMove
<1>5. View(w) = R /\ R \subseteq Rows /\ tx \in [Writers -> Txs] /\ Typed(t)
  BY <1>3, <1>4, GoodHere DEF Untouched
<1>6. Severed(w) = Cut(R, t.node) /\ Severed(w) \subseteq Rows
  BY <1>5 DEF Severed, Cut
<1>7. DOMAIN said = {"pc", "want"} /\ said.pc = "severing" /\ said.want = Severed(w)
  OBVIOUS
<1> HIDE DEF said
<1>8. PICK r : tx' = [tx EXCEPT ![w] = r] /\ Becomes(tx[w], said, r) /\ (Typed(r) => r \in Txs)
  BY <1>1, <1>5, GoesTo
<1>9. /\ r.pc = "severing" /\ r.want = Severed(w) /\ r.kind = t.kind /\ r.rows = t.rows
      /\ r.node = t.node /\ r.dest = t.dest /\ r.rem = t.rem /\ r.add = t.add /\ r.par = t.par
      /\ r.save = t.save
  BY <1>7, <1>8 DEF Becomes
<1>10. r \in Txs
  BY <1>2, <1>5, <1>6, <1>8, <1>9 DEF Typed
<1>11. AtMove(r, closure, SeenRows(r.save, closure), SeenMap(r.save, parent))
  BY <1>1, <1>3, <1>4, <1>6, <1>9 DEF AtMove, Untouched, Unwritten
<1> QED
  BY <1>1, <1>2, <1>8, <1>9, <1>10, <1>11, MoveStep

LEMMA MoveSeveredKeeps ==
    ASSUME IInv, NEW w \in Writers, MoveSevered(w)
    PROVE  IInv'
<1> DEFINE t == tx[w]
           R == SeenRows(t.save, closure)
           m == SeenMap(t.save, parent)
           rem == t.rem \cup (t.want \cap closure)
           add == t.add \ t.want
           said == [pc |-> "graft", want |-> {}, rem |-> rem, add |-> add]
<1>1. t.pc = "severing" /\ Unchanged /\ Goes(w, said)
  BY DEF MoveSevered
<1>2. t.pc \in Moving /\ "graft" \in Moving
  BY <1>1 DEF Moving
<1>3. AtMove(t, closure, R, m) /\ (Unwritten(t) => View(w) = R)
  BY <1>2, Midway
<1>4. Untouched(t) /\ t.want = Cut(R, t.node)
  BY <1>1, <1>3 DEF AtMove
<1>5. /\ View(w) = R /\ View(w) = SeenRows(t, closure) /\ R \subseteq Rows
      /\ tx \in [Writers -> Txs] /\ Typed(t) /\ closure \subseteq Rows
  BY <1>3, <1>4, GoodHere DEF Untouched
<1>6. rem \subseteq Rows /\ add \subseteq Rows
  BY <1>5 DEF Typed
<1>7. (closure \ rem) \cup add = R \ Cut(R, t.node)
  BY <1>4, <1>5 DEF SeenRows
<1>8. /\ DOMAIN said = {"pc", "want", "rem", "add"} /\ said.pc = "graft" /\ said.want = {}
      /\ said.rem = rem /\ said.add = add
  OBVIOUS
<1> HIDE DEF said, rem, add
<1>9. PICK r : tx' = [tx EXCEPT ![w] = r] /\ Becomes(tx[w], said, r) /\ (Typed(r) => r \in Txs)
  BY <1>1, <1>5, GoesTo
<1>10. /\ r.pc = "graft" /\ r.want = {} /\ r.kind = t.kind /\ r.rows = t.rows
       /\ r.node = t.node /\ r.dest = t.dest /\ r.rem = rem /\ r.add = add /\ r.par = t.par
       /\ r.save = t.save
  BY <1>8, <1>9 DEF Becomes
<1>11. r \in Txs
  BY <1>2, <1>5, <1>6, <1>9, <1>10 DEF Typed
<1>12. SeenRows(r, closure) = R \ Cut(R, t.node)
  BY <1>7, <1>10 DEF SeenRows
<1>13. AtMove(r, closure, SeenRows(r.save, closure), SeenMap(r.save, parent))
  BY <1>1, <1>3, <1>10, <1>12 DEF AtMove
<1> QED
  BY <1>1, <1>2, <1>9, <1>10, <1>11, <1>13, MoveStep

LEMMA MoveGraftKeeps ==
    ASSUME IInv, NEW w \in Writers, MoveGraft(w)
    PROVE  IInv'
<1> DEFINE t == tx[w]
           R == SeenRows(t.save, closure)
           m == SeenMap(t.save, parent)
           E == R \ Cut(R, t.node)
           said == [pc |-> "grafting", want |-> Grafted(w)]
<1>1. t.pc = "graft" /\ Unchanged /\ Goes(w, said)
  BY DEF MoveGraft
<1>2. t.pc \in Moving /\ "grafting" \in Moving
  BY <1>1 DEF Moving
<1>3. AtMove(t, closure, R, m)
  BY <1>2, Midway
<1>4. /\ SeenRows(t, closure) = E
      /\ \A x \in R, y \in R : x[2] = t.dest /\ y[1] = t.node => x[3] + y[3] + 1 <= MaxDepth
  BY <1>1, <1>3 DEF AtMove
<1>5. View(w) = SeenRows(t, closure) /\ R \subseteq Rows /\ tx \in [Writers -> Txs] /\ Typed(t)
  BY GoodHere
<1>6. Grafted(w) = Joined(E, t.node, t.dest)
  BY <1>4, <1>5 DEF Grafted, Joined
<1>7. Grafted(w) \subseteq Rows
  <2>1. ASSUME NEW x \in E, NEW y \in E, x[2] = t.dest, y[1] = t.node
        PROVE  <<x[1], y[2], x[3] + y[3] + 1>> \in Rows
    <3>1. x \in R /\ y \in R
      OBVIOUS
    <3>2. x \in Nodes \X Nodes \X (0 .. MaxDepth) /\ y \in Nodes \X Nodes \X (0 .. MaxDepth)
      BY <3>1, <1>5 DEF Rows
    <3>3. x[1] \in Nodes /\ y[2] \in Nodes /\ x[3] \in 0 .. MaxDepth /\ y[3] \in 0 .. MaxDepth
      BY <3>2
    <3>4. x[3] + y[3] + 1 <= MaxDepth
      BY <3>1, <2>1, <1>4
    <3>5. x[3] + y[3] + 1 \in 0 .. MaxDepth
      BY <3>3, <3>4, Numbers
    <3> QED
      BY <3>3, <3>5 DEF Rows
  <2> HIDE DEF E
  <2> QED
    BY <2>1, <1>6 DEF Joined
<1>8. DOMAIN said = {"pc", "want"} /\ said.pc = "grafting" /\ said.want = Grafted(w)
  OBVIOUS
<1> HIDE DEF said
<1>9. PICK r : tx' = [tx EXCEPT ![w] = r] /\ Becomes(tx[w], said, r) /\ (Typed(r) => r \in Txs)
  BY <1>1, <1>5, GoesTo
<1>10. /\ r.pc = "grafting" /\ r.want = Grafted(w) /\ r.kind = t.kind /\ r.rows = t.rows
       /\ r.node = t.node /\ r.dest = t.dest /\ r.rem = t.rem /\ r.add = t.add /\ r.par = t.par
       /\ r.save = t.save
  BY <1>8, <1>9 DEF Becomes
<1>11. r \in Txs
  BY <1>2, <1>5, <1>7, <1>9, <1>10 DEF Typed
<1>12. SeenRows(r, closure) = E
  BY <1>4, <1>10 DEF SeenRows
<1>13. AtMove(r, closure, SeenRows(r.save, closure), SeenMap(r.save, parent))
  BY <1>1, <1>3, <1>6, <1>10, <1>12 DEF AtMove
<1> QED
  BY <1>1, <1>2, <1>9, <1>10, <1>11, <1>13, MoveStep

LEMMA MoveGraftedKeeps ==
    ASSUME IInv, NEW w \in Writers, MoveGrafted(w)
    PROVE  IInv'
<1> DEFINE t == tx[w]
           R == SeenRows(t.save, closure)
           m == SeenMap(t.save, parent)
           E == R \ Cut(R, t.node)
           add == t.add \cup t.want
           said == [pc |-> "reparent", want |-> {}, add |-> add]
           taken == \E x \in t.want, y \in View(w) : SameKey(x, y)
<1>1. t.pc = "grafting" /\ Unchanged /\ (IF taken THEN Fail(w) ELSE Goes(w, said))
  BY DEF MoveGrafted
<1>2. t.pc \in Moving /\ "reparent" \in Moving
  BY <1>1 DEF Moving
<1>3. CASE taken
  BY <1>1, <1>2, <1>3, FailKeeps
<1>4. CASE ~taken
  <2>1. Goes(w, said)
    BY <1>1, <1>4
  <2>2. AtMove(t, closure, R, m)
    BY <1>2, Midway
  <2>3. SeenRows(t, closure) = E /\ t.want = Joined(E, t.node, t.dest)
    BY <1>1, <2>2 DEF AtMove
  <2>4. tx \in [Writers -> Txs] /\ Typed(t)
    BY GoodHere
  <2>5. (closure \ t.rem) \cup add = Moved(R, t.node, t.dest)
    BY <2>3 DEF SeenRows, Moved
  <2>6. add \subseteq Rows
    BY <2>4 DEF Typed
  <2>7. DOMAIN said = {"pc", "want", "add"} /\ said.pc = "reparent" /\ said.want = {} /\ said.add = add
    OBVIOUS
  <2> HIDE DEF said, add
  <2>8. PICK r : tx' = [tx EXCEPT ![w] = r] /\ Becomes(tx[w], said, r) /\ (Typed(r) => r \in Txs)
    BY <2>1, <2>4, GoesTo
  <2>9. /\ r.pc = "reparent" /\ r.want = {} /\ r.kind = t.kind /\ r.rows = t.rows
        /\ r.node = t.node /\ r.dest = t.dest /\ r.rem = t.rem /\ r.add = add /\ r.par = t.par
        /\ r.save = t.save
    BY <2>7, <2>8 DEF Becomes
  <2>10. r \in Txs
    BY <1>2, <2>4, <2>6, <2>8, <2>9 DEF Typed
  <2>11. SeenRows(r, closure) = Moved(R, t.node, t.dest)
    BY <2>5, <2>9 DEF SeenRows
  <2>12. AtMove(r, closure, SeenRows(r.save, closure), SeenMap(r.save, parent))
    BY <1>1, <2>2, <2>9, <2>11 DEF AtMove
  <2> QED
    BY <1>1, <1>2, <2>8, <2>9, <2>10, <2>12, MoveStep
<1> QED
  BY <1>3, <1>4

LEMMA MoveReparentKeeps ==
    ASSUME IInv, NEW w \in Writers, MoveReparent(w)
    PROVE  IInv'
<1> DEFINE t == tx[w]
           n == t.node
           p == t.dest
           R == SeenRows(t.save, closure)
           m == SeenMap(t.save, parent)
           par == Over(At(n, p), t.par)
           said == [pc |-> "row", par |-> par]
<1>1. t.pc = "reparent" /\ Unchanged /\ WaitsFor(w) = {}
      /\ (IF p \notin Legal[n] THEN Fail(w) ELSE Goes(w, said))
  BY DEF MoveReparent
<1>2. t.pc \in Moving
  BY <1>1 DEF Moving
<1>3. CASE p \notin Legal[n]
  BY <1>1, <1>2, <1>3, FailKeeps
<1>4. CASE p \in Legal[n]
  <2>1. Goes(w, said)
    BY <1>1, <1>4
  <2>2. /\ AtMove(t, closure, R, m) /\ Saved(t, R, m) /\ Steady(t)
        /\ n \in Nodes /\ p \in Nodes
    BY <1>2, Midway
  <2>3. /\ tx \in [Writers -> Txs] /\ Typed(t) /\ begun \in 0 .. MaxTx /\ parent \in Maps
        /\ t.par \in Patches
    BY GoodHere DEF Typed
  <2>4. /\ t.par = t.save.par /\ m[n] # Absent /\ ~Inside(R, n, p)
        /\ SeenRows(t, closure) = Moved(R, n, p)
    BY <1>1, <2>2 DEF AtMove
  <2>5. Mirrors(R, m) /\ m[p] # Absent
    BY <2>2 DEF Saved
  <2>6. Mirrors(Moved(R, n, p), [m EXCEPT ![n] = p])
    BY <2>2, <2>4, <2>5, MoveKeeps
  <2>7. par \in Patches /\ DOMAIN par # {} /\ Over(par, parent) = [m EXCEPT ![n] = p]
    <3> DEFINE s == t.par
    <3>1. s \in Patches /\ n \in Nodes /\ p \in Nodes /\ parent \in Maps
      BY <2>2, <2>3
    <3>2. m = Over(s, parent)
      BY <2>4 DEF SeenMap
    <3> HIDE DEF n, p, t, s, m
    <3>3. Over(At(n, p), s) \in Patches /\ DOMAIN Over(At(n, p), s) = DOMAIN s \cup {n}
      BY <3>1, OverAt
    <3>4. Patched(s, parent, n, p)
      BY <3>1, OverAt
    <3> QED
      BY <3>2, <3>3, <3>4 DEF s, Patched
  <2>8. DOMAIN said = {"pc", "par"} /\ said.pc = "row" /\ said.par = par
    OBVIOUS
  <2> HIDE DEF said, par
  <2>9. PICK r : tx' = [tx EXCEPT ![w] = r] /\ Becomes(tx[w], said, r) /\ (Typed(r) => r \in Txs)
    BY <2>1, <2>3, GoesTo
  <2>10. /\ r.pc = "row" /\ r.par = par /\ r.kind = t.kind /\ r.rows = t.rows /\ r.node = n
         /\ r.dest = p /\ r.want = t.want /\ r.rem = t.rem /\ r.add = t.add /\ r.save = t.save
    BY <2>8, <2>9 DEF Becomes
  <2>11. r \in Txs
    BY <2>3, <2>7, <2>9, <2>10 DEF Typed
  <2>12. Resting(r, closure, parent)
    BY <2>4, <2>6, <2>7, <2>10 DEF Resting, SeenRows, SeenMap
  <2>s. Steady(r)
    <3> HIDE DEF t
    <3> QED
      BY <2>2, <2>7, <2>10 DEF Steady
  <2>13. Good(r, closure, parent)
    BY <2>s, <2>10, <2>12 DEF Good, Adding, Moving
  <2>14. \A q \in Writers : q # w => DOMAIN tx[q].par = {}
    BY <1>1 DEF WaitsFor
  <2>15. begun' \in 0 .. MaxTx
    BY <1>1, <2>3 DEF Unchanged
  <2> QED
    BY <1>1, <2>9, <2>11, <2>13, <2>14, <2>15, OneWriter DEF Unchanged
<1> QED
  BY <1>3, <1>4

LEMMA DeadlockKeeps ==
    ASSUME IInv, NEW w \in Writers, Deadlock(w)
    PROVE  IInv'
<1>1. tx[w].pc \in {"severing", "grafting", "insert", "reparent"}
  BY DEF Deadlock, WaitsFor
<1> QED
  BY <1>1, FailKeeps DEF Deadlock, Adding, Moving

LEMMA LoseKeeps ==
    ASSUME IInv, NEW w \in Writers, Lose(w)
    PROVE  IInv'
  BY RollbackKeeps DEF Lose

(* A place that keeps its parent, as do all above it, keeps its rows.      *)
LEMMA RowsKept ==
    ASSUME NEW C, NEW up, NEW D, NEW v, Mirrors(C, up), Mirrors(D, v),
           \A n \in Nodes : up[n] # Absent => v[n] = up[n]
    PROVE  \A k \in Nat : \A a \in Nodes, n \in Nodes :
             up[n] # Absent /\ <<a, n, k>> \in D => <<a, n, k>> \in C
<1> DEFINE S == {k \in Nat : \A a \in Nodes, n \in Nodes :
                   up[n] # Absent /\ <<a, n, k>> \in D => <<a, n, k>> \in C}
<1>1. 0 \in S
  BY DEF Mirrors, Selves
<1>2. ASSUME NEW k \in Nat, k \in S PROVE k + 1 \in S
  <2> SUFFICES ASSUME NEW a \in Nodes, NEW n \in Nodes, up[n] # Absent, <<a, n, k + 1>> \in D
               PROVE  <<a, n, k + 1>> \in C
    OBVIOUS
  <2>1. v[n] \in Nodes /\ <<a, v[n], k>> \in D
    BY DEF Mirrors, Above
  <2>2. up[n] \in Nodes /\ <<a, up[n], k>> \in D
    BY <2>1
  <2>3. up[up[n]] # Absent
    BY <2>2 DEF Mirrors, Rooted
  <2>4. <<a, up[n], k>> \in C
    BY <2>2, <2>3, <1>2
  <2> QED
    BY <2>2, <2>4 DEF Mirrors, Above
<1> HIDE DEF S
<1>3. Nat \subseteq S
  BY <1>1, <1>2, Induct
<1> QED
  BY <1>3 DEF S

(* What a commit of another writer leaves of a row that has not begun to   *)
(* write, and that the commit does not overtake.                           *)
Early == {"idle", "row", "measure", "probe", "insert", "weigh"}
Keeping(up, v) == \A n \in Nodes : up[n] # Absent => v[n] = up[n]

LEMMA BystanderKeeps ==
    ASSUME NEW t, NEW C, NEW up, NEW D, NEW v,
           Typed(t), up \in Maps, v \in Maps, D \subseteq Nodes \X Nodes \X Nat,
           Good(t, C, up), DOMAIN t.par = {}, Mirrors(C, up), Mirrors(D, v),
           \A n \in Nodes : up[n] # Absent => v[n] # Absent,
           t.pc \in Early, t.pc \in {"insert", "weigh"} => Keeping(up, v)
    PROVE  Good(t, D, v)
<1>1. /\ t.pc \in Adding => t.pc \in {"measure", "insert"}
      /\ t.pc \in Moving => t.pc \in {"probe", "weigh"}
      /\ t.par \in Patches /\ t.save.par \in Patches /\ Steady(t)
  BY DEF Good, Typed, Saves, Early, Adding, Moving
<1>2. ASSUME t.pc \in Adding \cup Moving
      PROVE  t.save.rem = {} /\ t.save.add = {} /\ DOMAIN t.save.par = {} /\ Untouched(t)
  <2>1. Untouched(t)
    BY <1>1, <1>2 DEF Good, AtAdd, AtMove
  <2> QED
    BY <1>1, <2>1 DEF Untouched, Steady
<1>3. ASSUME NEW s \in Patches, DOMAIN s = {}, NEW f \in Maps PROVE Over(s, f) = f
  BY <1>3, OverFacts
<1>4. ASSUME t.pc = "row" PROVE Resting(t, D, v)
  <2>1. t.rem = {} /\ t.add = {}
    BY <1>1, <1>4 DEF Steady
  <2>2. SeenRows(t, D) = D /\ SeenMap(t, v) = v
    BY <1>1, <1>3, <2>1 DEF SeenRows, SeenMap
  <2> QED
    BY <2>2 DEF Resting
<1>5. ASSUME t.pc \in Adding \cup Moving
      PROVE  /\ SeenRows(t.save, D) = D /\ SeenRows(t.save, C) = C
             /\ SeenMap(t.save, v) = v /\ SeenMap(t.save, up) = up
             /\ Saved(t, C, up) /\ Saved(t, D, v)
             /\ t.node \in Nodes /\ t.dest \in Nodes /\ up[t.dest] # Absent
  <2>1. /\ SeenRows(t.save, D) = D /\ SeenRows(t.save, C) = C
        /\ SeenMap(t.save, v) = v /\ SeenMap(t.save, up) = up
    BY <1>1, <1>2, <1>3, <1>5 DEF SeenRows, SeenMap
  <2>2. Saved(t, C, up)
    BY <1>5, <2>1 DEF Good
  <2> QED
    BY <2>1, <2>2 DEF Saved
<1>6. ASSUME Keeping(up, v), t.pc \in Adding \cup Moving
      PROVE  \A a \in Nodes, k \in Nat : <<a, t.dest, k>> \in D => <<a, t.dest, k>> \in C
  BY <1>5, <1>6, RowsKept DEF Keeping
<1>7. ASSUME t.pc \in Adding PROVE AtAdd(t, D, v)
  <2>1. AtAdd(t, C, up)
    BY <1>5, <1>7 DEF Good
  <2>2. ASSUME NEW r \in D, r[2] = t.dest, t.pc # "measure" PROVE r[3] + 1 <= MaxDepth
    <3>1. PICK a \in Nodes, n \in Nodes, k \in Nat : r = <<a, n, k>>
      OBVIOUS
    <3>2. n = t.dest /\ r[3] = k
      BY <3>1, <2>2
    <3>3. Keeping(up, v)
      BY <1>1, <1>7, <2>2
    <3>4. r \in C
      BY <3>1, <3>2, <3>3, <1>6, <1>7
    <3> QED
      BY <3>4, <2>1, <2>2 DEF AtAdd
  <2> QED
    BY <1>1, <1>7, <2>1, <2>2 DEF AtAdd
<1>8. ASSUME t.pc \in Moving PROVE AtMove(t, D, D, v)
  <2>1. AtMove(t, C, C, up)
    BY <1>5, <1>8 DEF Good
  <2>2. t.par = t.save.par /\ up[t.node] # Absent /\ v[t.node] # Absent /\ Untouched(t)
    BY <1>1, <1>5, <1>8, <2>1 DEF AtMove
  <2>3. ASSUME t.pc # "probe" PROVE ~Inside(D, t.node, t.dest)
    <3>1. ~Inside(C, t.node, t.dest) /\ Keeping(up, v)
      BY <1>1, <1>8, <2>1, <2>3 DEF AtMove
    <3> QED
      BY <3>1, <1>5, <1>6, <1>8 DEF Inside
  <2> QED
    BY <1>1, <1>8, <2>2, <2>3 DEF AtMove
<1>9. t.pc = "idle" => t = Idle
  BY DEF Good
<1> QED
  BY <1>1, <1>4, <1>5, <1>7, <1>8, <1>9 DEF Good

LEMMA CommitKeeps ==
    ASSUME IInv, NoOvertaking, NEW w \in Writers, Commit(w)
    PROVE  IInv'
<1> DEFINE t == tx[w]
<1>1. /\ t.pc = "row" /\ parent' = Over(t.par, parent) /\ closure' = View(w)
      /\ duty' = duty /\ begun' = begun
      /\ tx' = [q \in Writers |-> IF q = w THEN Idle
                                  ELSE IF tx[q].pc = "severing"
                                  THEN [tx[q] EXCEPT !.want = @ \ t.rem]
                                  ELSE tx[q]]
  BY DEF Commit
<1>2. /\ tx \in [Writers -> Txs] /\ Typed(t) /\ parent \in Maps /\ closure \subseteq Rows
      /\ Good(t, closure, parent) /\ View(w) = SeenRows(t, closure) /\ View(w) \subseteq Rows
      /\ t.par \in Patches
  BY GoodHere DEF Typed
<1>3. Shape /\ OneHolder /\ Mirrors(closure, parent)
      /\ \A q \in Writers : Good(tx[q], closure, parent)
  BY DEF IInv
<1>4. ASSUME DOMAIN t.par = {} PROVE t.rem = {} /\ parent' = parent /\ closure' = closure
  <2>1. t.rem = {} /\ t.add = {}
    BY <1>1, <1>2, <1>4 DEF Good, Steady
  <2> QED
    BY <2>1, <1>1, <1>2, <1>4, OverFacts DEF SeenRows
<1>5. ASSUME NEW q \in Writers, q # w, DOMAIN t.par # {}
      PROVE  /\ DOMAIN tx[q].par = {} /\ tx[q].pc \in Early
             /\ tx[q].pc \in {"insert", "weigh"} => OnlyAdds(w)
  <2>1. DOMAIN tx[q].par = {}
    BY <1>3, <1>5 DEF OneHolder
  <2>2. ~Overtakes(w, q)
    BY <1>5 DEF NoOvertaking
  <2>3. tx[q].pc # "close"
    <3> SUFFICES ASSUME tx[q].pc = "close" PROVE FALSE
      OBVIOUS
    <3> DEFINE u == tx[q]
    <3>1. /\ u.par = Over(At(u.node, u.dest), u.save.par)
          /\ u.node \in Nodes /\ u.dest \in Nodes /\ u.save.par \in Patches
      BY Midway, GoodHere DEF AtAdd, Adding
    <3> HIDE DEF u
    <3>2. DOMAIN Over(At(u.node, u.dest), u.save.par) = DOMAIN u.save.par \cup {u.node}
      BY <3>1, <1>2, OverAt
    <3> QED
      BY <3>1, <3>2, <2>1 DEF u
  <2>4. tx[q].pc \in {"idle", "row"} \cup Adding \cup Moving
    BY GoodHere DEF Typed
  <2> QED
    BY <1>5, <2>1, <2>2, <2>3, <2>4 DEF Overtakes, Early, Adding, Moving
<1>6. ASSUME NEW q \in Writers, q # w PROVE tx'[q] = tx[q]
  <2>1. CASE tx[q].pc = "severing"
    <3>1. t.rem = {}
      BY <1>4, <1>5, <1>6, <2>1 DEF Early
    <3>2. tx'[q] = [tx[q] EXCEPT !.want = @ \ t.rem] /\ tx[q] \in Txs
      BY <1>1, <1>2, <1>6, <2>1
    <3>3. tx[q].want \ t.rem = tx[q].want
      BY <3>1
    <3> QED
      BY <3>2, <3>3 DEF Txs
  <2> QED
    BY <2>1, <1>1, <1>6
<1>7. tx'[w] = Idle
  BY <1>1
<1>8. tx' \in [Writers -> Txs]
  <2>1. tx' = [q \in Writers |-> tx'[q]]
    BY <1>1
  <2>2. \A q \in Writers : tx'[q] \in Txs
    BY <1>2, <1>6, <1>7, IdleFacts
  <2> QED
    BY <2>1, <2>2
<1>9. parent' \in Maps /\ closure' \subseteq Rows
  BY <1>1, <1>2, OverFacts
<1>10. Mirrors(closure', parent')
  BY <1>1, <1>2 DEF Good, Resting, SeenMap
<1>11. Shape'
  BY <1>1, <1>3, <1>8, <1>9 DEF Shape
<1>12. OneHolder'
  BY <1>3, <1>6, <1>7, IdleFacts DEF OneHolder
<1>13. \A n \in Nodes : parent'[n] = IF n \in DOMAIN t.par THEN t.par[n] ELSE parent[n]
  BY <1>1, <1>2, OverFacts
<1>14. \A n \in DOMAIN t.par : t.par[n] \in Nodes /\ t.par[n] # Absent
  BY <1>2, TreeAssumption DEF Patches
<1>15. \A n \in Nodes : parent[n] # Absent => parent'[n] # Absent
  BY <1>13, <1>14
<1>16. OnlyAdds(w) => Keeping(parent, parent')
  BY <1>13 DEF OnlyAdds, Keeping
<1>17. ASSUME NEW q \in Writers, q # w PROVE Good(tx[q], closure', parent')
  <2>1. CASE DOMAIN t.par = {}
    BY <2>1, <1>3, <1>4
  <2>2. CASE DOMAIN t.par # {}
    <3>1. Typed(tx[q]) /\ Good(tx[q], closure, parent)
      BY GoodHere
    <3>2. closure' \subseteq Nodes \X Nodes \X Nat
      BY <1>9, Numbers
    <3>3. /\ DOMAIN tx[q].par = {} /\ tx[q].pc \in Early
          /\ tx[q].pc \in {"insert", "weigh"} => Keeping(parent, parent')
      BY <1>5, <1>16, <1>17, <2>2
    <3> QED
      BY <3>1, <3>2, <3>3, <1>2, <1>3, <1>9, <1>10, <1>15, BystanderKeeps
  <2> QED
    BY <2>1, <2>2
<1>18. \A q \in Writers : Good(tx'[q], closure', parent')
  BY <1>6, <1>7, <1>17, IdleIsGood
<1> QED
  BY <1>10, <1>11, <1>12, <1>18 DEF IInv

-----------------------------------------------------------------------------
(* The results.                                                            *)

LEMMA InitHolds == Init => IInv
<1> SUFFICES ASSUME Init PROVE IInv
  OBVIOUS
<1>1. /\ parent \in Trees /\ closure = Paths(parent) /\ duty \in Duties
      /\ tx = [w \in Writers |-> Idle] /\ begun = 0
  BY DEF Init
<1>2. parent \in Maps
  BY <1>1, WritersAssumption DEF Maps
<1>3. /\ \A n \in Nodes : parent[n] \in Nodes => Known(parent, parent[n])
      /\ \A n \in Nodes : n \notin Ascent(parent, n)
      /\ \A r \in Paths(parent) : r[3] <= MaxDepth
  BY <1>1, TreesAssumption
<1>4. Rooted(parent)
  BY <1>3 DEF Rooted, Known
<1>5. Mirrors(closure, parent)
  BY <1>1, <1>2, <1>3, <1>4, ForestMirrored
<1>6. closure \subseteq Rows
  <2> SUFFICES ASSUME NEW r \in closure PROVE r \in Rows
    OBVIOUS
  <2>1. r \in Nodes \X Nodes \X Nat
    BY <1>5 DEF Mirrors
  <2>2. PICK a \in Nodes, n \in Nodes, k \in Nat : r = <<a, n, k>>
    BY <2>1
  <2>3. k <= MaxDepth
    BY <2>2, <1>1, <1>3
  <2>4. k \in 0 .. MaxDepth
    BY <2>3, Numbers
  <2> QED
    BY <2>2, <2>4 DEF Rows
<1>7. Shape
  BY <1>1, <1>2, <1>6, IdleFacts, Numbers DEF Shape
<1>8. \A w \in Writers : tx[w] = Idle
  BY <1>1
<1>9. OneHolder
  BY <1>8, IdleFacts DEF OneHolder
<1>10. \A w \in Writers : Good(tx[w], closure, parent)
  BY <1>8, IdleIsGood
<1> QED
  BY <1>5, <1>7, <1>9, <1>10 DEF IInv

LEMMA NextKeeps == IInv /\ [Next]_vars /\ [NoOvertaking]_vars => IInv'
<1> SUFFICES ASSUME IInv, [Next]_vars, [NoOvertaking]_vars PROVE IInv'
  OBVIOUS
<1>1. CASE UNCHANGED vars
  BY <1>1 DEF vars, IInv, Shape, OneHolder
<1>2. ASSUME NEW w \in Writers, NEW kind \in Kinds, Begin(w, kind) PROVE IInv'
  BY <1>2, BeginKeeps
<1>3. ASSUME NEW w \in Writers, NEW n \in Nodes, NEW p \in Nodes, Row(w, n, p) PROVE IInv'
  BY <1>3, RowKeeps
<1>4. ASSUME NEW w \in Writers, Commit(w) \/ Lose(w) \/ Deadlock(w), NoOvertaking PROVE IInv'
  BY <1>4, CommitKeeps, LoseKeeps, DeadlockKeeps
<1>5. ASSUME NEW w \in Writers, AddMeasure(w) \/ AddInsert(w) \/ AddClose(w) PROVE IInv'
  BY <1>5, AddMeasureKeeps, AddInsertKeeps, AddCloseKeeps
<1>6. ASSUME NEW w \in Writers, MoveProbe(w) \/ MoveWeigh(w) \/ MoveSever(w) \/ MoveSevered(w)
      PROVE  IInv'
  BY <1>6, MoveProbeKeeps, MoveWeighKeeps, MoveSeverKeeps, MoveSeveredKeeps
<1>7. ASSUME NEW w \in Writers, MoveGraft(w) \/ MoveGrafted(w) \/ MoveReparent(w) PROVE IInv'
  BY <1>7, MoveGraftKeeps, MoveGraftedKeeps, MoveReparentKeeps
<1> QED
  BY <1>1, <1>2, <1>3, <1>4, <1>5, <1>6, <1>7 DEF Next

(* Whatever the writers add and move, at the same time too: as long as no  *)
(* commit overtakes a row in flight, the tables stay each other's mirror,  *)
(* committed and as every transaction sees them between two rows, and a    *)
(* savepoint is a state to go back to.  So the overtaking commit is the    *)
(* one way scope_add_node and scope_move_node have of parting the tables.  *)
THEOREM InvariantHolds == Spec => ([][NoOvertaking]_vars => []IInv)
  BY InitHolds, NextKeeps, PTL DEF Spec

(* The columns hold what they may: a depth fits scope_max_depth(),         *)
(* whatever is added or grafted where, in a transaction too, until a       *)
(* commit overtakes a row in flight.                                       *)
THEOREM TypeCorrect == Spec => ([][NoOvertaking]_vars => []TypeOK)
<1>1. IInv => TypeOK
  <2> SUFFICES ASSUME IInv PROVE TypeOK
    OBVIOUS
  <2>1. Shape
    BY DEF IInv
  <2>2. ASSUME NEW w \in Writers
        PROVE  /\ tx[w].pc \in {"idle", "row"} \cup Adding \cup Moving
               /\ tx[w].kind \in Kinds \cup {"admin"} /\ tx[w].rows \in 0 .. MaxRows + 1
               /\ tx[w].add \subseteq Rows /\ DOMAIN tx[w].par \subseteq Nodes
    BY GoodHere, OverFacts DEF Typed
  <2> QED
    BY <2>1, <2>2 DEF TypeOK, Shape, Rows, Maps, Adding, Moving
<1> QED
  BY <1>1, InvariantHolds, PTL

(* scope_closure is the reading of parent_id, at the right distances,      *)
(* whatever scope_add_node and scope_move_node did and however often a row *)
(* of a feed failed half way: it is wrong only after a commit that         *)
(* overtook a row in flight, as the one of run ScopeMoves does.            *)
THEOREM ClosureIsTheTree == Spec => ([][NoOvertaking]_vars => []ClosureMatchesTree)
<1>1. IInv => ClosureMatchesTree
  BY MirrorsPaths DEF IInv, ClosureMatchesTree
<1> QED
  BY <1>1, InvariantHolds, PTL

(* The gate's Evaluate over a snapshot of the tree and the database's      *)
(* authorize() over the closure allow the same requests, until a commit    *)
(* overtakes a row in flight.                                              *)
THEOREM EnginesAlike == Spec => ([][NoOvertaking]_vars => []EnginesAgree)
<1>1. IInv => EnginesAgree
  BY MirrorsAgree DEF IInv
<1> QED
  BY <1>1, InvariantHolds, PTL

(* GrantedNodes lists the places where Evaluate allows, and SwitchScope's  *)
(* Reaches refuses none of them, until a commit overtakes a row in flight. *)
THEOREM AnswersAlike == Spec => ([][NoOvertaking]_vars => []AnswersAgree)
<1>1. IInv => AnswersAgree
  BY MirrorsAgree DEF IInv
<1> QED
  BY <1>1, InvariantHolds, PTL

=============================================================================
