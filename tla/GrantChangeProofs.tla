------------------------- MODULE GrantChangeProofs --------------------------
(***************************************************************************)
(* What GrantChange guarantees for any number of administrators and grants *)
(* and any cap: the transactions of several statements implement the       *)
(* ledger, in which a change happens at one moment, and nobody a change is *)
(* for is left out of it.                                                  *)
(***************************************************************************)
EXTENDS GrantChange, AuthorizeProofs, SequenceTheorems, TLAPS

-----------------------------------------------------------------------------
(* The inductive invariant.                                                *)

Good == {st \in States : Writable(st)}
Items == UNION {[G -> [before : Good, after : States]] : G \in SUBSET Grants}
Entries == [spec : Specs, items : Items, undone : BOOLEAN]
Calls == [pc : {"rest", "choose", "lock", "write", "change", "restore"}, kind : {"preview", "apply", "undo"},
          spec : Specs \cup {NoNode}, id : Nat, began : Nat, seen : SUBSET Grants, want : SUBSET Grants,
          cands : SUBSET Grants, items : Items \cup {<<>>}]

Shape ==
    /\ scene \in DOMAIN Scenes
    /\ grants \in UNION {[G -> Good] : G \in SUBSET Grants}
    /\ changes \in Seq(Entries)
    /\ deny \in BOOLEAN
    /\ lock \in [Rows -> Admins \cup {Nobody}]
    /\ call \in [Admins -> Calls]
    /\ calls \in Nat /\ now \in Nat

(* Every recorded change took a call, so its number is that of a row.      *)
Busy == {p \in Admins : call[p].pc # "rest"}
Counted == IsFiniteSet(Busy) /\ Len(changes) + Cardinality(Busy) <= calls /\ calls <= Here.calls

(* What a change recorded of a grant is what it does.                      *)
IsDone(s, g, it) == Altered(s, g, it.before, deny) /\ it.after = After(s, it.before, deny) /\ Writable(it.after)

Recorded ==
    \A i \in DOMAIN changes :
        /\ DOMAIN changes[i].items \subseteq DOMAIN grants
        /\ \A g \in DOMAIN changes[i].items : IsDone(changes[i].spec, g, changes[i].items[g])

(* What a transaction has found out stays true of the rows it has locked.  *)
Locking(p) ==
    LET c == call[p] IN
    /\ c.spec \in Here.changes /\ c.seen \subseteq DOMAIN grants
    /\ c.want \subseteq c.seen /\ c.cands \subseteq c.seen \ c.want
    /\ \A g \in c.seen \ c.want : lock[g] = p /\ (g \in c.cands <=> LiveAt(grants[g], c.began))

Hit(c, g) == LiveAt(grants[g], c.began) /\ Altered(c.spec, g, grants[g], deny)

Writing(p) ==
    LET c == call[p] IN
    /\ c.spec \in Here.changes /\ c.seen \subseteq DOMAIN grants
    /\ DOMAIN c.items \subseteq c.seen /\ DOMAIN c.items # {}
    /\ c.items = [g \in DOMAIN c.items |-> [before |-> grants[g], after |-> After(c.spec, grants[g], deny)]]
    /\ \A g \in c.seen : lock[g] = p /\ (g \in DOMAIN c.items <=> Hit(c, g))

Undoing(p) ==
    LET c == call[p]
        items == changes[c.id].items
    IN  /\ c.id \in DOMAIN changes /\ lock[c.id] = p /\ ~changes[c.id].undone
        /\ c.want \subseteq DOMAIN items
        /\ \A g \in DOMAIN items \ c.want : lock[g] = p

Restoring(p) ==
    LET c == call[p]
        items == changes[c.id].items
    IN  /\ c.id \in DOMAIN changes /\ lock[c.id] = p /\ ~changes[c.id].undone
        /\ c.items = items
        /\ \A g \in DOMAIN items : lock[g] = p /\ grants[g] = items[g].after

Doing(p) ==
    LET c == call[p] IN
    /\ c.pc = "rest" => c = Rest
    /\ c.pc = "choose" => c.kind # "undo" /\ c.spec \in Here.changes /\ c.cands = {}
    /\ c.pc = "lock" /\ c.kind # "undo" => Locking(p)
    /\ c.pc = "write" => Writing(p)
    /\ c.pc = "change" => c.kind = "undo" /\ c.id \in DOMAIN changes
    /\ c.pc = "lock" /\ c.kind = "undo" => Undoing(p)
    /\ c.pc = "restore" => Restoring(p)

IInv == Shape /\ Counted /\ Recorded /\ \A p \in Admins : Doing(p)

-----------------------------------------------------------------------------
(* Types.                                                                  *)

LEMMA SceneFacts ==
    ASSUME Shape
    PROVE  /\ Here.changes \subseteq Specs /\ Here.fresh \subseteq States /\ Here.admins \subseteq Admins
           /\ Here.calls \in Nat /\ Here.until \in Nat /\ Nobody \notin Admins
           /\ Grants \subseteq Rows /\ 1 .. Here.calls \subseteq Rows
<1>1. scene \in DOMAIN Scenes
  BY DEF Shape
<1>2. /\ Here.changes \subseteq Specs /\ Here.fresh \subseteq States /\ Here.admins \subseteq Admins
      /\ Here.calls \in Nat /\ Here.until \in Nat
  BY <1>1, ChangeAssumption DEF Here
<1> QED
  BY <1>2, ChangeAssumption DEF Rows

LEMMA GrantFacts ==
    ASSUME Shape
    PROVE  /\ DOMAIN grants \subseteq Grants /\ grants \in [DOMAIN grants -> Good]
           /\ \A g \in DOMAIN grants : grants[g] \in Good /\ grants[g] \in States /\ Writable(grants[g])
<1>1. PICK G \in SUBSET Grants : grants \in [G -> Good]
  BY DEF Shape
<1>2. DOMAIN grants = G
  BY <1>1
<1> QED
  BY <1>1, <1>2 DEF Good

LEMMA ItemFacts ==
    ASSUME NEW it \in Items
    PROVE  /\ DOMAIN it \subseteq Grants /\ it \in [DOMAIN it -> [before : Good, after : States]]
           /\ \A g \in DOMAIN it : /\ it[g] \in [before : Good, after : States]
                                   /\ it[g].before \in Good /\ it[g].after \in States
<1>1. PICK G \in SUBSET Grants : it \in [G -> [before : Good, after : States]]
  BY DEF Items
<1>2. DOMAIN it = G
  BY <1>1
<1> QED
  BY <1>1, <1>2

LEMMA ChangeFacts ==
    ASSUME Shape
    PROVE  /\ Len(changes) \in Nat /\ DOMAIN changes = 1 .. Len(changes)
           /\ \A i \in DOMAIN changes :
                /\ changes[i] \in Entries /\ changes[i].spec \in Specs /\ changes[i].items \in Items
                /\ changes[i].undone \in BOOLEAN
<1>1. changes \in Seq(Entries)
  BY DEF Shape
<1>2. Len(changes) \in Nat /\ DOMAIN changes = 1 .. Len(changes) /\ \A i \in DOMAIN changes : changes[i] \in Entries
  BY <1>1
<1> QED
  BY <1>2 DEF Entries

LEMMA CallFacts ==
    ASSUME Shape, NEW p \in Admins
    PROVE  /\ call[p] \in Calls
           /\ call[p].pc \in {"rest", "choose", "lock", "write", "change", "restore"}
           /\ call[p].kind \in {"preview", "apply", "undo"} /\ call[p].spec \in Specs \cup {NoNode}
           /\ call[p].id \in Nat /\ call[p].began \in Nat /\ call[p].seen \subseteq Grants
           /\ call[p].want \subseteq Grants /\ call[p].cands \subseteq Grants
           /\ call[p].items \in Items \cup {<<>>}
<1>1. call[p] \in Calls
  BY DEF Shape
<1> QED
  BY <1>1 DEF Calls

LEMMA RestFacts ==
    /\ Rest \in Calls /\ Rest.pc = "rest" /\ Rest.kind = "preview" /\ Rest.spec = NoNode /\ Rest.id = 0
    /\ Rest.began = 0 /\ Rest.seen = {} /\ Rest.want = {} /\ Rest.cands = {} /\ Rest.items = <<>>
  BY DEF Rest, Calls

(* A change leaves a state a state.                                        *)
LEMMA AfterTypes ==
    ASSUME NEW s \in Specs, NEW st \in States, NEW d \in BOOLEAN
    PROVE  After(s, st, d) \in States
<1>1. /\ s.kind \in PlaceKinds \cup {"set_until", "revoke"} /\ s.inherit \in BOOLEAN /\ s.until \in Nat
      /\ s.node \in Nodes \cup {NoNode} /\ s.to \in Nodes \cup {NoNode}
      /\ s.kind \in {"add_place", "remove_place", "swap_place"} => s.node \in Nodes
      /\ s.kind = "swap_place" => s.to \in Nodes
  BY DEF Specs
<1>2. ASSUME NEW ps \in SUBSET st.pins PROVE Keeping(st, ps) \in States
  BY DEF States, Keeping
<1>3. ASSUME NEW u \in States, NEW n \in Nodes, NEW i \in BOOLEAN PROVE With(u, n, i) \in States
  <2>1. Pin(n, i) \in Constraints
    BY DEF Pin, Constraints
  <2> DEFINE ps == u.pins \cup {Pin(n, i)}
  <2>2. ps \in SUBSET Constraints
    BY <2>1 DEF States
  <2>3. With(u, n, i) = [u EXCEPT !.pins = ps]
    BY DEF With
  <2> HIDE DEF ps
  <2> QED
    BY <2>2, <2>3 DEF States
<1>4. ASSUME s.kind = "add_place" PROVE After(s, st, d) \in States
  <2>1. After(s, st, d) = With(Keeping(st, {p \in st.pins : p.node # s.node}), s.node, s.inherit)
    BY <1>4 DEF After
  <2> QED
    BY <1>1, <1>2, <1>3, <1>4, <2>1
<1>5. ASSUME s.kind = "remove_place" PROVE After(s, st, d) \in States
  <2>1. After(s, st, d) = Keeping(st, {p \in st.pins : p.node # s.node \/ p.exclude})
    BY <1>5 DEF After
  <2> QED
    BY <1>2, <2>1
<1>6. ASSUME s.kind = "swap_place" PROVE After(s, st, d) \in States
  <2>1. After(s, st, d) = With(Keeping(st, {p \in st.pins : p.node # s.to /\ (p.node # s.node \/ p.exclude)}),
                               s.to, s.inherit)
    BY <1>6 DEF After
  <2> QED
    BY <1>1, <1>2, <1>3, <1>6, <2>1
<1>7. ASSUME s.kind = "grow" PROVE After(s, st, d) \in States
  <2>1. After(s, st, d) = Grow(s, st, d)
    BY <1>7 DEF After
  <2> QED
    <3>1. CASE s.node # NoNode
      <4>1. Grow(s, st, d)
              = With(Keeping(st, {p \in st.pins : p.exclude \/ p.node \notin Below(s.node) \cup {s.node}}), s.node, TRUE)
        BY <3>1 DEF Grow
      <4> QED
        BY <1>1, <1>2, <1>3, <2>1, <3>1, <4>1
    <3>2. CASE s.node = NoNode /\ (d \/ HasExcludes(st))
      <4>1. Grow(s, st, d) = With(Keeping(st, {p \in st.pins : p.exclude}), RootNode, TRUE)
        BY <3>2 DEF Grow
      <4> QED
        BY <1>2, <1>3, <2>1, <4>1, PlanAssumption
    <3>3. CASE s.node = NoNode /\ ~(d \/ HasExcludes(st))
      <4>1. Grow(s, st, d) = Keeping(st, {})
        BY <3>3 DEF Grow
      <4> QED
        BY <1>2, <2>1, <4>1
    <3> QED
      BY <3>1, <3>2, <3>3
<1>8. ASSUME s.kind = "set_until" PROVE After(s, st, d) \in States
  <2>1. After(s, st, d) = [st EXCEPT !.until = s.until]
    BY <1>8 DEF After
  <2> QED
    BY <1>1, <2>1 DEF States
<1>9. ASSUME s.kind = "revoke" PROVE After(s, st, d) \in States
  <2>1. After(s, st, d) = [st EXCEPT !.revoked = TRUE]
    BY <1>9 DEF After
  <2> QED
    BY <2>1 DEF States
<1> QED
  BY <1>1, <1>4, <1>5, <1>6, <1>7, <1>8, <1>9 DEF PlaceKinds

(* The next row of a nonempty set is one of it: the usernames' order has a  *)
(* least element.                                                          *)
LEMMA ForemostFacts ==
    ASSUME NEW gs \in SUBSET Grants, gs # {}
    PROVE  Foremost(gs) \in gs
<1> DEFINE ranks == {Rank[g] : g \in gs}
<1>1. ranks \in SUBSET Nat /\ ranks # {}
  BY ChangeAssumption
<1>2. PICK n \in ranks : \A m \in ranks : n <= m
  <2> HIDE DEF ranks
  <2> QED
    BY <1>1, LeastNat
<1>3. \E g \in gs : \A h \in gs : Rank[g] <= Rank[h]
  BY <1>2
<1> QED
  BY <1>3 DEF Foremost

-----------------------------------------------------------------------------
(* What one transaction does to the others.                                *)

LEMMA RowFacts ==
    ASSUME IInv
    PROVE  /\ Shape /\ DOMAIN grants \subseteq Rows /\ DOMAIN changes \subseteq Rows
           /\ \A i \in DOMAIN changes : DOMAIN changes[i].items \subseteq DOMAIN grants
<1>1. Shape /\ Recorded /\ Counted
  BY DEF IInv
<1>2. Len(changes) <= Here.calls
  BY <1>1, ChangeFacts, SceneFacts, FS_CardinalityType DEF Counted, Shape
<1>3. DOMAIN changes \subseteq 1 .. Here.calls
  BY <1>1, <1>2, ChangeFacts, SceneFacts
<1> QED
  BY <1>1, <1>3, SceneFacts, GrantFacts DEF Recorded

(* The rows q has locked are left alone.                                   *)
Spares(q) ==
    /\ scene' = scene /\ deny' = deny
    /\ \A r \in Rows : lock[r] = q => lock'[r] = q
    /\ \A g \in DOMAIN grants : g \in DOMAIN grants' /\ (lock[g] = q => grants'[g] = grants[g])
    /\ \A i \in DOMAIN changes :
          i \in DOMAIN changes' /\ changes'[i].items = changes[i].items /\ (lock[i] = q => changes'[i] = changes[i])

LEMMA Bystander ==
    ASSUME IInv, NEW q \in Admins, Spares(q), call'[q] = call[q]
    PROVE  Doing(q)'
<1>0. /\ Doing(q) /\ Here' = Here /\ deny' = deny
      /\ \A g \in DOMAIN grants : g \in Rows /\ g \in DOMAIN grants'
      /\ \A i \in DOMAIN changes : i \in Rows /\ i \in DOMAIN changes' /\ changes'[i].items = changes[i].items
      /\ \A i \in DOMAIN changes : DOMAIN changes[i].items \subseteq DOMAIN grants
  BY RowFacts DEF IInv, Here, Spares
<1>1. ASSUME NEW g \in DOMAIN grants, lock[g] = q PROVE lock'[g] = q /\ grants'[g] = grants[g]
  BY <1>0, <1>1 DEF Spares
<1>2. ASSUME NEW i \in DOMAIN changes, lock[i] = q PROVE lock'[i] = q /\ changes'[i] = changes[i]
  BY <1>0, <1>2 DEF Spares
<1>3. Locking(q) => Locking(q)'
  BY <1>0, <1>1 DEF Locking
<1>4. Writing(q) => Writing(q)'
  <2> SUFFICES ASSUME Writing(q) PROVE Writing(q)'
    OBVIOUS
  <2> DEFINE c == call[q]
  <2>1. /\ c.spec \in Here.changes /\ c.seen \subseteq DOMAIN grants /\ DOMAIN c.items \subseteq c.seen /\ DOMAIN c.items # {}
        /\ \A g \in c.seen : lock[g] = q /\ (g \in DOMAIN c.items <=> Hit(c, g))
        /\ c.items = [g \in DOMAIN c.items |-> [before |-> grants[g], after |-> After(c.spec, grants[g], deny)]]
    BY DEF Writing
  <2>2. \A g \in c.seen : lock'[g] = q /\ grants'[g] = grants[g] /\ g \in DOMAIN grants'
    BY <1>0, <1>1, <2>1
  <2>3. \A g \in c.seen : g \in DOMAIN c.items <=> (LiveAt(grants'[g], c.began) /\ Altered(c.spec, g, grants'[g], deny))
    BY <2>1, <2>2 DEF Hit
  <2>4. c.items = [g \in DOMAIN c.items |-> [before |-> grants'[g], after |-> After(c.spec, grants'[g], deny)]]
    <3>1. \A g \in DOMAIN c.items : [before |-> grants'[g], after |-> After(c.spec, grants'[g], deny)]
                                      = [before |-> grants[g], after |-> After(c.spec, grants[g], deny)]
      BY <2>1, <2>2
    <3> QED
      BY <2>1, <3>1, Zenon
  <2>5. call'[q] = c
    OBVIOUS
  <2> HIDE DEF c
  <2> QED
    BY <1>0, <2>1, <2>2, <2>3, <2>4, <2>5 DEF Writing, Hit
<1>5. Undoing(q) => Undoing(q)'
  BY <1>0, <1>1, <1>2 DEF Undoing
<1>6. Restoring(q) => Restoring(q)'
  BY <1>0, <1>1, <1>2 DEF Restoring
<1> HIDE DEF Locking, Writing, Undoing, Restoring
<1> QED
  BY <1>0, <1>3, <1>4, <1>5, <1>6 DEF Doing

(* A transaction ends.                                                     *)
LEMMA EndsFacts ==
    ASSUME IInv, NEW p \in Admins, Ends(p), scene' = scene
    PROVE  /\ call' \in [Admins -> Calls] /\ lock' \in [Rows -> Admins \cup {Nobody}]
           /\ call'[p] = Rest /\ Doing(p)'
           /\ \A q \in Admins : q # p => call'[q] = call[q]
           /\ \A r \in Rows : lock[r] # p => lock'[r] = lock[r]
           /\ IsFiniteSet(Busy') /\ Cardinality(Busy') \in Nat
           /\ call[p].pc # "rest" => Cardinality(Busy') = Cardinality(Busy) - 1
<1>1. Shape /\ IsFiniteSet(Busy)
  BY DEF IInv, Counted
<1>2. call' = [call EXCEPT ![p] = Rest] /\ lock' = [r \in Rows |-> IF lock[r] = p THEN Nobody ELSE lock[r]]
  BY DEF Ends
<1>3. /\ call' \in [Admins -> Calls] /\ call'[p] = Rest /\ \A q \in Admins : q # p => call'[q] = call[q]
  BY <1>1, <1>2, RestFacts DEF Shape
<1>4. lock' \in [Rows -> Admins \cup {Nobody}] /\ \A r \in Rows : lock[r] # p => lock'[r] = lock[r]
  BY <1>1, <1>2 DEF Shape
<1>5. Doing(p)'
  BY <1>3, RestFacts DEF Doing
<1>6. Busy' = Busy \ {p}
  BY <1>3, RestFacts DEF Busy
<1>7. IsFiniteSet(Busy')
  BY <1>1, <1>6, FS_Subset
<1>8. Cardinality(Busy') \in Nat
  BY <1>7, FS_CardinalityType
<1>9. call[p].pc # "rest" => Cardinality(Busy') = Cardinality(Busy) - 1
  <2>1. call[p].pc # "rest" => p \in Busy
    BY DEF Busy
  <2> QED
    BY <1>1, <1>6, <2>1, FS_RemoveElement
<1> QED
  BY <1>3, <1>4, <1>5, <1>7, <1>8, <1>9

LEMMA EndsKeeps ==
    ASSUME IInv, NEW p \in Admins, call[p].pc # "rest", Ends(p), UNCHANGED Committed
    PROVE  IInv'
<1>1. scene' = scene /\ grants' = grants /\ changes' = changes /\ deny' = deny /\ calls' = calls /\ now' = now
  BY DEF Committed
<1>2. Shape /\ Counted /\ Recorded
  BY DEF IInv
<1>3. Shape'
  BY <1>1, <1>2, EndsFacts DEF Shape, Rows, Here
<1>4. Counted'
  <2>1. Cardinality(Busy) \in Nat /\ Len(changes) \in Nat /\ calls \in Nat
    BY <1>2, FS_CardinalityType, ChangeFacts DEF Counted, Shape
  <2>2. Cardinality(Busy') = Cardinality(Busy) - 1 /\ IsFiniteSet(Busy') /\ Cardinality(Busy') \in Nat
    BY <1>1, EndsFacts
  <2> QED
    BY <1>1, <1>2, <2>1, <2>2 DEF Counted, Here
<1>5. Recorded'
  BY <1>1, <1>2 DEF Recorded, IsDone
<1>6. ASSUME NEW q \in Admins PROVE Doing(q)'
  <2>1. CASE q = p
    BY <1>1, <2>1, EndsFacts
  <2>2. CASE q # p
    <3>1. call'[q] = call[q] /\ \A r \in Rows : lock[r] = q => lock'[r] = q
      BY <1>1, <2>2, EndsFacts
    <3>2. Spares(q)
      BY <1>1, <3>1 DEF Spares
    <3> QED
      BY <3>1, <3>2, Bystander
  <2> QED
    BY <2>1, <2>2
<1> QED
  BY <1>3, <1>4, <1>5, <1>6 DEF IInv

(* A transaction begins or goes on, and may lock a row.                    *)
LEMMA GoesKeeps ==
    ASSUME IInv, NEW p \in Admins, call' \in [Admins -> Calls], call'[p].pc # "rest",
           \A q \in Admins : q # p => call'[q] = call[q],
           lock' = lock \/ \E r \in Rows : Takes(p, r),
           scene' = scene, grants' = grants, changes' = changes, deny' = deny, now' = now,
           \/ call[p].pc # "rest" /\ calls' = calls
           \/ call[p].pc = "rest" /\ calls < Here.calls /\ calls' = calls + 1,
           Doing(p)'
    PROVE  IInv'
<1>1. Shape /\ Counted /\ Recorded /\ calls \in Nat /\ Here.calls \in Nat
  BY SceneFacts DEF IInv, Shape
<1>2. lock' \in [Rows -> Admins \cup {Nobody}] /\ \A q \in Admins, r \in Rows : q # p /\ lock[r] = q => lock'[r] = q
  <2>1. CASE lock' = lock
    BY <1>1, <2>1 DEF Shape
  <2>2. ASSUME NEW r \in Rows, Takes(p, r)
        PROVE  lock' \in [Rows -> Admins \cup {Nobody}] /\ \A q \in Admins, x \in Rows : q # p /\ lock[x] = q => lock'[x] = q
    BY <1>1, <2>2, SceneFacts DEF Shape, Takes
  <2> QED
    BY <2>1, <2>2
<1>3. Shape'
  BY <1>1, <1>2 DEF Shape, Rows, Here
<1>4. Counted'
  <2>1. IsFiniteSet(Busy) /\ Cardinality(Busy) \in Nat /\ Len(changes) \in Nat
    BY <1>1, FS_CardinalityType, ChangeFacts DEF Counted
  <2>2. Busy' = Busy \cup {p}
    BY DEF Busy
  <2>3. CASE call[p].pc # "rest" /\ calls' = calls
    <3>1. Busy' = Busy
      BY <2>2, <2>3 DEF Busy
    <3> QED
      BY <1>1, <2>3, <3>1 DEF Counted, Here
  <2>4. CASE call[p].pc = "rest" /\ calls < Here.calls /\ calls' = calls + 1
    <3>1. p \notin Busy
      BY <2>4 DEF Busy
    <3>2. IsFiniteSet(Busy') /\ Cardinality(Busy') = Cardinality(Busy) + 1
      BY <2>1, <2>2, <3>1, FS_AddElement
    <3>3. Here' = Here /\ Len(changes') = Len(changes)
      BY DEF Here
    <3>4. Len(changes) + (Cardinality(Busy) + 1) <= calls + 1 /\ calls + 1 <= Here.calls
      BY <1>1, <2>1, <2>4 DEF Counted
    <3> QED
      BY <2>4, <3>2, <3>3, <3>4 DEF Counted
  <2> QED
    BY <2>3, <2>4
<1>5. Recorded'
  BY <1>1 DEF Recorded, IsDone
<1>6. ASSUME NEW q \in Admins PROVE Doing(q)'
  <2>1. CASE q = p
    BY <2>1
  <2>2. CASE q # p
    <3>1. Spares(q) /\ call'[q] = call[q]
      BY <1>2, <2>2 DEF Spares
    <3> QED
      BY <3>1, Bystander
  <2> QED
    BY <2>1, <2>2
<1> QED
  BY <1>3, <1>4, <1>5, <1>6 DEF IInv

-----------------------------------------------------------------------------
(* Preview and apply.                                                      *)

LEMMA AskKeeps ==
    ASSUME IInv, NEW p \in Here.admins, NEW kind \in {"preview", "apply"}, NEW s \in Here.changes, Ask(p, kind, s)
    PROVE  IInv'
<1>1. Shape /\ p \in Admins /\ s \in Specs /\ now \in Nat /\ Doing(p)
  BY SceneFacts DEF IInv, Shape
<1>2. call[p] = Rest /\ call[p].pc = "rest" /\ call \in [Admins -> Calls]
  BY <1>1 DEF Ask, Doing, Shape
<1>3. /\ call' \in [Admins -> Calls] /\ call'[p].pc = "choose" /\ call'[p].kind = kind /\ call'[p].spec = s
      /\ call'[p].cands = call[p].cands /\ \A q \in Admins : q # p => call'[q] = call[q]
  <2>1. Goes(p, [pc |-> "choose", kind |-> kind, spec |-> s, began |-> now])
    BY DEF Ask
  <2>2. kind \in {"preview", "apply", "undo"}
    OBVIOUS
  <2> DEFINE said == [pc |-> "choose", kind |-> kind, spec |-> s, began |-> now]
             r == [f \in DOMAIN call[p] |-> IF f \in DOMAIN said THEN said[f] ELSE call[p][f]]
  <2>3. call' = [call EXCEPT ![p] = r]
    BY <2>1 DEF Goes
  <2>4. /\ DOMAIN said = {"pc", "kind", "spec", "began"} /\ said["pc"] = "choose" /\ said["kind"] = kind
        /\ said["spec"] = s /\ said["began"] = now
    OBVIOUS
  <2>5. call[p] \in Calls
    BY <1>1, <1>2
  <2> HIDE DEF said
  <2>6. /\ r \in Calls /\ r.pc = "choose" /\ r.kind = kind /\ r.spec = s /\ r.cands = call[p].cands
    BY <1>1, <2>2, <2>4, <2>5 DEF Calls
  <2> HIDE DEF r
  <2> QED
    BY <1>1, <1>2, <2>3, <2>6
<1>4. Doing(p)'
  BY <1>2, <1>3, RestFacts DEF Doing, Here, Ask
<1> QED
  BY <1>1, <1>2, <1>3, <1>4, GoesKeeps DEF Ask

LEMMA ChooseKeeps ==
    ASSUME IInv, NEW p \in Admins, Choose(p)
    PROVE  IInv'
<1> DEFINE live == {g \in DOMAIN grants : LiveAt(grants[g], call[p].began)}
<1>1. Shape /\ Doing(p) /\ call[p].pc = "choose" /\ call \in [Admins -> Calls]
  BY DEF IInv, Shape, Choose
<1>2. /\ Goes(p, [pc |-> "lock", want |-> live, seen |-> live]) /\ lock' = lock /\ UNCHANGED Committed
  BY DEF Choose
<1>3. live \subseteq Grants /\ live \subseteq DOMAIN grants
  BY <1>1, GrantFacts
<1> HIDE DEF live
<1>4. /\ call' \in [Admins -> Calls] /\ call'[p].pc = "lock" /\ call'[p].kind = call[p].kind
      /\ call'[p].spec = call[p].spec /\ call'[p].cands = call[p].cands /\ call'[p].want = live /\ call'[p].seen = live
      /\ \A q \in Admins : q # p => call'[q] = call[q]
  BY <1>1, <1>2, <1>3, ZenonT(60) DEF Goes, Calls
<1>5. Locking(p)'
  BY <1>1, <1>2, <1>3, <1>4 DEF Doing, Locking, Committed, Here
<1>6. Doing(p)'
  BY <1>1, <1>4, <1>5 DEF Doing
<1> QED
  BY <1>1, <1>2, <1>4, <1>6, GoesKeeps DEF Committed

LEMMA LockCandidateKeeps ==
    ASSUME IInv, NEW p \in Admins, LockCandidate(p)
    PROVE  IInv'
<1> DEFINE g == Foremost(call[p].want)
           more == IF LiveAt(grants[g], call[p].began) THEN {g} ELSE {}
<1>1. Shape /\ Doing(p) /\ call[p].pc = "lock" /\ call[p].kind # "undo" /\ call \in [Admins -> Calls] /\ call[p].want # {}
  BY DEF IInv, Shape, LockCandidate
<1>2. /\ Goes(p, [want |-> call[p].want \ {g}, cands |-> call[p].cands \cup more])
      /\ Takes(p, g) /\ UNCHANGED Committed
  BY DEF LockCandidate
<1>3. Locking(p)
  BY <1>1 DEF Doing
<1>4. g \in call[p].want
  <2>1. call[p].want \subseteq Grants
    BY <1>1, CallFacts
  <2> QED
    BY <1>1, <2>1, ForemostFacts
<1>5. g \in Grants /\ g \in DOMAIN grants /\ g \in Rows
  BY <1>1, <1>3, <1>4, GrantFacts, SceneFacts DEF Locking
<1>6. more \subseteq {g} /\ (g \in more <=> LiveAt(grants[g], call[p].began))
  OBVIOUS
<1> HIDE DEF g, more
<1>7. /\ call' \in [Admins -> Calls] /\ call'[p].pc = "lock" /\ call'[p].kind = call[p].kind
      /\ call'[p].spec = call[p].spec /\ call'[p].cands = call[p].cands \cup more /\ call'[p].want = call[p].want \ {g}
      /\ call'[p].seen = call[p].seen /\ call'[p].began = call[p].began
      /\ \A q \in Admins : q # p => call'[q] = call[q]
  BY <1>1, <1>2, <1>5, <1>6, ZenonT(60) DEF Goes, Calls
<1>8. lock'[g] = p /\ \A r \in Rows : lock[r] = p => lock'[r] = p
  BY <1>1, <1>2, <1>5 DEF Takes, Shape
<1>9. Locking(p)'
  <2> DEFINE c == call[p]
  <2>1. /\ c.spec \in Here.changes /\ c.seen \subseteq DOMAIN grants
        /\ c.want \subseteq c.seen /\ c.cands \subseteq c.seen \ c.want
        /\ \A h \in c.seen \ c.want : lock[h] = p /\ (h \in c.cands <=> LiveAt(grants[h], c.began))
    BY <1>3 DEF Locking
  <2>2. Here' = Here /\ grants' = grants
    BY <1>2 DEF Committed, Here
  <2>3. \A h \in DOMAIN grants : h \in Rows
    BY RowFacts
  <2> DEFINE d == call'[p]
  <2>4. /\ d.spec \in Here.changes /\ d.seen \subseteq DOMAIN grants
        /\ d.want \subseteq d.seen /\ d.cands \subseteq d.seen \ d.want
    BY <1>4, <1>6, <1>7, <2>1
  <2>5. ASSUME NEW h \in d.seen \ d.want
        PROVE  lock'[h] = p /\ (h \in d.cands <=> LiveAt(grants[h], d.began))
    <3>1. CASE h = g
      <4>1. h \notin c.cands
        BY <1>4, <2>1, <3>1
      <4>2. h \in d.cands <=> h \in more
        BY <1>7, <4>1
      <4> QED
        BY <1>6, <1>7, <1>8, <3>1, <4>2
    <3>2. CASE h # g
      <4>1. h \in c.seen \ c.want
        BY <1>7, <3>2
      <4>2. h \in d.cands <=> h \in c.cands
        BY <1>6, <1>7, <3>2
      <4> QED
        BY <1>7, <1>8, <2>1, <2>3, <4>1, <4>2
    <3> QED
      BY <3>1, <3>2
  <2> HIDE DEF c
  <2> QED
    BY <2>2, <2>4, <2>5 DEF Locking
<1>10. Doing(p)'
  BY <1>1, <1>7, <1>9 DEF Doing
<1> QED
  BY <1>1, <1>2, <1>5, <1>7, <1>10, GoesKeeps DEF Committed

LEMMA PlanKeeps ==
    ASSUME IInv, NEW p \in Admins, Plan(p)
    PROVE  IInv'
<1> DEFINE c == call[p]
           hit == {g \in c.cands : Altered(c.spec, g, grants[g], deny)}
           it == [g \in hit |-> [before |-> grants[g], after |-> After(c.spec, grants[g], deny)]]
<1>1. Shape /\ Doing(p) /\ c.pc = "lock" /\ c.kind # "undo" /\ call \in [Admins -> Calls] /\ deny \in BOOLEAN
  BY DEF IInv, Shape, Plan
<1>2. (c.want = {} \/ Full(p)) /\ UNCHANGED Committed
  BY DEF Plan
<1>3. CASE c.kind = "preview" \/ hit = {} \/ Cardinality(c.cands) > MaxGrants
  <2>1. Ends(p)
    BY <1>3 DEF Plan
  <2> QED
    BY <1>1, <1>2, <2>1, EndsKeeps
<1>4. CASE ~(c.kind = "preview" \/ hit = {} \/ Cardinality(c.cands) > MaxGrants)
  <2>1. Goes(p, [pc |-> "write", items |-> it]) /\ lock' = lock /\ hit # {}
    BY <1>4 DEF Plan
  <2>2. c.want = {}
    BY <1>2, <1>4 DEF Full
  <2>3. Locking(p) /\ c.spec \in Specs
    BY <1>1, SceneFacts DEF Doing, Locking
  <2>4. /\ c.spec \in Here.changes /\ c.seen \subseteq DOMAIN grants /\ c.cands \subseteq c.seen
        /\ \A g \in c.seen : lock[g] = p /\ (g \in c.cands <=> LiveAt(grants[g], c.began))
    BY <2>2, <2>3 DEF Locking
  <2>5. hit \subseteq c.seen /\ \A g \in c.seen : g \in hit <=> Hit(c, g)
    BY <2>4 DEF Hit
  <2>6. DOMAIN it = hit /\ it = [g \in DOMAIN it |-> [before |-> grants[g], after |-> After(c.spec, grants[g], deny)]]
    OBVIOUS
  <2>7. it \in Items
    <3>1. \A g \in hit : g \in Grants /\ grants[g] \in Good /\ grants[g] \in States
      BY <1>1, <2>4, <2>5, GrantFacts
    <3>2. \A g \in hit : After(c.spec, grants[g], deny) \in States
      BY <1>1, <2>3, <3>1, AfterTypes
    <3>3. it \in [hit -> [before : Good, after : States]] /\ hit \in SUBSET Grants
      BY <3>1, <3>2
    <3> HIDE DEF it, hit
    <3> QED
      BY <3>3 DEF Items
  <2>8. c = call[p]
    OBVIOUS
  <2> HIDE DEF it, hit, c
  <2>9. /\ call' \in [Admins -> Calls] /\ call'[p].pc = "write" /\ call'[p].kind = c.kind
        /\ call'[p].spec = c.spec /\ call'[p].items = it /\ call'[p].seen = c.seen /\ call'[p].began = c.began
        /\ \A q \in Admins : q # p => call'[q] = call[q]
    BY <1>1, <2>1, <2>7, <2>8, ZenonT(60) DEF Goes, Calls
  <2>10. Here' = Here /\ grants' = grants /\ deny' = deny
    BY <1>2 DEF Committed, Here
  <2>11. \A g \in c.seen : g \in hit <=> (LiveAt(grants[g], c.began) /\ Altered(c.spec, g, grants[g], deny))
    BY <2>5 DEF Hit
  <2>12. Writing(p)'
    BY <2>1, <2>4, <2>5, <2>6, <2>9, <2>10, <2>11 DEF Writing, Hit
  <2>13. Doing(p)'
    BY <1>1, <2>9, <2>12 DEF Doing
  <2> QED
    BY <1>1, <1>2, <2>1, <2>8, <2>9, <2>13, GoesKeeps DEF Committed
<1> QED
  BY <1>3, <1>4

-----------------------------------------------------------------------------
(* Undo.                                                                   *)

LEMMA AskUndoKeeps ==
    ASSUME IInv, NEW p \in Admins, NEW i \in DOMAIN changes, AskUndo(p, i)
    PROVE  IInv'
<1>1. Shape /\ i \in Nat /\ call[p].pc = "rest" /\ call \in [Admins -> Calls]
  BY ChangeFacts DEF IInv, Shape, AskUndo
<1>2. Goes(p, [pc |-> "change", kind |-> "undo", id |-> i])
  BY DEF AskUndo
<1>3. /\ call' \in [Admins -> Calls] /\ call'[p].pc = "change" /\ call'[p].kind = "undo" /\ call'[p].id = i
      /\ \A q \in Admins : q # p => call'[q] = call[q]
  <2> DEFINE said == [pc |-> "change", kind |-> "undo", id |-> i]
             r == [f \in DOMAIN call[p] |-> IF f \in DOMAIN said THEN said[f] ELSE call[p][f]]
  <2>1. call' = [call EXCEPT ![p] = r]
    BY <1>2 DEF Goes
  <2>2. /\ DOMAIN said = {"pc", "kind", "id"} /\ said["pc"] = "change" /\ said["kind"] = "undo"
        /\ said["id"] = i
    OBVIOUS
  <2>3. call[p] \in Calls
    BY <1>1
  <2> HIDE DEF said
  <2>4. r \in Calls /\ r.pc = "change" /\ r.kind = "undo" /\ r.id = i
    BY <1>1, <2>2, <2>3 DEF Calls
  <2> HIDE DEF r
  <2> QED
    BY <1>1, <2>1, <2>4
<1>4. Doing(p)'
  BY <1>3 DEF Doing, AskUndo
<1> QED
  BY <1>1, <1>3, <1>4, GoesKeeps DEF AskUndo

LEMMA LockChangeKeeps ==
    ASSUME IInv, NEW p \in Admins, LockChange(p)
    PROVE  IInv'
<1> DEFINE i == call[p].id
<1>1. Shape /\ Doing(p) /\ call[p].pc = "change" /\ call \in [Admins -> Calls] /\ UNCHANGED Committed
  BY DEF IInv, Shape, LockChange
<1>2. call[p].kind = "undo" /\ i \in DOMAIN changes
  BY <1>1 DEF Doing
<1>3. CASE changes[i].undone
  BY <1>1, <1>3, EndsKeeps DEF LockChange
<1>4. CASE ~changes[i].undone
  <2> DEFINE w == DOMAIN changes[i].items
  <2>1. Takes(p, i) /\ Goes(p, [pc |-> "lock", want |-> w])
    BY <1>4 DEF LockChange
  <2>2. w \subseteq Grants /\ i \in Rows
    BY <1>1, <1>2, RowFacts, GrantFacts
  <2>3. i = call[p].id /\ w = DOMAIN changes[i].items
    OBVIOUS
  <2> HIDE DEF i, w
  <2>4. /\ call' \in [Admins -> Calls] /\ call'[p].pc = "lock" /\ call'[p].kind = call[p].kind
        /\ call'[p].id = call[p].id /\ call'[p].want = w /\ \A q \in Admins : q # p => call'[q] = call[q]
    BY <1>1, <2>1, <2>2, ZenonT(60) DEF Goes, Calls
  <2>5. lock'[i] = p
    BY <1>1, <2>1, <2>2 DEF Takes, Shape
  <2>6. Undoing(p)'
    BY <1>1, <1>2, <1>4, <2>3, <2>4, <2>5 DEF Undoing, Committed
  <2>7. Doing(p)'
    BY <1>2, <2>4, <2>6 DEF Doing
  <2> QED
    BY <1>1, <2>1, <2>2, <2>4, <2>7, GoesKeeps DEF Committed
<1> QED
  BY <1>3, <1>4

LEMMA LockItemKeeps ==
    ASSUME IInv, NEW p \in Admins, NEW g \in Grants, LockItem(p, g)
    PROVE  IInv'
<1>1. /\ Shape /\ Doing(p) /\ call[p].pc = "lock" /\ call[p].kind = "undo" /\ call \in [Admins -> Calls]
      /\ g \in call[p].want /\ Takes(p, g) /\ Goes(p, [want |-> call[p].want \ {g}]) /\ UNCHANGED Committed
  BY DEF IInv, Shape, LockItem
<1>2. Undoing(p) /\ g \in Rows
  BY <1>1, SceneFacts DEF Doing
<1>3. /\ call' \in [Admins -> Calls] /\ call'[p].pc = call[p].pc /\ call'[p].kind = call[p].kind
      /\ call'[p].id = call[p].id /\ call'[p].want = call[p].want \ {g}
      /\ \A q \in Admins : q # p => call'[q] = call[q]
  BY <1>1, ZenonT(60) DEF Goes, Calls
<1>4. lock'[g] = p /\ \A r \in Rows : lock[r] = p => lock'[r] = p
  BY <1>1, <1>2 DEF Takes, Shape
<1>5. \A i \in DOMAIN changes : i \in Rows /\ \A h \in DOMAIN changes[i].items : h \in Rows
  BY RowFacts
<1>6. Undoing(p)'
  BY <1>1, <1>2, <1>3, <1>4, <1>5 DEF Undoing, Committed
<1>7. Doing(p)'
  BY <1>1, <1>3, <1>6 DEF Doing
<1> QED
  BY <1>1, <1>2, <1>3, <1>7, GoesKeeps DEF Committed

LEMMA CompareKeeps ==
    ASSUME IInv, NEW p \in Admins, Compare(p)
    PROVE  IInv'
<1> DEFINE it == changes[call[p].id].items
<1>1. /\ Shape /\ Doing(p) /\ call[p].pc = "lock" /\ call[p].kind = "undo" /\ call \in [Admins -> Calls]
      /\ call[p].want = {} /\ UNCHANGED Committed
  BY DEF IInv, Shape, Compare
<1>2. Undoing(p) /\ it \in Items
  BY <1>1, ChangeFacts DEF Doing, Undoing
<1>3. CASE \A g \in DOMAIN it : grants[g] = it[g].after
  <2>1. Goes(p, [pc |-> "restore", items |-> it]) /\ lock' = lock
    BY <1>3 DEF Compare
  <2>2. it = changes[call[p].id].items
    OBVIOUS
  <2> HIDE DEF it
  <2>3. /\ call' \in [Admins -> Calls] /\ call'[p].pc = "restore" /\ call'[p].id = call[p].id /\ call'[p].items = it
        /\ \A q \in Admins : q # p => call'[q] = call[q]
    <3> DEFINE said == [pc |-> "restore", items |-> it]
               r == [f \in DOMAIN call[p] |-> IF f \in DOMAIN said THEN said[f] ELSE call[p][f]]
    <3>1. call' = [call EXCEPT ![p] = r]
      BY <2>1 DEF Goes
    <3>2. DOMAIN said = {"pc", "items"} /\ said["pc"] = "restore" /\ said["items"] = it
      OBVIOUS
    <3>3. call[p] \in Calls
      BY <1>1
    <3> HIDE DEF said
    <3>4. r \in Calls /\ r.pc = "restore" /\ r.id = call[p].id /\ r.items = it
      BY <1>2, <3>2, <3>3 DEF Calls
    <3> HIDE DEF r
    <3> QED
      BY <1>1, <3>1, <3>4
  <2>4. Restoring(p)'
    BY <1>1, <1>2, <1>3, <2>1, <2>2, <2>3 DEF Undoing, Restoring, Committed
  <2>5. Doing(p)'
    BY <2>3, <2>4 DEF Doing
  <2> QED
    BY <1>1, <2>1, <2>3, <2>5, GoesKeeps DEF Committed
<1>4. CASE ~ \A g \in DOMAIN it : grants[g] = it[g].after
  BY <1>1, <1>4, EndsKeeps DEF Compare
<1> QED
  BY <1>3, <1>4

-----------------------------------------------------------------------------
(* Commits.                                                                *)

(* A transaction that commits changes only rows it has locked.             *)
LEMMA CommitKeeps ==
    ASSUME IInv, NEW p \in Admins, call[p].pc # "rest", Ends(p),
           scene' = scene, deny' = deny, calls' = calls, now' = now,
           grants' \in [DOMAIN grants -> Good], changes' \in Seq(Entries), Recorded',
           Len(changes') <= Len(changes) + 1,
           \A g \in DOMAIN grants : lock[g] # p => grants'[g] = grants[g],
           \A i \in DOMAIN changes : /\ i \in DOMAIN changes' /\ changes'[i].items = changes[i].items
                                     /\ lock[i] # p => changes'[i] = changes[i]
    PROVE  IInv'
<1>1. Shape /\ Counted /\ DOMAIN grants' = DOMAIN grants
  BY DEF IInv
<1>2. Shape'
  <2>1. grants' \in UNION {[G -> Good] : G \in SUBSET Grants}
    BY <1>1, GrantFacts
  <2> QED
    BY <1>1, <2>1, EndsFacts DEF Shape, Rows, Here
<1>3. Counted'
  <2>1. Cardinality(Busy) \in Nat /\ Len(changes) \in Nat /\ Len(changes') \in Nat /\ calls \in Nat
    BY <1>1, FS_CardinalityType, ChangeFacts DEF Counted, Shape
  <2>2. Cardinality(Busy') = Cardinality(Busy) - 1 /\ IsFiniteSet(Busy') /\ Cardinality(Busy') \in Nat
    BY EndsFacts
  <2> QED
    BY <1>1, <2>1, <2>2 DEF Counted, Here
<1>4. ASSUME NEW q \in Admins PROVE Doing(q)'
  <2>1. CASE q = p
    BY <2>1, EndsFacts
  <2>2. CASE q # p
    <3>1. call'[q] = call[q] /\ \A r \in Rows : lock[r] = q => lock'[r] = q
      BY <2>2, EndsFacts
    <3>2. Spares(q)
      BY <1>1, <2>2, <3>1 DEF Spares
    <3> QED
      BY <3>1, <3>2, Bystander
  <2> QED
    BY <2>1, <2>2
<1> QED
  BY <1>2, <1>3, <1>4 DEF IInv

(* What a transaction about to write has in hand.                          *)
LEMMA WritingFacts ==
    ASSUME IInv, NEW p \in Admins, call[p].pc = "write"
    PROVE  /\ call[p].items \in Items /\ call[p].spec \in Specs /\ call[p].spec \in Here.changes
           /\ DOMAIN call[p].items \subseteq DOMAIN grants /\ DOMAIN call[p].items # {}
           /\ \A g \in DOMAIN call[p].items :
                /\ lock[g] = p /\ Hit(call[p], g) /\ call[p].items[g].before = grants[g]
                /\ call[p].items[g].after = After(call[p].spec, grants[g], deny)
                /\ call[p].items[g].after \in States
<1>1. Shape /\ Doing(p)
  BY DEF IInv
<1>2. Writing(p)
  BY <1>1 DEF Doing
<1>3. call[p].items \in Items
  <2>1. DOMAIN call[p].items # {} /\ call[p].items \in Items \cup {<<>>}
    BY <1>1, <1>2, CallFacts DEF Writing
  <2> QED
    BY <2>1
<1>4. call[p].spec \in Specs /\ call[p].spec \in Here.changes
  BY <1>1, <1>2, SceneFacts DEF Writing
<1>5. \A g \in DOMAIN call[p].items : lock[g] = p /\ Hit(call[p], g)
  BY <1>2 DEF Writing
<1>6. \A g \in DOMAIN call[p].items : call[p].items[g].after \in States
  BY <1>3, ItemFacts
<1>7. \A g \in DOMAIN call[p].items : call[p].items[g].before = grants[g] /\ call[p].items[g].after = After(call[p].spec, grants[g], deny)
  <2>1. call[p].items = [g \in DOMAIN call[p].items |-> [before |-> grants[g], after |-> After(call[p].spec, grants[g], deny)]]
    BY <1>2 DEF Writing
  <2>2. \A g \in DOMAIN call[p].items : call[p].items[g] = [before |-> grants[g], after |-> After(call[p].spec, grants[g], deny)]
    BY <2>1, Zenon
  <2>3. ASSUME NEW g \in DOMAIN call[p].items
        PROVE  call[p].items[g].before = grants[g] /\ call[p].items[g].after = After(call[p].spec, grants[g], deny)
    <3> DEFINE a == After(call[p].spec, grants[g], deny)
    <3>1. call[p].items[g] = [before |-> grants[g], after |-> a]
      BY <2>2
    <3> HIDE DEF a
    <3>2. call[p].items[g].before = grants[g] /\ call[p].items[g].after = a
      BY <3>1
    <3> QED
      BY <3>2 DEF a
  <2> QED
    BY <2>3
<1> QED
  BY <1>2, <1>3, <1>4, <1>5, <1>6, <1>7 DEF Writing

LEMMA WriteKeeps ==
    ASSUME IInv, NEW p \in Admins, Write(p)
    PROVE  IInv'
<1> DEFINE it == call[p].items
           e == [spec |-> call[p].spec, items |-> it, undone |-> FALSE]
<1>1. Shape /\ Recorded /\ call[p].pc = "write" /\ Ends(p) /\ scene' = scene /\ deny' = deny /\ calls' = calls /\ now' = now
  BY DEF IInv, Write
<1>2. CASE ~Accepts(it)
  <2>1. UNCHANGED Committed
    BY <1>1, <1>2 DEF Write, Committed
  <2> QED
    BY <1>1, <2>1, EndsKeeps
<1>3. CASE Accepts(it)
  <2>1. /\ grants' = [g \in DOMAIN grants |-> IF g \in DOMAIN it THEN it[g].after ELSE grants[g]]
        /\ changes' = Append(changes, e)
    BY <1>3 DEF Write
  <2>2. /\ it \in Items /\ call[p].spec \in Specs /\ DOMAIN it \subseteq DOMAIN grants
        /\ \A g \in DOMAIN it : /\ lock[g] = p /\ Hit(call[p], g) /\ it[g].before = grants[g]
                                /\ it[g].after = After(call[p].spec, grants[g], deny) /\ it[g].after \in States
    BY <1>1, WritingFacts
  <2>3. \A g \in DOMAIN it : it[g].after \in Good
    BY <1>3, <2>2 DEF Accepts, Good
  <2>4. grants' \in [DOMAIN grants -> Good]
    BY <1>1, <2>1, <2>2, <2>3, GrantFacts
  <2>5. e \in Entries /\ e.spec = call[p].spec /\ e.items = it
    BY <2>2 DEF Entries
  <2>6. e.items = it
    OBVIOUS
  <2> HIDE DEF e
  <2>7. /\ changes' \in Seq(Entries) /\ Len(changes') = Len(changes) + 1 /\ DOMAIN changes' = 1 .. Len(changes) + 1
        /\ changes'[Len(changes) + 1] = e /\ Len(changes) \in Nat
        /\ \A i \in DOMAIN changes : i \in DOMAIN changes' /\ changes'[i] = changes[i]
    BY <1>1, <2>1, <2>5 DEF Shape
  <2>8. \A g \in DOMAIN grants : lock[g] # p => grants'[g] = grants[g]
    BY <2>1, <2>2
  <2>9. Recorded'
    <3>1. DOMAIN grants' = DOMAIN grants
      BY <2>1
    <3>2. ASSUME NEW i \in DOMAIN changes'
          PROVE  /\ DOMAIN changes'[i].items \subseteq DOMAIN grants
                 /\ \A g \in DOMAIN changes'[i].items : IsDone(changes'[i].spec, g, changes'[i].items[g])
      <4>1. CASE i \in DOMAIN changes
        BY <1>1, <2>7, <4>1 DEF Recorded
      <4>2. CASE i = Len(changes) + 1
        <5>1. changes'[i].items = it /\ changes'[i].spec = call[p].spec
          BY <2>5, <2>7, <4>2
        <5>2. \A g \in DOMAIN it : IsDone(call[p].spec, g, it[g])
          BY <2>2, <2>3 DEF IsDone, Hit, Good
        <5> QED
          BY <2>2, <5>1, <5>2
      <4> QED
        BY <1>1, <2>7, <4>1, <4>2, ChangeFacts
    <3> QED
      BY <1>1, <3>1, <3>2 DEF Recorded, IsDone
  <2> QED
    BY <1>1, <2>4, <2>7, <2>8, <2>9, CommitKeeps
<1> QED
  BY <1>2, <1>3

LEMMA RestoreKeeps ==
    ASSUME IInv, NEW p \in Admins, Restore(p)
    PROVE  IInv'
<1> DEFINE it == call[p].items
           k == call[p].id
<1>1. /\ Shape /\ Recorded /\ Doing(p) /\ call[p].pc = "restore" /\ Ends(p)
      /\ scene' = scene /\ deny' = deny /\ calls' = calls /\ now' = now
      /\ grants' = [g \in DOMAIN grants |-> IF g \in DOMAIN it THEN it[g].before ELSE grants[g]]
      /\ changes' = [changes EXCEPT ![k].undone = TRUE]
  BY DEF IInv, Restore
<1>2. /\ k \in DOMAIN changes /\ lock[k] = p /\ it = changes[k].items /\ \A g \in DOMAIN it : lock[g] = p
  BY <1>1 DEF Doing, Restoring
<1>3. \A g \in DOMAIN it : it[g].before \in Good
  BY <1>1, <1>2, ChangeFacts, ItemFacts
<1>4. grants' \in [DOMAIN grants -> Good] /\ \A g \in DOMAIN grants : lock[g] # p => grants'[g] = grants[g]
  BY <1>1, <1>2, <1>3, GrantFacts
<1> DEFINE e == [changes[k] EXCEPT !.undone = TRUE]
<1>5. e \in Entries /\ e.items = changes[k].items /\ e.spec = changes[k].spec
  BY <1>1, <1>2, ChangeFacts DEF Entries
<1>6. changes' = [changes EXCEPT ![k] = e]
  BY <1>1
<1> HIDE DEF e
<1>7. /\ changes' \in Seq(Entries) /\ Len(changes') = Len(changes) /\ DOMAIN changes' = DOMAIN changes
      /\ changes'[k] = e /\ \A i \in DOMAIN changes : i # k => changes'[i] = changes[i]
  BY <1>1, <1>2, <1>5, <1>6 DEF Shape
<1>8. \A i \in DOMAIN changes : /\ i \in DOMAIN changes' /\ changes'[i].items = changes[i].items
                                /\ changes'[i].spec = changes[i].spec
                                /\ lock[i] # p => changes'[i] = changes[i]
  BY <1>2, <1>5, <1>7
<1>9. Recorded'
  BY <1>1, <1>4, <1>7, <1>8 DEF Recorded, IsDone
<1>10. Len(changes') <= Len(changes) + 1
  BY <1>1, <1>7, ChangeFacts
<1> HIDE DEF it, k
<1> QED
  BY <1>1, <1>4, <1>7, <1>8, <1>9, <1>10, CommitKeeps

-----------------------------------------------------------------------------
(* What else happens.                                                      *)

LEMMA DeadlockKeeps ==
    ASSUME IInv, NEW p \in Admins, Deadlock(p)
    PROVE  IInv'
<1>1. Ends(p) /\ UNCHANGED Committed /\ WaitsFor(p) # {}
  BY DEF Deadlock
<1>2. call[p].pc # "rest"
  BY <1>1 DEF WaitsFor
<1> QED
  BY <1>1, <1>2, EndsKeeps

LEMMA LoseKeeps ==
    ASSUME IInv, NEW p \in Admins, Lose(p)
    PROVE  IInv'
  BY EndsKeeps DEF Lose

(* A step of nobody's transaction, which leaves locked rows alone.         *)
LEMMA AsideKeeps ==
    ASSUME IInv, scene' = scene, changes' = changes, deny' = deny, lock' = lock, call' = call, calls' = calls,
           now' \in Nat, grants' \in UNION {[G -> Good] : G \in SUBSET Grants},
           \A g \in DOMAIN grants : g \in DOMAIN grants' /\ (lock[g] # Nobody => grants'[g] = grants[g])
    PROVE  IInv'
<1>1. Shape /\ Counted /\ Recorded
  BY DEF IInv
<1>2. Shape'
  BY <1>1 DEF Shape, Rows, Here
<1>3. Counted'
  BY <1>1 DEF Counted, Here, Busy
<1>4. Recorded'
  BY <1>1 DEF Recorded, IsDone
<1>5. ASSUME NEW q \in Admins PROVE Doing(q)'
  <2>1. Spares(q)
    BY <1>1, SceneFacts DEF Spares
  <2> QED
    BY <2>1, Bystander
<1> QED
  BY <1>2, <1>3, <1>4, <1>5 DEF IInv

LEMMA RevokeGrantKeeps ==
    ASSUME IInv, NEW g \in DOMAIN grants, RevokeGrant(g)
    PROVE  IInv'
<1>1. Shape /\ now \in Nat
  BY DEF IInv, Shape
<1> DEFINE st == [grants[g] EXCEPT !.revoked = TRUE]
<1>2. grants[g] \in States /\ Writable(grants[g])
  BY <1>1, GrantFacts
<1>3. st \in States /\ st.pins = grants[g].pins
  BY <1>2 DEF States
<1>4. grants' = [grants EXCEPT ![g] = st] /\ lock[g] = Nobody
  BY DEF RevokeGrant
<1> HIDE DEF st
<1>5. st \in Good
  BY <1>2, <1>3 DEF Good, Writable, HasExcludes, Includes
<1>6. grants' \in [DOMAIN grants -> Good] /\ DOMAIN grants \subseteq Grants
  BY <1>1, <1>4, <1>5, GrantFacts
<1>7. grants' \in UNION {[G -> Good] : G \in SUBSET Grants}
  BY <1>6
<1>8. \A h \in DOMAIN grants : h \in DOMAIN grants' /\ (lock[h] # Nobody => grants'[h] = grants[h])
  BY <1>1, <1>4, <1>6, GrantFacts
<1> QED
  BY <1>1, <1>7, <1>8, AsideKeeps DEF RevokeGrant

LEMMA CreateGrantKeeps ==
    ASSUME IInv, NEW g \in Grants, NEW st \in Here.fresh, CreateGrant(g, st)
    PROVE  IInv'
<1>1. Shape /\ now \in Nat
  BY DEF IInv, Shape
<1>2. st \in Good
  BY <1>1, SceneFacts DEF CreateGrant, Good
<1>3. /\ grants' = [h \in DOMAIN grants \cup {g} |-> IF h = g THEN st ELSE grants[h]] /\ g \notin DOMAIN grants
  BY DEF CreateGrant
<1>4. grants' \in [DOMAIN grants \cup {g} -> Good] /\ DOMAIN grants \cup {g} \subseteq Grants
  BY <1>1, <1>2, <1>3, GrantFacts
<1>5. grants' \in UNION {[G -> Good] : G \in SUBSET Grants}
  BY <1>4
<1>6. \A h \in DOMAIN grants : h \in DOMAIN grants' /\ grants'[h] = grants[h]
  BY <1>3
<1> QED
  BY <1>1, <1>5, <1>6, AsideKeeps DEF CreateGrant

LEMMA TickKeeps ==
    ASSUME IInv, Tick
    PROVE  IInv'
<1>1. Shape /\ now' \in Nat /\ grants' \in UNION {[G -> Good] : G \in SUBSET Grants}
  BY DEF IInv, Shape, Tick
<1> QED
  BY <1>1, AsideKeeps DEF Tick

-----------------------------------------------------------------------------
(* The theorems.                                                           *)

LEMMA InitHolds == Init => IInv
<1> SUFFICES ASSUME Init PROVE IInv
  OBVIOUS
<1>1. scene \in DOMAIN Scenes /\ grants \in Here.starts
  BY DEF Init
<1>2. /\ DOMAIN grants \subseteq Grants /\ grants = [g \in DOMAIN grants |-> grants[g]]
      /\ \A g \in DOMAIN grants : grants[g] \in Good
  BY <1>1, ChangeAssumption DEF Here, Good
<1>3. grants \in UNION {[G -> Good] : G \in SUBSET Grants}
  BY <1>2
<1>4. Shape
  BY <1>1, <1>3, RestFacts DEF Init, Shape
<1>5. \A p \in Admins : Doing(p)
  BY RestFacts DEF Init, Doing
<1>6. Counted
  <2>1. Busy = {}
    BY RestFacts DEF Init, Busy
  <2>2. IsFiniteSet(Busy) /\ Cardinality(Busy) = 0
    BY <2>1, FS_EmptySet
  <2>3. Len(changes) = 0 /\ calls = 0
    BY DEF Init
  <2> QED
    BY <1>4, <2>2, <2>3, SceneFacts DEF Counted
<1>7. Recorded
  BY DEF Init, Recorded
<1> QED
  BY <1>4, <1>5, <1>6, <1>7 DEF IInv

LEMMA NextKeeps == IInv /\ [Next]_vars => IInv'
<1> SUFFICES ASSUME IInv, [Next]_vars PROVE IInv'
  OBVIOUS
<1>0. Here.admins \subseteq Admins
  BY SceneFacts DEF IInv
<1>1. ASSUME NEW p \in Here.admins, NEW kind \in {"preview", "apply"}, NEW s \in Here.changes, Ask(p, kind, s) PROVE IInv'
  BY <1>1, AskKeeps
<1>2. ASSUME NEW p \in Here.admins, NEW i \in DOMAIN changes, AskUndo(p, i) PROVE IInv'
  BY <1>0, <1>2, AskUndoKeeps
<1>3. ASSUME NEW p \in Here.admins, Step(p) PROVE IInv'
  BY <1>0, <1>3, ChooseKeeps, LockCandidateKeeps, PlanKeeps, WriteKeeps, LockChangeKeeps, LockItemKeeps, CompareKeeps,
     RestoreKeeps, DeadlockKeeps DEF Step
<1>4. ASSUME NEW p \in Here.admins, Lose(p) PROVE IInv'
  BY <1>0, <1>4, LoseKeeps
<1>5. ASSUME NEW g \in DOMAIN grants, RevokeGrant(g) PROVE IInv'
  BY <1>5, RevokeGrantKeeps
<1>6. ASSUME NEW g \in Grants, NEW st \in Here.fresh, CreateGrant(g, st) PROVE IInv'
  BY <1>6, CreateGrantKeeps
<1>7. CASE UNCHANGED vars
  BY <1>7 DEF vars, IInv, Shape, Rows, Here, Counted, Busy, Recorded, IsDone, Doing, Locking, Writing, Hit, Undoing, Restoring
<1> QED
  BY <1>1, <1>2, <1>3, <1>4, <1>5, <1>6, <1>7, TickKeeps DEF Next

(* The inductive invariant: what a transaction of several statements has   *)
(* read is still so when it writes, of every row it has locked.            *)
THEOREM InvariantHolds == Spec => []IInv
<1> QED
  BY InitHolds, NextKeeps, PTL DEF Spec

(* Types, and the picks of every grant and of every recorded state are     *)
(* ones grant_scopes accepts, whatever is changed and undone               *)
(* (UndoGrantChange writes recorded states back).                          *)
THEOREM TypeCorrect == Spec => []TypeOK
<1>1. IInv => TypeOK
  <2> SUFFICES ASSUME IInv PROVE TypeOK
    OBVIOUS
  <2>1. Shape /\ Recorded /\ \A p \in Admins : Doing(p)
    BY DEF IInv
  <2>2. ASSUME NEW i \in DOMAIN changes, NEW g \in DOMAIN changes[i].items
        PROVE  /\ changes[i].items[g].before \in States /\ changes[i].items[g].after \in States
               /\ Writable(changes[i].items[g].before) /\ Writable(changes[i].items[g].after)
    <3>1. changes[i].items[g].before \in Good /\ changes[i].items[g].after \in States
      BY <2>1, ChangeFacts, ItemFacts
    <3> QED
      BY <2>1, <3>1 DEF Recorded, IsDone, Good
  <2> QED
    BY <2>1, <2>2, GrantFacts DEF TypeOK, Shape, Doing
<1> QED
  BY <1>1, InvariantHolds, PTL

(* A change about to be written takes in every grant that was live when    *)
(* its candidates were chosen, still is, and is one the change is for      *)
(* (ChangeCandidates with its cap plus one, Build).                        *)
THEOREM EveryoneIsIn == Spec => []NobodyLeftOut
<1>1. IInv => NobodyLeftOut
  BY DEF IInv, NobodyLeftOut, Doing, Writing, Hit
<1> QED
  BY <1>1, InvariantHolds, PTL

(* The ledger's operators are those of the plan.                           *)
LEMMA SamePlan ==
    /\ Ledger!States = States
    /\ \A s, st, d : Ledger!After(s, st, d) = After(s, st, d)
    /\ \A s, g, st, d : Ledger!Altered(s, g, st, d) <=> Altered(s, g, st, d)
<1>1. Ledger!States = States
  BY DEF Ledger!States, States, Ledger!Constraints, Constraints
<1>0. ASSUME NEW S PROVE Ledger!Cardinality(S) = Cardinality(S)
  BY Zenon DEF Ledger!Cardinality, Cardinality, Ledger!IsFiniteSet, IsFiniteSet
<1>2. \A n : Ledger!Below(n) = Below(n)
  <2>1. ASSUME NEW t PROVE Ledger!Ascent(Tree, t) = Ascent(Tree, t)
    BY <1>0, Zenon DEF Ledger!Ascent, Ascent, Ledger!Linked, Linked, Ledger!Known, Known
  <2> QED
    BY <2>1 DEF Ledger!Below, Below
<1>3. \A s, st, d : Ledger!After(s, st, d) = After(s, st, d)
  <2> SUFFICES ASSUME NEW s, NEW st, NEW d PROVE Ledger!After(s, st, d) = After(s, st, d)
    OBVIOUS
  <2>1. Ledger!Grow(s, st, d) = Grow(s, st, d)
    BY <1>2, Zenon DEF Ledger!Grow, Grow, Ledger!With, With, Ledger!Keeping, Keeping, Ledger!Pin, Pin,
                       Ledger!HasExcludes, HasExcludes
  <2> QED
    BY <2>1, Zenon DEF Ledger!After, After, Ledger!With, With, Ledger!Keeping, Keeping, Ledger!Pin, Pin
<1>4. \A s, g, st, d : Ledger!Altered(s, g, st, d) <=> Altered(s, g, st, d)
  <2> SUFFICES ASSUME NEW s, NEW g, NEW st, NEW d PROVE Ledger!Altered(s, g, st, d) <=> Altered(s, g, st, d)
    OBVIOUS
  <2>1. /\ Ledger!Includes(st) = Includes(st) /\ (Ledger!HasExcludes(st) <=> HasExcludes(st))
        /\ Ledger!PlaceKinds = PlaceKinds /\ Ledger!Siblings(s.siblings) = Siblings(s.siblings)
        /\ \A n, i : Ledger!Pin(n, i) = Pin(n, i)
    BY Zenon DEF Ledger!Includes, Includes, Ledger!HasExcludes, HasExcludes, Ledger!PlaceKinds, PlaceKinds,
                 Ledger!Siblings, Siblings, Ledger!Pin, Pin
  <2>2. Ledger!Matches(s, st) <=> Matches(s, st)
    BY <2>1, Zenon DEF Ledger!Matches, Matches
  <2>3. /\ Ledger!Everywhere(st, d) <=> Everywhere(st, d)
        /\ Ledger!SkipRemove(s, st) <=> SkipRemove(s, st)
        /\ Ledger!SkipGrow(s, st, d) <=> SkipGrow(s, st, d)
    BY <1>0, <2>1, Zenon DEF Ledger!Everywhere, Everywhere, Ledger!SkipRemove, SkipRemove, Ledger!SkipGrow, SkipGrow
  <2>4. Ledger!Skips(s, st, d) <=> Skips(s, st, d)
    BY <2>1, <2>3 DEF Ledger!Skips, Skips
  <2> QED
    BY <2>1, <2>2, <2>4, Zenon DEF Ledger!Altered, Altered
<1> QED
  BY <1>1, <1>3, <1>4

(* The transactions, several statements of several calls interleaved,      *)
(* implement the ledger: a change or an undo happens at one moment, to the *)
(* grants as they are then (ApplyGrantChange, UndoGrantChange).            *)
THEOREM LedgerImplemented == Spec => ImplementsLedger
<1> DEFINE All == UNION {Scenes[k].changes : k \in DOMAIN Scenes}
<1>1. Init => Ledger!Init
  <2> SUFFICES ASSUME Init PROVE Ledger!Init
    OBVIOUS
  <2>1. grants \in UNION {Scenes[k].starts : k \in DOMAIN Scenes}
    BY DEF Init, Here
  <2> QED
    BY <2>1 DEF Init, Ledger!Init
<1>2. IInv /\ [Next]_vars => [Ledger!Next]_(Ledger!lvars)
  <2> SUFFICES ASSUME IInv, [Next]_vars PROVE Ledger!Next \/ UNCHANGED Ledger!lvars
    OBVIOUS
  <2>1. Shape /\ Here.admins \subseteq Admins /\ Here.changes \subseteq All
    BY SceneFacts DEF IInv, Here, Shape
  <2> HIDE DEF All
  <2>2. ASSUME NEW p \in Admins, Write(p) PROVE Ledger!Next \/ UNCHANGED Ledger!lvars
    <3> DEFINE it == call[p].items
               s == call[p].spec
               gs == DOMAIN it
    <3>1. CASE ~Accepts(it)
      BY <2>2, <3>1 DEF Write, Ledger!lvars
    <3>2. CASE Accepts(it)
      <4>1. call[p].pc = "write"
        BY <2>2 DEF Write
      <4>2. Writing(p)
        BY <4>1 DEF IInv, Doing
      <4>3. /\ s \in All /\ gs \in SUBSET DOMAIN grants /\ gs # {}
            /\ \A g \in gs : Hit(call[p], g) /\ it[g].after = After(s, grants[g], deny)
        BY <2>1, <4>1, WritingFacts
      <4>4. \A g \in gs : ~grants[g].revoked /\ Altered(s, g, grants[g], deny)
        BY <4>3 DEF Hit, LiveAt
      <4>5. it = [g \in gs |-> Ledger!Item(s, g)]
        <5>1. it = [g \in gs |-> [before |-> grants[g], after |-> After(s, grants[g], deny)]]
          BY <4>2 DEF Writing
        <5> HIDE DEF it, s, gs
        <5> QED
          BY <5>1, SamePlan, Zenon DEF Ledger!Item
      <4>6. \A g \in gs : Ledger!Item(s, g).after = it[g].after
        BY <4>5
      <4>7. grants' = [g \in DOMAIN grants |-> IF g \in gs THEN it[g].after ELSE grants[g]]
        BY <2>2, <3>2 DEF Write
      <4>8. grants' = [g \in DOMAIN grants |-> IF g \in gs THEN Ledger!Item(s, g).after ELSE grants[g]]
        BY <4>6, <4>7
      <4>9. /\ deny' = deny
            /\ changes' = Append(changes, [spec |-> s, items |-> [g \in gs |-> Ledger!Item(s, g)], undone |-> FALSE])
        BY <2>2, <3>2, <4>5 DEF Write
      <4> HIDE DEF s, gs, it
      <4>10. Ledger!Change(s, gs)
        BY <4>3, <4>4, <4>8, <4>9, SamePlan, Zenon DEF Ledger!Change
      <4> QED
        BY <4>3, <4>10 DEF Ledger!Next, All
    <3> QED
      BY <3>1, <3>2
  <2>3. ASSUME NEW p \in Admins, Restore(p) PROVE Ledger!Next
    <3> DEFINE k == call[p].id
    <3>1. Restoring(p)
      BY <2>3 DEF IInv, Doing, Restore
    <3>2. /\ k \in DOMAIN changes /\ ~changes[k].undone /\ call[p].items = changes[k].items
          /\ \A g \in DOMAIN changes[k].items : grants[g] = changes[k].items[g].after
      BY <3>1 DEF Restoring
    <3>3. Ledger!Undo(k)
      BY <2>3, <3>2 DEF Restore, Ledger!Undo
    <3> QED
      BY <3>2, <3>3 DEF Ledger!Next
  <2>4. ASSUME NEW g \in DOMAIN grants, RevokeGrant(g) PROVE Ledger!Next
    BY <2>4 DEF RevokeGrant, Ledger!Revoke, Ledger!Next
  <2>5. ASSUME NEW g \in Grants, NEW st \in Here.fresh, CreateGrant(g, st) PROVE Ledger!Next
    <3>1. st \in States
      BY <2>1, SceneFacts
    <3>2. Ledger!Create(g)
      <4>1. /\ g \notin DOMAIN grants /\ changes' = changes /\ deny' = deny
            /\ grants' = [h \in DOMAIN grants \cup {g} |-> IF h = g THEN st ELSE grants[h]]
        BY <2>5 DEF CreateGrant
      <4>2. DOMAIN grants' = DOMAIN grants \cup {g} /\ grants'[g] = st /\ \A h \in DOMAIN grants : grants'[h] = grants[h]
        BY <4>1
      <4> QED
        BY <3>1, <4>1, <4>2, SamePlan DEF Ledger!Create
    <3> QED
      BY <3>2 DEF Ledger!Next
  <2>6. ASSUME NEW p \in Admins, Step(p), ~Write(p), ~Restore(p) PROVE UNCHANGED Ledger!lvars
    <3>1. UNCHANGED Committed
      BY <2>6 DEF Step, Choose, LockCandidate, Plan, LockChange, LockItem, Compare, Deadlock
    <3> QED
      BY <3>1 DEF Committed, Ledger!lvars
  <2>7. ASSUME NEW p \in Admins, Lose(p) PROVE UNCHANGED Ledger!lvars
    BY <2>7 DEF Lose, Committed, Ledger!lvars
  <2>8. ASSUME NEW p \in Admins, NEW kind, NEW s, Ask(p, kind, s) PROVE UNCHANGED Ledger!lvars
    BY <2>8 DEF Ask, Ledger!lvars
  <2>9. ASSUME NEW p \in Admins, NEW i, AskUndo(p, i) PROVE UNCHANGED Ledger!lvars
    BY <2>9 DEF AskUndo, Ledger!lvars
  <2>10. CASE Tick
    BY <2>10 DEF Tick, Ledger!lvars
  <2>11. CASE UNCHANGED vars
    BY <2>11 DEF vars, Ledger!lvars
  <2> QED
    BY <2>1, <2>2, <2>3, <2>4, <2>5, <2>6, <2>7, <2>8, <2>9, <2>10, <2>11 DEF Next
<1> QED
  BY <1>1, <1>2, InvariantHolds, PTL DEF Spec, Ledger!Spec, ImplementsLedger

-----------------------------------------------------------------------------
(* What the kinds of change do to where a grant reaches.                   *)

LEMMA ReachFacts ==
    ASSUME NEW st \in States, NEW d \in BOOLEAN, NEW t \in Nodes
    PROVE  t \in Reach(st, d)
             <=> /\ ~st.revoked
                 /\ \/ st.pins = {} /\ ~d
                    \/ /\ Bearing(Tree, t, st.pins) # {}
                       /\ \A k \in Bearing(Tree, t, st.pins) : ~k.exclude
<1>1. st.pins \in SUBSET Constraints /\ st.revoked \in BOOLEAN
  BY DEF States
<1>2. Known(Tree, t)
  BY PlanAssumption, TreeAssumption DEF Known
<1>3. CoveredBy(Tree, t, st.pins)
        <=> Bearing(Tree, t, st.pins) # {} /\ \A k \in Bearing(Tree, t, st.pins) : ~k.exclude
  BY <1>1, <1>2, CoverageIsPlain
<1>4. st.pins = {} => Bearing(Tree, t, st.pins) = {}
  BY DEF Bearing
<1> QED
  BY <1>1, <1>3, <1>4 DEF Reach

(* A pick in place of others: what bore on a place still does, or the new  *)
(* pick does, and nothing new excludes.                                    *)
LEMMA ReachGrows ==
    ASSUME NEW st \in States, NEW to \in States, NEW d \in BOOLEAN,
           to.revoked = st.revoked, to.pins # {}, st.pins = {} => d,
           \A k \in to.pins : k.exclude => k \in st.pins,
           \A t \in Nodes : \A k \in Bearing(Tree, t, st.pins) : ~k.exclude => Bearing(Tree, t, to.pins) # {}
    PROVE  Reach(st, d) \subseteq Reach(to, d)
<1> SUFFICES ASSUME NEW t \in Reach(st, d) PROVE t \in Reach(to, d)
  OBVIOUS
<1>1. t \in Nodes
  BY DEF Reach
<1>2. ~st.revoked /\ Bearing(Tree, t, st.pins) # {} /\ \A k \in Bearing(Tree, t, st.pins) : ~k.exclude
  BY <1>1, ReachFacts
<1>3. Bearing(Tree, t, to.pins) # {}
  BY <1>1, <1>2
<1>4. ASSUME NEW k \in Bearing(Tree, t, to.pins), k.exclude PROVE FALSE
  <2>1. k \in Bearing(Tree, t, st.pins)
    BY <1>4 DEF Bearing
  <2> QED
    BY <1>2, <1>4, <2>1
<1> QED
  BY <1>1, <1>2, <1>3, <1>4, ReachFacts

LEMMA IncludeFacts ==
    ASSUME NEW st \in States
    PROVE  /\ \A k \in st.pins : ~k.exclude => k.node \in Includes(st)
           /\ \A n \in Includes(st) : \E k \in st.pins : ~k.exclude /\ k.node = n
  BY DEF Includes

LEMMA AddNeverTakes ==
    ASSUME NEW s \in Specs, NEW g, NEW st \in States, NEW d \in BOOLEAN, s.kind = "add_place", Altered(s, g, st, d)
    PROVE  Reach(st, d) \subseteq Reach(After(s, st, d), d)
<1>1. s.node \in Nodes /\ s.inherit \in BOOLEAN
  BY DEF Specs
<1>2. ~Everywhere(st, d) /\ s.node \notin Includes(st)
  BY DEF Altered, Skips
<1> DEFINE ps == {p \in st.pins : p.node # s.node}
           to == With(Keeping(st, ps), s.node, s.inherit)
<1>3. After(s, st, d) = to
  BY DEF After
<1>4. to \in States
  BY <1>3, AfterTypes
<1>5. to.pins = ps \cup {Pin(s.node, s.inherit)} /\ to.revoked = st.revoked /\ ~Pin(s.node, s.inherit).exclude
  <2>1. ps \in SUBSET st.pins
    OBVIOUS
  <2>2. to = With(Keeping(st, ps), s.node, s.inherit)
    OBVIOUS
  <2> HIDE DEF ps, to
  <2> QED
    BY <1>1, <2>1, <2>2 DEF States, Keeping, With, Pin
<1>6. ps \subseteq st.pins /\ \A k \in st.pins : ~k.exclude => k \in ps
  BY <1>2, IncludeFacts
<1>7. st.pins = {} => d
  BY <1>2 DEF Everywhere, Includes
<1> HIDE DEF to, ps
<1>8. ASSUME NEW t \in Nodes, NEW k \in Bearing(Tree, t, st.pins), ~k.exclude PROVE Bearing(Tree, t, to.pins) # {}
  <2>1. k \in Bearing(Tree, t, to.pins)
    BY <1>5, <1>6, <1>8 DEF Bearing
  <2> QED
    BY <2>1
<1>9. to.pins # {} /\ \A k \in to.pins : k.exclude => k \in st.pins
  BY <1>5, <1>6
<1>10. Reach(st, d) \subseteq Reach(to, d)
  BY <1>4, <1>5, <1>7, <1>8, <1>9, ReachGrows
<1> QED
  BY <1>3, <1>10

LEMMA RemoveNeverGives ==
    ASSUME NEW s \in Specs, NEW g, NEW st \in States, NEW d \in BOOLEAN, s.kind = "remove_place", Altered(s, g, st, d)
    PROVE  Reach(After(s, st, d), d) \subseteq Reach(st, d)
<1>1. ~SkipRemove(s, st)
  BY DEF Altered, Skips
<1>2. s.node \in Includes(st) /\ Cardinality(Includes(st)) # 1
  BY <1>1 DEF SkipRemove
<1>3. PICK m \in Includes(st) : m # s.node
  <2>1. ASSUME \A m \in Includes(st) : m = s.node PROVE FALSE
    <3>1. Includes(st) = {s.node}
      BY <1>2, <2>1
    <3>2. Cardinality({s.node}) = 1
      BY FS_Singleton, Zenon
    <3> QED
      BY <1>2, <3>1, <3>2
  <2> QED
    BY <2>1
<1> DEFINE ps == {p \in st.pins : p.node # s.node \/ p.exclude}
           to == Keeping(st, ps)
<1>4. After(s, st, d) = to
  BY DEF After
<1>5. to \in States
  BY <1>4, AfterTypes
<1>6. to.pins = ps /\ to.revoked = st.revoked
  BY DEF Keeping, States
<1>7. ps \subseteq st.pins /\ ps # {} /\ \A k \in st.pins : k.exclude => k \in ps
  BY <1>3, IncludeFacts
<1> HIDE DEF to, ps
<1>8. ASSUME NEW t \in Reach(to, d) PROVE t \in Reach(st, d)
  <2>1. t \in Nodes
    BY DEF Reach
  <2>2. ~to.revoked /\ Bearing(Tree, t, to.pins) # {} /\ \A k \in Bearing(Tree, t, to.pins) : ~k.exclude
    BY <1>5, <1>6, <1>7, <2>1, ReachFacts
  <2>3. Bearing(Tree, t, st.pins) # {} /\ \A k \in Bearing(Tree, t, st.pins) : ~k.exclude
    BY <1>6, <1>7, <2>2 DEF Bearing
  <2> QED
    BY <1>6, <2>1, <2>2, <2>3, ReachFacts
<1> QED
  BY <1>4, <1>8

LEMMA RevokeNeverGives ==
    ASSUME NEW s \in Specs, NEW st \in States, NEW d \in BOOLEAN, s.kind = "revoke"
    PROVE  Reach(After(s, st, d), d) \subseteq Reach(st, d)
<1>1. After(s, st, d) = [st EXCEPT !.revoked = TRUE]
  BY DEF After
<1>2. After(s, st, d).revoked = TRUE
  BY <1>1 DEF States
<1> QED
  BY <1>2 DEF Reach

(* Growing to a branch: what is inside it nests in it.                     *)
LEMMA GrowNeverTakes ==
    ASSUME NEW s \in Specs, NEW g, NEW st \in States, NEW d \in BOOLEAN, s.kind = "grow", Altered(s, g, st, d)
    PROVE  Reach(st, d) \subseteq Reach(After(s, st, d), d)
<1>1. After(s, st, d) = Grow(s, st, d) /\ ~SkipGrow(s, st, d) /\ s.node \in Nodes \cup {NoNode} /\ After(s, st, d) \in States
  BY AfterTypes DEF After, Altered, Skips, Specs
<1>2. CASE s.node # NoNode
  <2> DEFINE n == s.node
             ps == {p \in st.pins : p.exclude \/ p.node \notin Below(n) \cup {n}}
             to == With(Keeping(st, ps), n, TRUE)
  <2>1. After(s, st, d) = to /\ n \in Nodes /\ to \in States
    BY <1>1, <1>2 DEF Grow
  <2>2. ~Everywhere(st, d)
    BY <1>1, <1>2 DEF SkipGrow
  <2>3. to.pins = ps \cup {Pin(n, TRUE)} /\ to.revoked = st.revoked
        /\ Pin(n, TRUE).node = n /\ Pin(n, TRUE).inherit /\ ~Pin(n, TRUE).exclude
    <3>1. ps \in SUBSET st.pins /\ TRUE \in BOOLEAN
      OBVIOUS
    <3>2. to = With(Keeping(st, ps), n, TRUE)
      OBVIOUS
    <3> HIDE DEF ps, to
    <3> QED
      BY <2>1, <3>1, <3>2 DEF States, Keeping, With, Pin
  <2>4. st.pins = {} => d
    BY <2>2 DEF Everywhere, Includes
  <2>5. \A k \in st.pins : k \notin ps => k.node = n \/ n \in Ascent(Tree, k.node)
    BY DEF Below
  <2>6. ps \subseteq st.pins
    OBVIOUS
  <2> HIDE DEF n, ps, to
  <2>7. ASSUME NEW t \in Nodes, NEW k \in Bearing(Tree, t, st.pins), ~k.exclude PROVE Bearing(Tree, t, to.pins) # {}
    <3>1. CASE k \in ps
      <4>1. k \in Bearing(Tree, t, to.pins)
        BY <2>3, <3>1 DEF Bearing
      <4> QED
        BY <4>1
    <3>2. CASE k \notin ps
      <4>1. k \in st.pins /\ (k.node = t \/ k.node \in Ascent(Tree, t))
        BY DEF Bearing
      <4>2. k.node = n \/ n \in Ascent(Tree, k.node)
        BY <2>5, <3>2, <4>1
      <4>3. n = t \/ n \in Ascent(Tree, t)
        BY <4>1, <4>2, AscentNests
      <4>4. Pin(n, TRUE) \in Bearing(Tree, t, to.pins)
        BY <2>3, <4>3 DEF Bearing
      <4> QED
        BY <4>4
    <3> QED
      BY <3>1, <3>2
  <2>8. to.pins # {} /\ \A k \in to.pins : k.exclude => k \in st.pins
    BY <2>3, <2>6
  <2>9. Reach(st, d) \subseteq Reach(to, d)
    BY <2>1, <2>3, <2>4, <2>7, <2>8, ReachGrows
  <2> QED
    BY <2>1, <2>9
<1>3. CASE s.node = NoNode /\ (d \/ HasExcludes(st))
  <2> DEFINE ps == {p \in st.pins : p.exclude}
             to == With(Keeping(st, ps), RootNode, TRUE)
  <2>1. After(s, st, d) = to /\ RootNode \in Nodes /\ to \in States
    BY <1>1, <1>3, PlanAssumption DEF Grow
  <2>2. to.pins = ps \cup {Pin(RootNode, TRUE)} /\ to.revoked = st.revoked
        /\ Pin(RootNode, TRUE).node = RootNode /\ Pin(RootNode, TRUE).inherit /\ ~Pin(RootNode, TRUE).exclude
    <3>1. ps \in SUBSET st.pins /\ TRUE \in BOOLEAN
      OBVIOUS
    <3>2. to = With(Keeping(st, ps), RootNode, TRUE)
      OBVIOUS
    <3> HIDE DEF ps, to
    <3> QED
      BY <2>1, <3>1, <3>2 DEF States, Keeping, With, Pin
  <2>3. st.pins = {} => d
    BY <1>3 DEF HasExcludes
  <2>4. ps \subseteq st.pins
    OBVIOUS
  <2> HIDE DEF ps, to
  <2>5. ASSUME NEW t \in Nodes PROVE Bearing(Tree, t, to.pins) # {}
    <3>1. t = RootNode \/ RootNode \in Ascent(Tree, t)
      BY PlanAssumption
    <3>2. Pin(RootNode, TRUE) \in Bearing(Tree, t, to.pins)
      BY <2>2, <3>1 DEF Bearing
    <3> QED
      BY <3>2
  <2>6. to.pins # {} /\ \A k \in to.pins : k.exclude => k \in st.pins
    BY <2>2, <2>4
  <2>7. Reach(st, d) \subseteq Reach(to, d)
    BY <2>1, <2>2, <2>3, <2>5, <2>6, ReachGrows
  <2> QED
    BY <2>1, <2>7
<1>4. CASE s.node = NoNode /\ ~(d \/ HasExcludes(st))
  <2> DEFINE to == Keeping(st, {})
  <2>1. After(s, st, d) = to /\ to \in States
    BY <1>1, <1>4 DEF Grow
  <2>2. to.pins = {} /\ to.revoked = st.revoked
    BY DEF Keeping, States
  <2> HIDE DEF to
  <2>3. ASSUME NEW t \in Reach(st, d) PROVE t \in Reach(to, d)
    <3>1. t \in Nodes
      BY DEF Reach
    <3>2. ~st.revoked
      BY <3>1, ReachFacts
    <3> QED
      BY <1>4, <2>1, <2>2, <3>1, <3>2, ReachFacts
  <2> QED
    BY <2>1, <2>3
<1> QED
  BY <1>2, <1>3, <1>4

(* What a recorded change is called is what it did to where each grant     *)
(* reaches, as the gate decides it (Build, apply, CoveredBy): adding a     *)
(* place and growing took nothing away, removing a place and revoking gave *)
(* nothing.                                                                *)
THEOREM KindsAreKept == Spec => []KindsKeepTheirWord
<1>1. IInv => KindsKeepTheirWord
  <2> SUFFICES ASSUME IInv, NEW i \in DOMAIN changes, NEW g \in DOMAIN changes[i].items
               PROVE  LET it == changes[i].items[g] IN
                      /\ changes[i].spec.kind \in {"add_place", "grow"} =>
                           Reach(it.before, deny) \subseteq Reach(it.after, deny)
                      /\ changes[i].spec.kind \in {"remove_place", "revoke"} =>
                           Reach(it.after, deny) \subseteq Reach(it.before, deny)
    BY DEF KindsKeepTheirWord
  <2> DEFINE it == changes[i].items[g]
             s == changes[i].spec
  <2>1. Shape /\ Recorded /\ deny \in BOOLEAN
    BY DEF IInv, Shape
  <2>2. s \in Specs /\ it.before \in States
    BY <2>1, ChangeFacts, ItemFacts DEF Good
  <2>3. Altered(s, g, it.before, deny) /\ it.after = After(s, it.before, deny)
    BY <2>1 DEF Recorded, IsDone
  <2> HIDE DEF it, s
  <2>4. s.kind = "add_place" => Reach(it.before, deny) \subseteq Reach(it.after, deny)
    BY <2>1, <2>2, <2>3, AddNeverTakes
  <2>5. s.kind = "grow" => Reach(it.before, deny) \subseteq Reach(it.after, deny)
    BY <2>1, <2>2, <2>3, GrowNeverTakes
  <2>6. s.kind = "remove_place" => Reach(it.after, deny) \subseteq Reach(it.before, deny)
    BY <2>1, <2>2, <2>3, RemoveNeverGives
  <2>7. s.kind = "revoke" => Reach(it.after, deny) \subseteq Reach(it.before, deny)
    BY <2>1, <2>2, <2>3, RevokeNeverGives
  <2> QED
    BY <2>4, <2>5, <2>6, <2>7 DEF it, s
<1> QED
  BY <1>1, InvariantHolds, PTL
=============================================================================
