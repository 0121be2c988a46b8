----------------------------- MODULE GrantPlan -----------------------------
(***************************************************************************)
(* What a bulk change of grants does to one grant: grantchange.Build and   *)
(* apply, as operators over the grant's state, a record of                 *)
(*                                                                         *)
(*   pins      its picks on the axis, constraints as in Authorize,         *)
(*   until     its end date, 0 for none,                                   *)
(*   revoked   whether it was taken away.                                  *)
(*                                                                         *)
(* A change s says kind, node, to (NoNode: not given), inherit, until, and *)
(* which grants it is for: covers, the places their picks name, and        *)
(* siblings, a place they miss while naming every other under its parent.  *)
(* One axis and one role are modelled; the others are not touched.         *)
(***************************************************************************)
EXTENDS Authorize

CONSTANTS
    Tree,       \* node -> its parent
    RootNode,   \* the axis root
    NoNode,     \* no place named
    FromGroup,  \* the grants a membership keeps in step
    SelfScoped  \* the grants limited to the person's own records

(* Every node of an axis but its root has a parent, and the way up ends at *)
(* the root.                                                               *)
ASSUME PlanAssumption ==
    /\ Tree \in [Nodes -> Nodes \cup {None}]
    /\ RootNode \in Nodes /\ NoNode \notin Nodes
    /\ \A n \in Nodes \ {RootNode} : RootNode \in Ascent(Tree, n)

PlaceKinds == {"add_place", "remove_place", "swap_place", "grow"}

(* What checkSpec lets through: a change of a known kind that names the    *)
(* places it needs.                                                        *)
Specs ==
    {s \in [kind : PlaceKinds \cup {"set_until", "revoke"}, inherit : BOOLEAN, until : Nat,
            node : Nodes \cup {NoNode}, to : Nodes \cup {NoNode},
            covers : SUBSET Nodes, siblings : Nodes \cup {NoNode}] :
        /\ s.kind \in {"add_place", "remove_place", "swap_place"} => s.node # NoNode
        /\ s.kind = "swap_place" => s.to # NoNode}

States == [pins : SUBSET Constraints, until : Nat, revoked : BOOLEAN]

Pin(n, i) == [node |-> n, inherit |-> i, exclude |-> FALSE]

Includes(st) == {p.node : p \in {q \in st.pins : ~q.exclude}}
HasExcludes(st) == \E p \in st.pins : p.exclude
Keeping(st, pins) == [st EXCEPT !.pins = pins]
With(st, n, i) == [st EXCEPT !.pins = @ \cup {Pin(n, i)}]

Below(n) == {m \in Nodes : n \in Ascent(Tree, m)}
Siblings(n) == {m \in Nodes \ {n} : Tree[m] = Tree[n] /\ Tree[n] # None}

Matches(s, st) ==
    /\ s.covers \subseteq Includes(st)
    /\ s.siblings # NoNode =>
          /\ Siblings(s.siblings) # {}
          /\ s.siblings \notin Includes(st)
          /\ Siblings(s.siblings) \subseteq Includes(st)

(* Where it leaves a grant alone: everywhere already, that place already,  *)
(* not that place, the only place.                                         *)
Everywhere(st, deny) == Includes(st) = {} /\ ~deny

SkipRemoveAnyway(s, st) == s.node \notin Includes(st)
SkipRemove(s, st) == s.node \notin Includes(st) \/ Cardinality(Includes(st)) = 1

SkipGrow(s, st, deny) ==
    IF s.node # NoNode THEN Everywhere(st, deny) \/ Pin(s.node, TRUE) \in st.pins
    ELSE IF deny \/ HasExcludes(st)
         THEN Pin(RootNode, TRUE) \in st.pins /\ Includes(st) = {RootNode}
         ELSE Includes(st) = {}

Skips(s, st, deny) ==
    CASE s.kind = "add_place"    -> Everywhere(st, deny) \/ s.node \in Includes(st)
      [] s.kind = "remove_place" -> SkipRemove(s, st)
      [] s.kind = "swap_place"   -> s.node \notin Includes(st)
      [] s.kind = "grow"         -> SkipGrow(s, st, deny)
      [] s.kind = "set_until"    -> st.until = s.until
      [] OTHER                   -> FALSE

(* Everything: no picks, or the top place beside the exceptions. A branch  *)
(* replaces the picks inside it.                                           *)
Grow(s, st, deny) ==
    IF s.node # NoNode
    THEN With(Keeping(st, {p \in st.pins : p.exclude \/ p.node \notin Below(s.node) \cup {s.node}}),
              s.node, TRUE)
    ELSE IF deny \/ HasExcludes(st)
         THEN With(Keeping(st, {p \in st.pins : p.exclude}), RootNode, TRUE)
         ELSE Keeping(st, {})

After(s, st, deny) ==
    CASE s.kind = "add_place" ->
            With(Keeping(st, {p \in st.pins : p.node # s.node}), s.node, s.inherit)
      [] s.kind = "remove_place" ->
            Keeping(st, {p \in st.pins : p.node # s.node \/ p.exclude})
      [] s.kind = "swap_place" ->
            With(Keeping(st, {p \in st.pins : p.node # s.to /\ (p.node # s.node \/ p.exclude)}),
                 s.to, s.inherit)
      [] s.kind = "grow"      -> Grow(s, st, deny)
      [] s.kind = "set_until" -> [st EXCEPT !.until = s.until]
      [] OTHER                -> [st EXCEPT !.revoked = TRUE]

(* Build, for one grant.                                                   *)
Altered(s, g, st, deny) ==
    /\ Matches(s, st)
    /\ g \notin FromGroup
    /\ ~(g \in SelfScoped /\ s.kind \in PlaceKinds)
    /\ ~Skips(s, st, deny)

(* What grant_scopes accepts: its primary key holds one pick per place,    *)
(* and the exclusion guard wants an include beside an exclude.             *)
Writable(st) ==
    /\ \A p, q \in st.pins : p.node = q.node => p = q
    /\ HasExcludes(st) => Includes(st) # {}

(* Where a grant reaches: the decision of Authorize for its picks.         *)
Reach(st, deny) ==
    IF st.revoked \/ (st.pins = {} /\ deny) THEN {}
    ELSE {t \in Nodes : st.pins = {} \/ CoveredBy(Tree, t, st.pins)}
=============================================================================
