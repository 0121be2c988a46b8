----------------------------- MODULE Authorize -----------------------------
(***************************************************************************)
(* The authorization decision, in the two forms the program keeps of it:   *)
(* the gate's evaluator, which walks the parent pointers of its snapshot   *)
(* (internal/gate/snapshot), and the database's authorize(), which probes  *)
(* the closure table (internal/platform/schema/routines.go).  Both are     *)
(* written as operators over the data they read:                           *)
(*                                                                         *)
(*   parent    node -> its parent, None at an axis root, Absent for a node *)
(*             that is not in the tree;                                    *)
(*   closure   the rows <<ancestor, descendant, depth>> of scope_closure;  *)
(*   c         what the catalog says of one identity and one permission:   *)
(*             status, level  the identity's state and assurance level,    *)
(*             known, min     whether the permission exists, and the       *)
(*                            assurance it demands,                        *)
(*             strict         the axes with default_effect = 'deny',       *)
(*             share          until when a record is shared with the       *)
(*                            identity (0: it is not),                     *)
(*             grants         the identity's grants: from, until (0: open- *)
(*                            ended), confers (its role has the            *)
(*                            permission), self (self-scoped) and scopes,  *)
(*                            a function from the constrained axes to sets *)
(*                            of constraints;                              *)
(*   req       one question: targets, a function from the supplied axes to *)
(*             nodes, owner (the "_owner" target: "none", "self" or        *)
(*             "other") and record (the shared record is named).           *)
(***************************************************************************)
EXTENDS Naturals, FiniteSets

CONSTANTS
    Nodes,          \* scope nodes of every axis
    Axes,           \* scope axes
    AxisOf,         \* node -> its axis
    None, Absent    \* what a root and a missing node have for a parent

ASSUME TreeAssumption ==
    /\ IsFiniteSet(Nodes)
    /\ AxisOf \in [Nodes -> Axes]
    /\ None \notin Nodes /\ Absent \notin Nodes /\ None # Absent

Constraints == [node : Nodes, inherit : BOOLEAN, exclude : BOOLEAN]

----------------------------------------------------------------------------
(* ScopeIndex: the tree as the gate holds it. *)

Known(parent, n) == parent[n] # Absent

(* NewScopeIndex: a parent that is not itself in the set makes a root. *)
Linked(parent, n) ==
    IF parent[n] \in Nodes /\ Known(parent, parent[n]) THEN parent[n] ELSE None

(* The nodes the walk up from t meets, in at most as many steps as there   *)
(* are nodes.                                                              *)
Ascent(parent, t) ==
    LET len == Cardinality({n \in Nodes : Known(parent, n)})
        up[k \in Nat] == IF k = 0 THEN Linked(parent, t)
                         ELSE IF up[k - 1] = None THEN None
                         ELSE Linked(parent, up[k - 1])
    IN  {up[k] : k \in 0 .. len - 1} \ {None}

(* A bug: the walk stops at the first include, and never meets an exclude  *)
(* further up.                                                             *)
CoveredByFirstInclude(parent, t, cs) ==
    LET here  == {c \in cs : c.node = t}
        above == {c \in cs : c.inherit /\ c.node \in Ascent(parent, t)}
    IN  /\ Known(parent, t)
        /\ ~ \E c \in here : c.exclude
        /\ \/ here # {}
           \/ above # {} /\ ~ \E c \in above : c.exclude

CoveredBy(parent, t, cs) ==
    LET here       == {c \in cs : c.node = t}
        above      == {c \in cs : c.inherit /\ c.node \in Ascent(parent, t)}
        included   == here # {}
        hasExclude == \E c \in cs : c.exclude
    IN  /\ Known(parent, t)
        /\ ~ \E c \in here : c.exclude
        /\ \/ included /\ ~hasExclude
           \/ included /\ ~ \E c \in cs : c.inherit
           \/ /\ \E c \in cs : c.inherit
              /\ ~ \E c \in above : c.exclude
              /\ included \/ above # {}

----------------------------------------------------------------------------
(* The gate's evaluator. *)

Live(g, now) == g.from <= now /\ (g.until = 0 \/ g.until > now)

StrictAxesAddressed(c, g) == c.strict \subseteq DOMAIN g.scopes

(* grantScopesSatisfied with no axis open, otherAxesSatisfied with one: a  *)
(* constrained axis without a target, or with one the snapshot has never   *)
(* seen, is not satisfied.                                                 *)
AxesSatisfied(parent, g, targets, open) ==
    \A x \in DOMAIN g.scopes \ open :
        /\ x \in DOMAIN targets
        /\ CoveredBy(parent, targets[x], g.scopes[x])

SharedRecordAllows(c, now) == c.share > now

Evaluate(parent, c, req, now) ==
    /\ c.status = "active"
    /\ c.known
    /\ c.min <= c.level
    /\ \/ \E g \in c.grants :
            /\ Live(g, now)
            /\ g.confers
            /\ g.self => req.owner = "self"
            /\ AxesSatisfied(parent, g, req.targets, {})
            /\ StrictAxesAddressed(c, g)
       \/ req.record /\ SharedRecordAllows(c, now)

GrantQualifies(c, g, now) == Live(g, now) /\ g.confers /\ StrictAxesAddressed(c, g)

(* A bug: a place that reaches only itself carries no exceptions. *)
ConstraintsToNodesLoosely(cs) ==
    {[node |-> c.node, inherit |-> c.inherit,
      except |-> IF c.inherit THEN {e \in cs : e.exclude} ELSE {}]
        : c \in {d \in cs : ~d.exclude}}

(* Every include is a place, and every exclude of the same grant hangs off *)
(* each of them.                                                           *)
ConstraintsToNodes(cs) ==
    {[node |-> c.node, inherit |-> c.inherit, except |-> {e \in cs : e.exclude}]
        : c \in {d \in cs : ~d.exclude}}

(* Where, on axis open, the identity may use the permission. *)
GrantedNodes(parent, c, open, fixed, now) ==
    LET pass   == c.status = "active" /\ c.min <= c.level
        able   == {g \in c.grants : pass /\ GrantQualifies(c, g, now)}
        placed == {g \in able : ~g.self /\ AxesSatisfied(parent, g, fixed, {open})}
        every  == \E g \in placed : open \notin DOMAIN g.scopes
    IN  [own        |-> \E g \in able : g.self,
         everywhere |-> every,
         nodes      |-> IF every THEN {}
                        ELSE UNION {ConstraintsToNodes(g.scopes[open]) : g \in placed}]

(* Whether some live grant, of any role, puts the identity at node n. *)
Reaches(parent, c, axis, n, now) ==
    /\ c.status = "active"
    /\ Known(parent, n)
    /\ \E g \in c.grants :
         /\ Live(g, now) /\ ~g.self /\ StrictAxesAddressed(c, g)
         /\ axis \in DOMAIN g.scopes => CoveredBy(parent, n, g.scopes[axis])

----------------------------------------------------------------------------
(* The database's authorize(). *)

(* A constraint covers the target of its axis. *)
Covers(closure, k, t) ==
    \E r \in closure : r[1] = k.node /\ r[2] = t /\ (k.inherit \/ r[3] = 0)

(* axis_eval: the minimum over an axis's constraints of 2 for one that     *)
(* does not cover, 0 for an exclude and 1 for an include that do.          *)
AxisEval(closure, cs, targets, x) ==
    LET rank(k) == IF ~(x \in DOMAIN targets /\ Covers(closure, k, targets[x])) THEN 2
                   ELSE IF k.exclude THEN 0 ELSE 1
        ranks   == {rank(k) : k \in cs}
    IN  1 \in ranks /\ 0 \notin ranks

SqlAuthorize(closure, c, req, now) ==
    LET gates == c.status = "active" /\ c.known /\ c.min <= c.level
    IN  \/ \E g \in c.grants :
             /\ gates /\ g.confers
             /\ g.from <= now /\ (g.until = 0 \/ g.until > now)
             /\ ~g.self \/ req.owner = "self"
             /\ \A x \in DOMAIN g.scopes : AxisEval(closure, g.scopes[x], req.targets, x)
             /\ \A x \in c.strict : x \in DOMAIN g.scopes
        \/ req.record /\ gates /\ c.share > now
=============================================================================
