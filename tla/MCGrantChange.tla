--------------------------- MODULE MCGrantChange ---------------------------
(* Small instances of GrantChange for TLC. *)
EXTENDS GrantChange, TLC

CONSTANTS org, o, a, b, c, g1, g2, g3, p1, p2

(* o > a > b and o > c. *)
OneAxis == [n \in Nodes |-> org]
Places == [n \in Nodes |-> IF n = o THEN None ELSE IF n = b THEN a ELSE o]

ByName == [g \in Grants |-> IF g = g3 THEN 0 ELSE IF g = g1 THEN 1 ELSE 2]

Leaving(n, i) == [node |-> n, inherit |-> i, exclude |-> TRUE]
State(pins, until) == [pins |-> pins, until |-> until, revoked |-> FALSE]

Alter(kind, node, inherit) ==
    [kind |-> kind, node |-> node, to |-> NoNode, inherit |-> inherit, until |-> 0,
     covers |-> {}, siblings |-> NoNode]

Ending == [Alter("set_until", NoNode, FALSE) EXCEPT !.until = 3, !.covers = {o}]

(* Two people with places of their own, one everywhere but in c and until  *)
(* time 2, and a third, first by name, who may be given the whole of a by  *)
(* a membership while a change is under way: one more than the cap.        *)
TwoPeople == {(g1 :> State({Pin(a, TRUE), Pin(c, FALSE)}, 0)) @@
              (g2 :> State({Pin(o, TRUE), Leaving(c, TRUE)}, 2))}
Crowd == [starts |-> TwoPeople, fresh |-> {State({Pin(a, TRUE)}, 0)}, admins |-> Admins,
          calls |-> 1, until |-> 2,
          changes |-> {Alter("grow", c, FALSE), Alter("remove_place", c, FALSE), Ending,
                       Alter("revoke", NoNode, FALSE)}]

(* Changes of both people, and of one, undone and done again. *)
Undone == [starts |-> TwoPeople, fresh |-> {}, admins |-> Admins, calls |-> 3, until |-> 1,
           changes |-> {Alter("add_place", b, FALSE), Alter("remove_place", c, FALSE),
                        Alter("revoke", NoNode, FALSE)}]

(* One person with any two picks the database accepts, and every kind of   *)
(* change.                                                                 *)
Picks == {State(ps, 0) : ps \in {q \in SUBSET [node : Nodes, inherit : BOOLEAN, exclude : BOOLEAN] :
                                   Cardinality(q) <= 2 /\ Writable(State(q, 0))}}
EveryKind == [starts |-> {(g1 :> st) : st \in Picks}, fresh |-> {}, admins |-> {p1},
              calls |-> 1, until |-> 1, changes |->
    {Alter("add_place", n, i) : n \in Nodes, i \in BOOLEAN}
    \cup {Alter("remove_place", n, FALSE) : n \in Nodes}
    \cup {Alter("grow", n, FALSE) : n \in Nodes \cup {NoNode}}
    \cup {[Alter("swap_place", n, TRUE) EXCEPT !.to = c] : n \in {a, b}}
    \cup {[Alter("add_place", n, TRUE) EXCEPT !.siblings = n] : n \in {a, c}}
    \cup {[Alter("grow", NoNode, FALSE) EXCEPT !.covers = {a, c}], Alter("revoke", NoNode, FALSE)}]

Three == [crowd |-> Crowd, undone |-> Undone, kinds |-> EveryKind]
=============================================================================
