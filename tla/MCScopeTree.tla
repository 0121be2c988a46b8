---------------------------- MODULE MCScopeTree ----------------------------
(* Small instances of ScopeTree for TLC. *)
EXTENDS ScopeTree, TLC

CONSTANTS org, product, o, a, b, c, d, p, w1, w2

(* Two axes: org, with its root o, and product, which is its root p. The   *)
(* level rules keep b from under d.                                        *)
AxisFor == [n \in Nodes |-> IF n = p THEN product ELSE org]
LegalFor == [n \in Nodes |-> IF n \in {o, p} THEN {}
                             ELSE ({o, a, b, c, d} \cap Nodes) \ (IF n = b THEN {d} ELSE {})]

(* o > a > b and o > c; d is still to be added. *)
Chain == [n \in Nodes |-> IF n \in {o, p} THEN None ELSE IF n = b THEN a
                          ELSE IF n = d THEN Absent ELSE o]
ChainOnly == {Chain}

(* One writer adds and moves, or both add; and both move. *)
OneMover == {[w \in Writers |-> IF w = w1 THEN {"add", "move"} ELSE {}],
             [w \in Writers |-> {"add"}]}
AllMovers == {[w \in Writers |-> {"move"}]}

Include(n, i) == [node |-> n, inherit |-> i, exclude |-> FALSE]
Exclude(n, i) == [node |-> n, inherit |-> i, exclude |-> TRUE]
Grant(scopes) == [from |-> 0, until |-> 0, confers |-> TRUE, self |-> FALSE, scopes |-> scopes]
Catalog(grants) == [grants |-> grants, strict |-> {}, share |-> 0, status |-> "active",
                    level |-> 0, known |-> TRUE, min |-> 0]

(* One grant with up to three constraints on org, an exclude only beside   *)
(* an include and never on its node.                                       *)
Carved ==
    {Catalog({Grant(org :> {Include(n, i)})}) : n \in {o, a, b}, i \in BOOLEAN}
    \cup {Catalog({Grant(org :> {Include(x[1], i), Exclude(x[2], j)})}) :
            x \in {<<o, a>>, <<o, b>>, <<a, o>>, <<a, b>>, <<b, a>>, <<b, c>>},
            i \in BOOLEAN, j \in BOOLEAN}
    \cup {Catalog({Grant(org :> {Include(x[1], i), Exclude(x[2], j), Include(x[3], TRUE)})}) :
            x \in {<<o, a, b>>, <<b, a, c>>, <<a, b, o>>}, i \in BOOLEAN, j \in BOOLEAN}

Both == Grant((org :> {Include(a, TRUE), Exclude(b, FALSE)}) @@ (product :> {Include(p, FALSE)}))
Own == [Grant(<<>>) EXCEPT !.self = TRUE]
Later == [Grant(org :> {Include(c, TRUE)}) EXCEPT !.from = 1]
Brief == [Grant(<<>>) EXCEPT !.until = 1]
OtherRole == [Grant(<<>>) EXCEPT !.confers = FALSE]

(* Several grants, strict axes, shares, and the gates before them. *)
Gated ==
    {Catalog({Both, Later}), Catalog({Own, Later}), Catalog({Brief, OtherRole}),
     [Catalog({Both, Brief}) EXCEPT !.strict = {org}],
     [Catalog({Own, Later}) EXCEPT !.strict = {product}],
     [Catalog({OtherRole}) EXCEPT !.share = 1],
     [Catalog({Brief}) EXCEPT !.status = "blocked", !.share = 2],
     [Catalog({Brief}) EXCEPT !.min = 1],
     [Catalog({Brief}) EXCEPT !.known = FALSE]}

AllCatalogs == Carved \cup Gated

=============================================================================
