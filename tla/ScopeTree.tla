----------------------------- MODULE ScopeTree -----------------------------
(***************************************************************************)
(* The scope tree and its two readers.  The tree is kept twice: parent_id  *)
(* of scope_nodes, from which the gate's snapshot is built, and            *)
(* scope_closure, which authorize() probes.  scope_add_node and            *)
(* scope_move_node write both, statement by statement, inside READ         *)
(* COMMITTED transactions: every statement sees what was committed when it *)
(* started, and its own transaction's changes.                             *)
(*                                                                         *)
(* A writer's transaction is one call of the admin API ("admin"), a bulk   *)
(* upsert ("upsert"), whose rows share a transaction that the first error  *)
(* aborts, or a feed run through scope_sync_apply ("sync"), which sets a   *)
(* savepoint at every row and goes on after an error.                      *)
(***************************************************************************)
EXTENDS Authorize

CONSTANTS
    Writers,        \* connections that change the tree
    Duties,         \* what each writer may do: a set of functions Writers -> SUBSET {"add", "move"}
    Kinds,          \* the kinds of transaction there are
    Trees,          \* the parent maps to start from
    Catalogs,       \* what grants, permissions and identities may say, to decide with
    Legal,          \* node -> where the foreign key and the level rules let it sit
    MaxDepth,       \* scope_max_depth(): 32767 in the code
    MaxRows,        \* rows of a bulk upsert or a feed
    MaxTx,          \* transactions
    MaxTime         \* the latest time a decision is asked for

VARIABLES
    parent,         \* scope_nodes.parent_id, as committed
    closure,        \* scope_closure, as committed
    tx,             \* what each writer's transaction has done and is doing
    duty,           \* what each writer does in this behaviour
    begun           \* transactions begun

vars == <<parent, closure, tx, duty, begun>>

ASSUME WritersAssumption ==
    /\ Duties \subseteq [Writers -> SUBSET {"add", "move"}]
    /\ Kinds \subseteq {"admin", "upsert", "sync"}
    /\ Trees \subseteq [Nodes -> Nodes \cup {None, Absent}]
    /\ Legal \in [Nodes -> SUBSET Nodes]
    /\ {MaxDepth, MaxRows, MaxTx, MaxTime} \subseteq Nat

(* The function x |-> y, and the function that is f, and g where f is not  *)
(* defined.                                                                *)
At(x, y) == [z \in {x} |-> y]
Over(f, g) == [x \in DOMAIN f \cup DOMAIN g |-> IF x \in DOMAIN f THEN f[x] ELSE g[x]]

(* The reflexive, transitive reading of a parent map, with distances: what *)
(* scope_closure ought to hold.                                            *)
Paths(up) ==
    LET size    == Cardinality(Nodes)
        at[k \in Nat] == IF k = 0 THEN {<<n, n, 0>> : n \in {m \in Nodes : up[m] # Absent}}
                   ELSE {<<up[r[1]], r[2], k>> : r \in {q \in at[k - 1] : up[q[1]] \in Nodes}}
    IN  UNION {at[k] : k \in 0 .. size}

(* What the tables hold when a behaviour starts: a parent is in the tree,  *)
(* no place is above itself, none is too deep (what scope_add_node and     *)
(* scope_move_node leave); a constraint names a place, and a self-scoped   *)
(* grant has none (trg_self_scope_guard).                                  *)
ASSUME TreesAssumption ==
    \A t \in Trees :
        /\ \A n \in Nodes : t[n] \in Nodes => Known(t, t[n])
        /\ \A n \in Nodes : n \notin Ascent(t, n)
        /\ \A r \in Paths(t) : r[3] <= MaxDepth

ASSUME CatalogsAssumption ==
    \A c \in Catalogs : \A g \in c.grants :
        /\ \A x \in DOMAIN g.scopes : g.scopes[x] \subseteq Constraints
        /\ g.self => DOMAIN g.scopes = {}

Idle == [pc |-> "idle", kind |-> "admin", rows |-> 0, node |-> None, dest |-> None,
         want |-> {}, rem |-> {}, add |-> {}, par |-> <<>>,
         save |-> [rem |-> {}, add |-> {}, par |-> <<>>]]

Init ==
    /\ parent \in Trees
    /\ closure = Paths(parent)
    /\ duty \in Duties
    /\ tx = [w \in Writers |-> Idle]
    /\ begun = 0

----------------------------------------------------------------------------
(* What a statement of writer w's transaction sees. *)

View(w) == (closure \ tx[w].rem) \cup tx[w].add
ViewParent(w, n) == IF n \in DOMAIN tx[w].par THEN tx[w].par[n] ELSE parent[n]

SameKey(r, s) == r[1] = s[1] /\ r[2] = s[2]

(* The writers a statement of w waits for: a row it would delete is being  *)
(* deleted by them, a key it would insert is being inserted or deleted, or *)
(* they hold the tenant's row of catalog_version, which every write of     *)
(* scope_nodes bumps in an after-statement trigger and keeps locked to the *)
(* end of its transaction.                                                 *)
WaitsFor(w) ==
    LET t == tx[w] IN
    {q \in Writers \ {w} :
        \/ t.pc = "severing" /\ t.want \cap tx[q].rem # {}
        \/ /\ t.pc = "grafting"
           /\ \E r \in t.want, s \in tx[q].add \cup tx[q].rem : SameKey(r, s)
        \/ t.pc \in {"insert", "reparent"} /\ DOMAIN tx[q].par # {}}

Depth(rows) == IF rows = {} THEN 0
               ELSE CHOOSE k \in {r[3] : r \in rows} : \A r \in rows : r[3] <= k
DepthOf(w, n)  == Depth({r \in View(w) : r[2] = n})
HeightOf(w, n) == Depth({r \in View(w) : r[1] = n})

----------------------------------------------------------------------------
(* The end of a row, of a transaction, of a connection. *)

Goes(w, fields) == tx' = [tx EXCEPT ![w] = [f \in DOMAIN @ |->
                              IF f \in DOMAIN fields THEN fields[f] ELSE @[f]]]

Unchanged == UNCHANGED <<parent, closure, duty, begun>>

(* A bug: a row that fails keeps what it had written. *)
FailKeepsWrites(w) ==
    IF tx[w].kind = "sync" THEN Goes(w, [pc |-> "row", want |-> {}])
                           ELSE tx' = [tx EXCEPT ![w] = Idle]

(* An error: a feed goes back to the row's savepoint, anything else rolls  *)
(* its transaction back.                                                   *)
Fail(w) ==
    IF tx[w].kind = "sync" THEN Goes(w, Over([pc |-> "row", want |-> {}], tx[w].save))
                           ELSE tx' = [tx EXCEPT ![w] = Idle]

Begin(w, kind) ==
    /\ tx[w].pc = "idle"
    /\ duty[w] # {}
    /\ begun < MaxTx
    /\ begun' = begun + 1
    /\ Goes(w, [pc |-> "row", kind |-> kind])
    /\ UNCHANGED <<parent, closure, duty>>

(* The next row: node n under p.  A node that is not there is added, one   *)
(* that is there is moved (by a feed only when its parent differs).        *)
Row(w, n, p) ==
    LET op == IF ViewParent(w, n) = Absent THEN "add" ELSE "move" IN
    /\ tx[w].pc = "row"
    /\ tx[w].rows < IF tx[w].kind = "admin" THEN 1 ELSE MaxRows
    /\ op \in duty[w]
    /\ AxisOf[p] = AxisOf[n]
    /\ ViewParent(w, p) # Absent
    /\ op = "move" /\ tx[w].kind # "admin" => ViewParent(w, n) # p
    /\ Goes(w, [pc   |-> IF op = "add" THEN "measure" ELSE "probe",
                rows |-> tx[w].rows + 1, node |-> n, dest |-> p,
                save |-> [rem |-> tx[w].rem, add |-> tx[w].add, par |-> tx[w].par]])
    /\ Unchanged

(* A row the commit deletes is gone for a DELETE that waits for it, though *)
(* the commit may bring an equal one.                                      *)
Commit(w) ==
    /\ tx[w].pc = "row" /\ tx[w].rows > 0
    /\ parent' = Over(tx[w].par, parent)
    /\ closure' = View(w)
    /\ tx' = [q \in Writers |-> IF q = w THEN Idle
                                ELSE IF tx[q].pc = "severing"
                                THEN [tx[q] EXCEPT !.want = @ \ tx[w].rem]
                                ELSE tx[q]]
    /\ UNCHANGED <<duty, begun>>

(* The connection is lost, or the caller gives up: the transaction rolls   *)
(* back whatever it was doing.                                             *)
Lose(w) ==
    /\ tx[w].pc # "idle"
    /\ tx' = [tx EXCEPT ![w] = Idle]
    /\ Unchanged

(* A statement that waits for another transaction is ended as the victim   *)
(* of a deadlock, between these writers or with a transaction that is not  *)
(* modelled.                                                               *)
Deadlock(w) ==
    /\ WaitsFor(w) # {}
    /\ Fail(w)
    /\ Unchanged

----------------------------------------------------------------------------
(* scope_add_node *)

AddMeasure(w) ==
    /\ tx[w].pc = "measure"
    /\ IF DepthOf(w, tx[w].dest) + 1 > MaxDepth THEN Fail(w) ELSE Goes(w, [pc |-> "insert"])
    /\ Unchanged

(* INSERT INTO scope_nodes: the unique indexes, the level rules, the       *)
(* catalog's version.                                                      *)
AddInsert(w) ==
    LET n == tx[w].node IN
    /\ tx[w].pc = "insert"
    /\ WaitsFor(w) = {}
    /\ IF parent[n] # Absent \/ tx[w].dest \notin Legal[n]
       THEN Fail(w)
       ELSE Goes(w, [pc |-> "close", par |-> Over(At(n, tx[w].dest), tx[w].par)])
    /\ Unchanged

(* INSERT INTO scope_closure: the parent's ancestors, one further, and the *)
(* node itself.                                                            *)
AddClose(w) ==
    LET n == tx[w].node IN
    /\ tx[w].pc = "close"
    /\ Goes(w, [pc |-> "row",
                add |-> tx[w].add \cup {<<n, n, 0>>}
                          \cup {<<r[1], n, r[3] + 1>> : r \in {q \in View(w) : q[2] = tx[w].dest}}])
    /\ Unchanged

----------------------------------------------------------------------------
(* scope_move_node *)

InsideSubtree(w) == \E r \in View(w) : r[1] = tx[w].node /\ r[2] = tx[w].dest

MoveProbe(w) ==
    /\ tx[w].pc = "probe"
    /\ IF InsideSubtree(w) THEN Fail(w) ELSE Goes(w, [pc |-> "weigh"])
    /\ Unchanged

(* A bug: the ceiling is compared with the new parent's depth alone. *)
TooDeepAlone(w) == DepthOf(w, tx[w].dest) + 1 > MaxDepth

TooDeep(w) == DepthOf(w, tx[w].dest) + HeightOf(w, tx[w].node) + 1 > MaxDepth

MoveWeigh(w) ==
    /\ tx[w].pc = "weigh"
    /\ IF TooDeep(w) THEN Fail(w) ELSE Goes(w, [pc |-> "sever"])
    /\ Unchanged

(* The links from former ancestors into the moving subtree. *)
Severed(w) ==
    LET n     == tx[w].node
        below == {r[2] : r \in {q \in View(w) : q[1] = n}}
        above == {r[1] : r \in {q \in View(w) : q[2] = n}} \ {n}
    IN  {r \in View(w) : r[2] \in below /\ r[1] \in above}

MoveSever(w) ==
    /\ tx[w].pc = "sever"
    /\ Goes(w, [pc |-> "severing", want |-> Severed(w)])
    /\ Unchanged

(* The DELETE waits for rows another transaction is deleting, and skips    *)
(* those that are gone when that one has committed.                        *)
MoveSevered(w) ==
    /\ tx[w].pc = "severing"
    /\ WaitsFor(w) = {}
    /\ Goes(w, [pc |-> "graft", want |-> {},
                rem |-> tx[w].rem \cup (tx[w].want \cap closure),
                add |-> tx[w].add \ tx[w].want])
    /\ Unchanged

(* The links from the new parent's ancestors into the subtree. *)
Grafted(w) ==
    {<<sup[1], sub[2], sup[3] + sub[3] + 1>> :
        sup \in {r \in View(w) : r[2] = tx[w].dest},
        sub \in {r \in View(w) : r[1] = tx[w].node}}

MoveGraft(w) ==
    /\ tx[w].pc = "graft"
    /\ Goes(w, [pc |-> "grafting", want |-> Grafted(w)])
    /\ Unchanged

(* The INSERT waits for the keys other transactions are writing, and fails *)
(* on one that is there.                                                   *)
MoveGrafted(w) ==
    /\ tx[w].pc = "grafting"
    /\ WaitsFor(w) = {}
    /\ IF \E r \in tx[w].want, s \in View(w) : SameKey(r, s)
       THEN Fail(w)
       ELSE Goes(w, [pc |-> "reparent", want |-> {}, add |-> tx[w].add \cup tx[w].want])
    /\ Unchanged

MoveReparent(w) ==
    LET n == tx[w].node IN
    /\ tx[w].pc = "reparent"
    /\ WaitsFor(w) = {}
    /\ IF tx[w].dest \notin Legal[n]
       THEN Fail(w)
       ELSE Goes(w, [pc |-> "row", par |-> Over(At(n, tx[w].dest), tx[w].par)])
    /\ Unchanged

----------------------------------------------------------------------------
Next ==
    \E w \in Writers :
        \/ \E kind \in Kinds : Begin(w, kind)
        \/ \E n, p \in Nodes : Row(w, n, p)
        \/ Commit(w) \/ Lose(w) \/ Deadlock(w)
        \/ AddMeasure(w) \/ AddInsert(w) \/ AddClose(w)
        \/ MoveProbe(w) \/ MoveWeigh(w) \/ MoveSever(w) \/ MoveSevered(w)
        \/ MoveGraft(w) \/ MoveGrafted(w) \/ MoveReparent(w)

Spec == Init /\ [][Next]_vars

----------------------------------------------------------------------------
(* Requests: a node, possibly one that does not exist, on each axis the    *)
(* caller names; an owner; the shared record, or none.                     *)
OnAxis(x) == {n \in Nodes : AxisOf[n] = x}
TargetsOf(xs) == {f \in [xs -> Nodes] : \A x \in xs : AxisOf[f[x]] = x}
Requests == [targets : UNION {TargetsOf(xs) : xs \in SUBSET Axes},
             owner : {"none", "self", "other"}, record : BOOLEAN]

Ask(targets, owner) == [targets |-> targets, owner |-> owner, record |-> FALSE]

(* The columns of the tree and of a transaction hold what they may: a      *)
(* depth above all fits its smallint, whatever is added or grafted where.  *)
TypeOK ==
    /\ parent \in [Nodes -> Nodes \cup {None, Absent}]
    /\ closure \subseteq Nodes \X Nodes \X (0 .. MaxDepth)
    /\ begun \in 0 .. MaxTx /\ duty \in Duties
    /\ \A w \in Writers :
         /\ tx[w].pc \in {"idle", "row", "measure", "insert", "close", "probe", "weigh",
                          "sever", "severing", "graft", "grafting", "reparent"}
         /\ tx[w].kind \in Kinds \cup {"admin"} /\ tx[w].rows \in 0 .. MaxRows + 1
         /\ tx[w].add \subseteq Nodes \X Nodes \X (0 .. MaxDepth)
         /\ DOMAIN tx[w].par \subseteq Nodes

(* The closure table says of every two nodes what the parent pointers say, *)
(* at the right distance: whatever scope_add_node and scope_move_node did, *)
(* in whatever order, and however often a row of a feed failed half way    *)
(* (assertClosureMatchesTree in test/integration/scope_move_test.go).      *)
ClosureMatchesTree == closure = Paths(parent)

(* Decisions read committed data, which only a commit changes: it is       *)
(* enough to ask when nobody is writing, a state in which every committed  *)
(* tree is met (Lose).                                                     *)
Quiet == \A w \in Writers : tx[w].pc = "idle"

(* The gate and the database never disagree: Evaluate over a snapshot of   *)
(* the tree allows a request exactly when authorize() does, though one     *)
(* walks parent pointers and the other probes a closure that is maintained *)
(* row by row.                                                             *)
EnginesAgree ==
    Quiet => \A c \in Catalogs, req \in Requests, now \in 0 .. MaxTime :
        Evaluate(parent, c, req, now) = SqlAuthorize(closure, c, req, now)

(* The place n is inside the listed place k, and outside its exceptions. *)
Within(rows, n, k) == Covers(rows, k, n) /\ ~ \E e \in k.except : Covers(rows, e, n)

(* GrantedNodes with an axis left open lists exactly the places where      *)
(* Evaluate allows, so an application that filters by the list shows       *)
(* neither more nor less than one that asks about every row; and it says   *)
(* OwnRecords only when the identity's own records pass at every place.    *)
ListSaysWhereAllowed ==
    Quiet => \A c \in {k \in Catalogs : k.known}, now \in 0 .. MaxTime, x \in Axes :
        \A fixed \in UNION {TargetsOf(xs) : xs \in SUBSET (Axes \ {x})} :
            LET list == GrantedNodes(parent, c, x, fixed, now)
                allowed(n, owner) == Evaluate(parent, c, Ask(Over(At(x, n), fixed), owner), now)
            IN  \A n \in {m \in OnAxis(x) : Known(parent, m)} :
                  /\ allowed(n, "none")
                       = (list.everywhere \/ \E k \in list.nodes : Within(closure, n, k))
                  /\ list.own => allowed(n, "self")

(* ListSaysWhereAllowed, and a person whom some grant allows at a place    *)
(* can pin a session to it: SwitchScope's Reaches never refuses where      *)
(* Evaluate allows.                                                        *)
AnswersAgree ==
    /\ ListSaysWhereAllowed
    /\ Quiet => \A c \in Catalogs, now \in 0 .. MaxTime, xs \in SUBSET Axes :
        \A f \in TargetsOf(xs) : Evaluate(parent, c, Ask(f, "none"), now) =>
            \A x \in xs : Known(parent, f[x]) => Reaches(parent, c, x, f[x], now)

=============================================================================
