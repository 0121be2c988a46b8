---------------------------- MODULE GrantLedger ----------------------------
(***************************************************************************)
(* What bulk changes of grants promise: a change happens at one moment, to *)
(* the grants as they are at that moment, and is recorded with what they   *)
(* were; undone, it puts back what was there, once, and only while every   *)
(* grant of it is as the change left it. GrantChange, transactions of      *)
(* several statements with row locks, is shown to implement it.            *)
(***************************************************************************)
EXTENDS GrantPlan, Sequences

CONSTANTS Grants, Changes, Starts

VARIABLES
    grants,     \* the grants there are -> their state
    changes,    \* the recorded changes, in order
    deny        \* whether no picks on the axis means nowhere

lvars == <<grants, changes, deny>>

Init == grants \in Starts /\ deny \in BOOLEAN /\ changes = <<>>

Create(g) ==
    /\ g \notin DOMAIN grants
    /\ DOMAIN grants' = DOMAIN grants \cup {g}
    /\ grants'[g] \in States
    /\ \A h \in DOMAIN grants : grants'[h] = grants[h]
    /\ UNCHANGED <<changes, deny>>

Revoke(g) ==
    /\ grants' = [grants EXCEPT ![g].revoked = TRUE]
    /\ UNCHANGED <<changes, deny>>

Item(s, g) == [before |-> grants[g], after |-> After(s, grants[g], deny)]

Change(s, gs) ==
    /\ gs # {} /\ \A g \in gs : ~grants[g].revoked /\ Altered(s, g, grants[g], deny)
    /\ grants' = [g \in DOMAIN grants |-> IF g \in gs THEN Item(s, g).after ELSE grants[g]]
    /\ changes' = Append(changes, [spec |-> s, items |-> [g \in gs |-> Item(s, g)], undone |-> FALSE])
    /\ UNCHANGED deny

Undo(i) ==
    LET items == changes[i].items IN
    /\ ~changes[i].undone
    /\ \A g \in DOMAIN items : grants[g] = items[g].after
    /\ grants' = [g \in DOMAIN grants |-> IF g \in DOMAIN items THEN items[g].before ELSE grants[g]]
    /\ changes' = [changes EXCEPT ![i].undone = TRUE]
    /\ UNCHANGED deny

Next ==
    \/ \E g \in Grants : Create(g)
    \/ \E g \in DOMAIN grants : Revoke(g)
    \/ \E s \in Changes, gs \in SUBSET DOMAIN grants : Change(s, gs)
    \/ \E i \in DOMAIN changes : Undo(i)

Spec == Init /\ [][Next]_lvars
=============================================================================
