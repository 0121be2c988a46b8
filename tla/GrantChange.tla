---------------------------- MODULE GrantChange ----------------------------
(***************************************************************************)
(* Bulk changes of grants: PreviewGrantChange, ApplyGrantChange and        *)
(* UndoGrantChange of several administrators at once, beside CreateGrant   *)
(* and RevokeGrant.  Each is a READ COMMITTED transaction, statement by    *)
(* statement: the candidates are chosen from what was committed when their *)
(* statement started, locked one after another in the order of usernames,  *)
(* checked again once locked, and only then read and planned for.          *)
(***************************************************************************)
EXTENDS GrantPlan, Sequences

CONSTANTS
    Admins,     \* connections that change grants
    Nobody,     \* who holds a free row
    Grants,     \* the grants of the role there may be
    Rank,       \* grant -> where its person's username sorts
    Scenes,     \* name -> [starts, fresh, changes, admins, calls, until]: what the grants
                \* may be at first (functions from some of Grants), what a new one may
                \* say, which changes are asked for and by whom, how many calls are
                \* made, and the latest time
    MaxGrants   \* how many grants one change may match: 10000 in the code

VARIABLES
    scene,      \* the scene of this behaviour
    grants,     \* grants and grant_scopes, as committed
    changes,    \* grant_changes and grant_change_items
    deny,       \* scope_axes.default_effect is 'deny'
    lock,       \* who has locked each row: a grant, or a recorded change by its number
    call,       \* what each administrator's call has done and is doing
    calls,      \* calls made
    now

vars == <<scene, grants, changes, deny, lock, call, calls, now>>

ASSUME ChangeAssumption ==
    /\ Nobody \notin Admins
    /\ Rank \in [Grants -> Nat]
    /\ MaxGrants \in Nat
    /\ \A k \in DOMAIN Scenes : LET sc == Scenes[k] IN
         /\ \A s \in sc.starts :
              /\ DOMAIN s \subseteq Grants /\ s = [g \in DOMAIN s |-> s[g]]
              /\ \A g \in DOMAIN s : s[g] \in States /\ Writable(s[g])
         /\ sc.fresh \subseteq States
         /\ sc.changes \subseteq Specs
         /\ sc.admins \subseteq Admins
         /\ {sc.calls, sc.until} \subseteq Nat

Here == Scenes[scene]
Rows == Grants \cup 1 .. Here.calls

Rest == [pc |-> "rest", kind |-> "preview", spec |-> NoNode, id |-> 0, began |-> 0,
         seen |-> {}, want |-> {}, cands |-> {}, items |-> <<>>]

Init ==
    /\ scene \in DOMAIN Scenes
    /\ grants \in Here.starts
    /\ deny \in BOOLEAN
    /\ changes = <<>>
    /\ lock = [r \in Rows |-> Nobody]
    /\ call = [p \in Admins |-> Rest]
    /\ calls = 0
    /\ now = 1

Committed == <<scene, grants, changes, deny, calls, now>>

(* ChangeCandidates' WHERE: now() is when the transaction began. *)
LiveAt(st, t) == ~st.revoked /\ (st.until = 0 \/ st.until > t)

Goes(p, fields) == call' = [call EXCEPT ![p] = [f \in DOMAIN @ |->
                                IF f \in DOMAIN fields THEN fields[f] ELSE @[f]]]

(* The transaction ends, committed or not, and lets its rows go. A bug: it *)
(* is left open.                                                           *)
EndsHolding(p) == call' = [call EXCEPT ![p] = Rest] /\ UNCHANGED lock
Ends(p) ==
    /\ call' = [call EXCEPT ![p] = Rest]
    /\ lock' = [r \in Rows |-> IF lock[r] = p THEN Nobody ELSE lock[r]]

Takes(p, r) ==
    /\ lock[r] \in {Nobody, p}
    /\ lock' = [lock EXCEPT ![r] = p]

----------------------------------------------------------------------------
(* Preview and apply *)

(* checkSpec, and BEGIN. *)
Ask(p, kind, s) ==
    /\ call[p].pc = "rest" /\ calls < Here.calls
    /\ s.kind = "swap_place" => s.node # s.to
    /\ s.kind = "set_until" => s.until = 0 \/ s.until > now
    /\ Goes(p, [pc |-> "choose", kind |-> kind, spec |-> s, began |-> now])
    /\ calls' = calls + 1
    /\ UNCHANGED <<scene, grants, changes, deny, lock, now>>

(* ChangeCandidates starts. *)
Choose(p) ==
    LET live == {g \in DOMAIN grants : LiveAt(grants[g], call[p].began)} IN
    /\ call[p].pc = "choose"
    /\ Goes(p, [pc |-> "lock", want |-> live, seen |-> live])
    /\ UNCHANGED <<lock, Committed>>

Foremost(gs) == CHOOSE g \in gs : \A h \in gs : Rank[g] <= Rank[h]

(* LIMIT MaxGrants + 1: one more than may be changed tells too many from   *)
(* just enough. A bug: LIMIT MaxGrants.                                    *)
FullAtCap(p) == Cardinality(call[p].cands) >= MaxGrants
Full(p) == Cardinality(call[p].cands) > MaxGrants

(* FOR UPDATE OF g on the next row: a row that changed while it was waited *)
(* for is looked at again. A bug: a plain SELECT.                          *)
LockCandidateUnlocked(p) ==
    LET g == Foremost(call[p].want) IN
    /\ call[p].pc = "lock" /\ call[p].kind # "undo"
    /\ call[p].want # {} /\ ~Full(p)
    /\ Goes(p, [want |-> call[p].want \ {g}, cands |-> call[p].cands \cup {g}])
    /\ UNCHANGED <<lock, Committed>>
LockCandidate(p) ==
    LET g == Foremost(call[p].want) IN
    /\ call[p].pc = "lock" /\ call[p].kind # "undo"
    /\ call[p].want # {} /\ ~Full(p)
    /\ Takes(p, g)
    /\ Goes(p, [want  |-> call[p].want \ {g},
                cands |-> call[p].cands \cup
                          (IF LiveAt(grants[g], call[p].began) THEN {g} ELSE {})])
    /\ UNCHANGED Committed

(* The picks are read and the plan is built. A preview ends here; a plan   *)
(* that changes nothing, or too much, is refused.                          *)
Plan(p) ==
    LET s   == call[p].spec
        hit == {g \in call[p].cands : Altered(s, g, grants[g], deny)}
    IN
    /\ call[p].pc = "lock" /\ call[p].kind # "undo"
    /\ call[p].want = {} \/ Full(p)
    /\ IF call[p].kind = "preview" \/ hit = {} \/ Cardinality(call[p].cands) > MaxGrants
       THEN Ends(p)
       ELSE /\ Goes(p, [pc |-> "write", items |->
                   [g \in hit |-> [before |-> grants[g], after |-> After(s, grants[g], deny)]]])
            /\ UNCHANGED lock
    /\ UNCHANGED Committed

(* INSERT INTO grant_scopes, and the deferred guard at COMMIT. *)
Accepts(items) == \A g \in DOMAIN items : Writable(items[g].after)

(* RecordGrantChange, writeStates and COMMIT. The first grant whose picks  *)
(* the database refuses undoes them all.                                   *)
Write(p) ==
    LET items == call[p].items IN
    /\ call[p].pc = "write"
    /\ IF Accepts(items)
       THEN /\ grants' = [g \in DOMAIN grants |->
                            IF g \in DOMAIN items THEN items[g].after ELSE grants[g]]
            /\ changes' = Append(changes,
                            [spec |-> call[p].spec, items |-> items, undone |-> FALSE])
       ELSE UNCHANGED <<grants, changes>>
    /\ Ends(p)
    /\ UNCHANGED <<scene, deny, calls, now>>

----------------------------------------------------------------------------
(* Undo *)

AskUndo(p, i) ==
    /\ call[p].pc = "rest" /\ calls < Here.calls
    /\ Goes(p, [pc |-> "change", kind |-> "undo", id |-> i])
    /\ calls' = calls + 1
    /\ UNCHANGED <<scene, grants, changes, deny, lock, now>>

(* GetGrantChangeForUpdate: the row as it is once it is ours. *)
LockChange(p) ==
    LET i == call[p].id IN
    /\ call[p].pc = "change"
    /\ lock[i] = Nobody
    /\ IF changes[i].undone THEN Ends(p)
       ELSE Takes(p, i) /\ Goes(p, [pc |-> "lock", want |-> DOMAIN changes[i].items])
    /\ UNCHANGED Committed

(* CurrentStates: FOR UPDATE in no order of its own. *)
LockItem(p, g) ==
    /\ call[p].pc = "lock" /\ call[p].kind = "undo"
    /\ g \in call[p].want
    /\ Takes(p, g)
    /\ Goes(p, [want |-> call[p].want \ {g}])
    /\ UNCHANGED Committed

(* Every grant is as the change left it, or nothing is undone. *)
Compare(p) ==
    LET items == changes[call[p].id].items IN
    /\ call[p].pc = "lock" /\ call[p].kind = "undo" /\ call[p].want = {}
    /\ IF \A g \in DOMAIN items : grants[g] = items[g].after
       THEN Goes(p, [pc |-> "restore", items |-> items]) /\ UNCHANGED lock
       ELSE Ends(p)
    /\ UNCHANGED Committed

(* RestoreGrantChange and COMMIT. *)
Restore(p) ==
    LET items == call[p].items IN
    /\ call[p].pc = "restore"
    /\ grants' = [g \in DOMAIN grants |->
                    IF g \in DOMAIN items THEN items[g].before ELSE grants[g]]
    /\ changes' = [changes EXCEPT ![call[p].id].undone = TRUE]
    /\ Ends(p)
    /\ UNCHANGED <<scene, deny, calls, now>>

----------------------------------------------------------------------------
(* What else happens *)

(* The row call p waits for, and who has it. *)
WaitsFor(p) ==
    LET next == IF call[p].pc = "change" THEN {call[p].id}
                ELSE IF call[p].pc # "lock" \/ call[p].want = {} THEN {}
                ELSE IF call[p].kind = "undo" THEN call[p].want
                ELSE IF Full(p) THEN {} ELSE {Foremost(call[p].want)}
    IN  {lock[r] : r \in next} \ {Nobody, p}

(* Two transactions wait for each other, and Postgres ends one of them. *)
Deadlock(p) ==
    /\ \E q \in WaitsFor(p) : p \in WaitsFor(q)
    /\ Ends(p)
    /\ UNCHANGED Committed

(* A statement fails, or the connection is lost. *)
Lose(p) ==
    /\ call[p].pc # "rest"
    /\ Ends(p)
    /\ UNCHANGED Committed

(* One statement; on a row already revoked it does nothing and says it did.*)
RevokeGrant(g) ==
    /\ lock[g] = Nobody
    /\ ~grants[g].revoked
    /\ grants' = [grants EXCEPT ![g].revoked = TRUE]
    /\ UNCHANGED <<scene, changes, deny, lock, call, calls, now>>

CreateGrant(g, st) ==
    /\ g \notin DOMAIN grants
    /\ Writable(st)
    /\ grants' = [h \in DOMAIN grants \cup {g} |-> IF h = g THEN st ELSE grants[h]]
    /\ UNCHANGED <<scene, changes, deny, lock, call, calls, now>>

Tick ==
    /\ now < Here.until
    /\ now' = now + 1
    /\ UNCHANGED <<scene, grants, changes, deny, lock, call, calls>>

Step(p) ==
    \/ Choose(p) \/ LockCandidate(p) \/ Plan(p) \/ Write(p)
    \/ LockChange(p) \/ (\E g \in Grants : LockItem(p, g)) \/ Compare(p) \/ Restore(p)
    \/ Deadlock(p)

Next ==
    \/ \E p \in Here.admins :
          \/ \E kind \in {"preview", "apply"}, s \in Here.changes : Ask(p, kind, s)
          \/ \E i \in DOMAIN changes : AskUndo(p, i)
          \/ Step(p) \/ Lose(p)
    \/ \E g \in DOMAIN grants : RevokeGrant(g)
    \/ \E g \in Grants, st \in Here.fresh : CreateGrant(g, st)
    \/ Tick

Spec == Init /\ [][Next]_vars

(* A call that can go on does: its goroutine is running or Postgres is     *)
(* answering it.                                                           *)
FairSpec == Spec /\ \A p \in Admins : WF_vars(Step(p))

----------------------------------------------------------------------------
(* Every value is of its type; the picks of every grant, and of every      *)
(* state a recorded change holds, are ones grant_scopes accepts, through   *)
(* any changes and undos (UndoGrantChange writes recorded states back).    *)
TypeOK ==
    /\ \A g \in DOMAIN grants : grants[g] \in States /\ Writable(grants[g])
    /\ \A i \in DOMAIN changes : \A g \in DOMAIN changes[i].items :
         LET it == changes[i].items[g] IN
         /\ it.before \in States /\ it.after \in States
         /\ Writable(it.before) /\ Writable(it.after)
    /\ lock \in [Rows -> Admins \cup {Nobody}]
    /\ \A p \in Admins : call[p].pc = "rest" => call[p] = Rest

(* The detailed transactions do what the ledger promises: each change and  *)
(* each undo happens at one moment, to the grants as they are then.        *)
(* (ChangeCandidates: "two changes at once must not both build on the same *)
(* before"; UndoGrantChange: "only if every one of them is still exactly   *)
(* as the change left it".)                                                *)
Ledger == INSTANCE GrantLedger WITH
    Starts  <- UNION {Scenes[k].starts : k \in DOMAIN Scenes},
    Changes <- UNION {Scenes[k].changes : k \in DOMAIN Scenes}
ImplementsLedger == Ledger!Spec

(* A change about to be written takes in every grant that was live when    *)
(* its candidates were chosen and still is, and that the change is for:    *)
(* the cap refuses a change, it never shortens one (ChangeCandidates, $3   *)
(* "is the cap plus one").                                                 *)
NobodyLeftOut ==
    \A p \in Admins : call[p].pc = "write" =>
        \A g \in call[p].seen :
            LiveAt(grants[g], call[p].began) /\ Altered(call[p].spec, g, grants[g], deny)
                => g \in DOMAIN call[p].items

(* What a change is called is what it does to where a grant reaches, as    *)
(* the gate decides it: adding a place and growing never take a place      *)
(* away, removing a place and revoking never give one (SkipLastPlace:      *)
(* "removing it would give every place").                                  *)
KindsKeepTheirWord ==
    \A i \in DOMAIN changes : \A g \in DOMAIN changes[i].items :
        LET it == changes[i].items[g] IN
        /\ changes[i].spec.kind \in {"add_place", "grow"} =>
              Reach(it.before, deny) \subseteq Reach(it.after, deny)
        /\ changes[i].spec.kind \in {"remove_place", "revoke"} =>
              Reach(it.after, deny) \subseteq Reach(it.before, deny)

(* Every call ends, though an undo locks grants in another order than a    *)
(* change does.                                                            *)
CallsEnd == \A p \in Admins : call[p].pc # "rest" ~> call[p].pc = "rest"

-----------------------------------------------------------------------------
(* What a comment in the code claims and these steps refute; added to a    *)
(* run's configuration as an INVARIANT, it gives its counterexample.       *)

(* The plan an apply is about to write, the one a preview showed, is one   *)
(* the database accepts (Build: "the preview a person reads is the change  *)
(* that is applied").                                                      *)
PreviewIsApplied ==
    \A p \in Admins : call[p].pc = "write" => Accepts(call[p].items)
=============================================================================
