-------------------------- MODULE RefreshRotation --------------------------
(***************************************************************************)
(* The rotation of refresh tokens and the operations that end a session,   *)
(* over the two Postgres tables they share, refresh_tokens and sessions.   *)
(*                                                                         *)
(* Every transaction runs at READ COMMITTED (internal/platform/database/   *)
(* db.go opens it with the default options), so the grain of the model is  *)
(* one SQL statement, or one row of a statement that updates several:      *)
(*   - the variables status, sess, ... hold COMMITTED rows, the only ones  *)
(*     another request can read;                                           *)
(*   - an UPDATE locks each row it changes until its transaction ends, and *)
(*     a second UPDATE of a locked row waits;                              *)
(*   - a multi-row UPDATE works on the rows that matched when it started   *)
(*     (todo, sids), re-evaluates its WHERE clause on a row it waited for, *)
(*     and never sees a row inserted meanwhile;                            *)
(*   - a call outside WithinTx is a transaction of its own.                *)
(* The rows a transaction changed and has not committed are the ones it    *)
(* has locked, so its pending writes need no variable.                     *)
(*                                                                         *)
(* A request is a process p: pc[p] is the statement it runs next, op[p]    *)
(* the usecase it is in, the other functions of p its local variables.     *)
(***************************************************************************)
EXTENDS Integers, FiniteSets

CONSTANTS
    Tokens,       \* ids of refresh_tokens rows (bounds how many are issued)
    Sessions,     \* ids of sessions rows
    Identities,   \* people
    Owner,        \* sessions.identity_id, fixed when the row is written
    Procs,        \* requests running at the same time
    MaxEpoch,     \* bound on identities.token_epoch
    Requests,     \* the kinds of request that arrive, bounds the run
    Clock,        \* TRUE: expires_at may pass
    Faults,       \* TRUE: statements may fail and a replica may crash
    NoToken, NoSession, NoIdentity, NoProc

ASSUME OwnerAssumption    == Owner \in [Sessions -> Identities]
ASSUME MaxEpochAssumption == MaxEpoch \in Nat
ASSUME RequestsAssumption == Requests \subseteq {"refresh", "revoke", "end",
                                 "exchange", "logout", "logout_all"}
ASSUME SwitchAssumption   == Clock \in BOOLEAN /\ Faults \in BOOLEAN
ASSUME NullAssumption     == /\ NoToken \notin Tokens
                             /\ NoSession \notin Sessions
                             /\ NoIdentity \notin Identities
                             /\ NoProc \notin Procs

VARIABLES
    \* refresh_tokens, committed
    status,      \* Tokens -> TokenStatus ("none": no such row)
    sessionOf,   \* session_id
    family,      \* family_id, named by the family's first token
    succ,        \* successor_id
    expired,     \* tokens whose expires_at has passed
    \* sessions and identities, committed
    sess,        \* "none", "live" (revoked_at IS NULL) or the revoke_reason
    lapsed,      \* sessions whose expires_at has passed
    epoch,       \* identities.token_epoch
    \* row locks: the transaction holding the row, or NoProc
    tokLock, sesLock,
    \* requests
    pc, op,
    arg,         \* the token presented
    who,         \* the identity signing out
    ids,         \* the sessions the operation is about
    todo,        \* rows of the running refresh_tokens UPDATE still to visit
    sids,        \* rows of the running sessions UPDATE still to visit
    contained,   \* the theft response's local variable
    \* observations
    alarm,       \* Sessions -> the contained flags of its reuse events, as text
    late,        \* families -> tokens issued to it on a revoked session
    covered      \* Sessions -> the families its last logout's sweep could see

rows  == <<status, sessionOf, family, succ>>
people == <<sess, epoch>>
clocks == <<expired, lapsed>>
locks == <<tokLock, sesLock>>
request == <<pc, op, arg, who, ids, todo, sids, contained>>
seen  == <<alarm, late, covered>>
vars  == <<rows, people, clocks, locks, request, seen>>

----------------------------------------------------------------------------
TokenStatus == {"none", "active", "consumed", "revoked"}
\* revoke_reason of a logout that is one transaction, and of the others
TxReasons   == {"logout", "logout_all"}
AutoReasons == {"refresh_reuse_detected", "token_revoked"}
Revoked(s)  == sess[s] \in TxReasons \cup AutoReasons

Ops     == {"none", "refresh", "theft", "dead", "revoke", "end", "exchange",
            "logout", "logout_all"}
PCs     == {"idle", "claim", "live", "issue", "touch", "commit", "lookup",
            "famscan", "famrows", "revsess", "sesscan", "sesrows",
            "allscan", "allrows"}

TypeOK ==
    /\ status    \in [Tokens -> TokenStatus]
    /\ sessionOf \in [Tokens -> Sessions \cup {NoSession}]
    /\ family    \in [Tokens -> Tokens \cup {NoToken}]
    /\ succ      \in [Tokens -> Tokens \cup {NoToken}]
    /\ expired   \in SUBSET Tokens
    /\ sess      \in [Sessions -> {"none", "live"} \cup TxReasons \cup AutoReasons]
    /\ lapsed    \in SUBSET Sessions
    /\ epoch     \in [Identities -> Nat]
    /\ tokLock   \in [Tokens -> Procs \cup {NoProc}]
    /\ sesLock   \in [Sessions -> Procs \cup {NoProc}]
    /\ pc        \in [Procs -> PCs]
    /\ op        \in [Procs -> Ops]
    /\ arg       \in [Procs -> Tokens \cup {NoToken}]
    /\ who       \in [Procs -> Identities \cup {NoIdentity}]
    /\ ids       \in [Procs -> SUBSET Sessions]
    /\ todo      \in [Procs -> SUBSET Tokens]
    /\ sids      \in [Procs -> SUBSET Sessions]
    /\ contained \in [Procs -> {"true", "false"}]
    /\ alarm     \in [Sessions -> SUBSET {"true", "false"}]
    /\ late      \in [Tokens -> Nat]
    /\ covered   \in [Sessions -> SUBSET (Tokens \cup {NoToken})]

Init ==
    /\ status    = [t \in Tokens |-> "none"]
    /\ sessionOf = [t \in Tokens |-> NoSession]
    /\ family    = [t \in Tokens |-> NoToken]
    /\ succ      = [t \in Tokens |-> NoToken]
    /\ expired   = {}
    /\ sess      = [s \in Sessions |-> "none"]
    /\ lapsed    = {}
    /\ epoch     = [i \in Identities |-> 0]
    /\ tokLock   = [t \in Tokens |-> NoProc]
    /\ sesLock   = [s \in Sessions |-> NoProc]
    /\ pc        = [p \in Procs |-> "idle"]
    /\ op        = [p \in Procs |-> "none"]
    /\ arg       = [p \in Procs |-> NoToken]
    /\ who       = [p \in Procs |-> NoIdentity]
    /\ ids       = [p \in Procs |-> {}]
    /\ todo      = [p \in Procs |-> {}]
    /\ sids      = [p \in Procs |-> {}]
    /\ contained = [p \in Procs |-> "true"]
    /\ alarm     = [s \in Sessions |-> {}]
    /\ late      = [t \in Tokens |-> 0]
    /\ covered   = [s \in Sessions |-> {}]

----------------------------------------------------------------------------
(***************************************************************************)
(* Helpers: the request's control, its locks, and the SQL predicates.      *)
(***************************************************************************)
\* The request moves to statement l of usecase o.
Goto(p, l) == pc' = [pc EXCEPT ![p] = l] /\ UNCHANGED op
Enter(p, o, l) == pc' = [pc EXCEPT ![p] = l] /\ op' = [op EXCEPT ![p] = o]

\* A request of kind o arrives and is handled from statement l on.
Begin(p, o, l) == pc[p] = "idle" /\ o \in Requests /\ Enter(p, o, l)

\* The request returns to its caller: its local variables are gone.
Return(p) ==
    /\ Enter(p, "none", "idle")
    /\ arg' = [arg EXCEPT ![p] = NoToken]
    /\ who' = [who EXCEPT ![p] = NoIdentity]
    /\ ids' = [ids EXCEPT ![p] = {}]
    /\ todo' = [todo EXCEPT ![p] = {}]
    /\ sids' = [sids EXCEPT ![p] = {}]
    /\ contained' = [contained EXCEPT ![p] = "true"]

\* The end of p's transaction, committed or not, releases its row locks.
Release(p) ==
    /\ tokLock' = [t \in Tokens |-> IF tokLock[t] = p THEN NoProc ELSE tokLock[t]]
    /\ sesLock' = [s \in Sessions |-> IF sesLock[s] = p THEN NoProc ELSE sesLock[s]]

\* Variant of Rollback: WithinTx returns without its deferred rollback.
RollbackForgotten(p) == p \in Procs /\ UNCHANGED <<rows, people, locks>>

\* db.go, WithinTx: an error from fn, or from Commit, rolls everything back.
Rollback(p) == Release(p) /\ UNCHANGED <<rows, people>>

\* GetSessionLive's WHERE clause.
Live(s) == sess[s] = "live" /\ s \notin lapsed

\* ClaimRefreshToken's WHERE clause.
Claimable(t) == status[t] = "active" /\ t \notin expired

\* Bound: a request starts only if the rows it may insert still exist.
RoomForToken ==
    Cardinality({p \in Procs : op[p] \in {"refresh", "exchange"}})
        < Cardinality({t \in Tokens : status[t] = "none"})

\* INSERT INTO refresh_tokens: row n, of session s and family f.
Insert(n, s, f) ==
    /\ status' = [status EXCEPT ![n] = "active"]
    /\ sessionOf' = [sessionOf EXCEPT ![n] = s]
    /\ family' = [family EXCEPT ![n] = f]
    /\ late' = [late EXCEPT ![f] = IF Revoked(s) THEN @ + 1 ELSE @]

----------------------------------------------------------------------------
(***************************************************************************)
(* Sessions begin.  An API sign-in writes the session and its first token  *)
(* in one transaction, of rows no other request can see before it commits; *)
(* a hosted sign-in writes the session alone, and the application gets its *)
(* family later, from the code exchange.                                   *)
(***************************************************************************)
Establish(s, n) ==
    /\ sess[s] = "none"
    /\ status[n] = "none"
    /\ RoomForToken
    /\ sess' = [sess EXCEPT ![s] = "live"]
    /\ Insert(n, s, n)
    /\ UNCHANGED <<succ, epoch, clocks, locks, request, alarm, covered>>

OpenBrowserSession(s) ==
    /\ sess[s] = "none"
    /\ sess' = [sess EXCEPT ![s] = "live"]
    /\ UNCHANGED <<rows, epoch, clocks, locks, request, seen>>

\* POST /v1/token, authorization_code: the code, consumed, names the session.
TokenAuthCode(p, s) ==
    /\ sess[s] # "none"
    /\ RoomForToken
    /\ Begin(p, "exchange", "live")
    /\ ids' = [ids EXCEPT ![p] = {s}]
    /\ UNCHANGED <<rows, people, clocks, locks, arg, who, todo, sids, contained, seen>>

\* The exchange is not a transaction: SessionLive, then Issue's INSERT.
ExchangeLive(p) ==
    /\ op[p] = "exchange" /\ pc[p] = "live"
    /\ \A s \in ids[p] : Live(s)
    /\ Goto(p, "issue")
    /\ UNCHANGED <<rows, people, clocks, locks, arg, who, ids, todo, sids, contained, seen>>

ExchangeDead(p) ==
    /\ op[p] = "exchange" /\ pc[p] = "live"
    /\ \E s \in ids[p] : ~Live(s)
    /\ Return(p)
    /\ UNCHANGED <<rows, people, clocks, locks, seen>>

ExchangeIssue(p, n) ==
    /\ op[p] = "exchange" /\ pc[p] = "issue"
    /\ status[n] = "none"
    /\ \E s \in ids[p] : Insert(n, s, n)
    /\ Return(p)
    /\ UNCHANGED <<succ, people, clocks, locks, alarm, covered>>

----------------------------------------------------------------------------
(***************************************************************************)
(* Refresh: one transaction that claims the token, reads the session,      *)
(* issues the successor and touches the session.                           *)
(***************************************************************************)
Refresh(p, t) ==
    /\ RoomForToken \/ status[t] \in {"consumed", "revoked"}
    /\ Begin(p, "refresh", "claim")
    /\ arg' = [arg EXCEPT ![p] = t]
    /\ UNCHANGED <<rows, people, clocks, locks, who, ids, todo, sids, contained, seen>>

\* Variant of ClaimRefresh: a SELECT of the status, then an UPDATE by id.
ClaimRefreshReadThenWrite(p) ==
    /\ op[p] = "refresh" /\ pc[p] = "claim"
    /\ Claimable(arg[p])
    /\ ids' = [ids EXCEPT ![p] = {sessionOf[arg[p]]}]
    /\ Goto(p, "live")
    /\ UNCHANGED <<rows, people, clocks, locks, arg, who, todo, sids, contained, seen>>

\* Exactly one caller flips active -> consumed.
ClaimRefresh(p) ==
    /\ op[p] = "refresh" /\ pc[p] = "claim"
    /\ Claimable(arg[p])
    /\ tokLock[arg[p]] = NoProc
    /\ tokLock' = [tokLock EXCEPT ![arg[p]] = p]
    /\ ids' = [ids EXCEPT ![p] = {sessionOf[arg[p]]}]
    /\ Goto(p, "live")
    /\ UNCHANGED <<rows, people, clocks, sesLock, arg, who, todo, sids, contained, seen>>

\* The others wait for its row lock and then match no row: errClaimFailed.
ClaimFailed(p) ==
    /\ op[p] = "refresh" /\ pc[p] = "claim"
    /\ ~Claimable(arg[p])
    /\ Enter(p, "theft", "lookup")
    /\ UNCHANGED <<rows, people, clocks, locks, arg, who, ids, todo, sids, contained, seen>>

\* Variant of SessionLive: the session is looked up without its WHERE clause.
SessionLiveUnchecked(p) ==
    /\ op[p] = "refresh" /\ pc[p] = "live"
    /\ Goto(p, "issue")
    /\ UNCHANGED <<rows, people, locks, clocks, arg, who, ids, todo, sids, contained, seen>>

SessionLive(p) ==
    /\ op[p] = "refresh" /\ pc[p] = "live"
    /\ \A s \in ids[p] : Live(s)
    /\ Goto(p, "issue")
    /\ UNCHANGED <<rows, people, locks, clocks, arg, who, ids, todo, sids, contained, seen>>

\* A session that is not live aborts the transaction (errSessionDead); the
\* family is then revoked outside it.
SessionDead(p) ==
    /\ op[p] = "refresh" /\ pc[p] = "live"
    /\ \E s \in ids[p] : ~Live(s)
    /\ Rollback(p)
    /\ Enter(p, "dead", "famscan")
    /\ UNCHANGED <<clocks, arg, who, ids, todo, sids, contained, seen>>

\* CreateRefresh and SetRefreshSuccessor write rows only this transaction
\* sees before it commits.
Issue(p) ==
    /\ op[p] = "refresh" /\ pc[p] = "issue"
    /\ Goto(p, "touch")
    /\ UNCHANGED <<rows, people, clocks, locks, arg, who, ids, todo, sids, contained, seen>>

\* The identity is not active, the tenant is not serving, or the application
\* is closed to role holders: Issue refuses and the claim is rolled back.
IssueRefused(p) ==
    /\ op[p] \in {"refresh", "exchange"} /\ pc[p] = "issue"
    /\ Rollback(p)
    /\ Return(p)
    /\ UNCHANGED <<clocks, seen>>

\* Variant of TouchSession: last_seen_at is written after the transaction.
TouchSessionDeferred(p) ==
    /\ op[p] = "refresh" /\ pc[p] = "touch"
    /\ Goto(p, "commit")
    /\ UNCHANGED <<rows, people, clocks, locks, arg, who, ids, todo, sids, contained, seen>>

\* UPDATE sessions SET last_seen_at = now(): no condition but the key.
TouchSession(p) ==
    /\ op[p] = "refresh" /\ pc[p] = "touch"
    /\ \A s \in ids[p] : sesLock[s] = NoProc
    /\ sesLock' = [s \in Sessions |-> IF s \in ids[p] THEN p ELSE sesLock[s]]
    /\ Goto(p, "commit")
    /\ UNCHANGED <<rows, people, clocks, tokLock, arg, who, ids, todo, sids, contained, seen>>

CommitRefresh(p, n) ==
    /\ op[p] = "refresh" /\ pc[p] = "commit"
    /\ status[n] = "none"
    /\ status' = [status EXCEPT ![arg[p]] = "consumed", ![n] = "active"]
    /\ sessionOf' = [sessionOf EXCEPT ![n] = sessionOf[arg[p]]]
    /\ family' = [family EXCEPT ![n] = family[arg[p]]]
    /\ succ' = [succ EXCEPT ![arg[p]] = n]
    /\ late' = [late EXCEPT ![family[arg[p]]] =
                    IF Revoked(sessionOf[arg[p]]) THEN @ + 1 ELSE @]
    /\ Release(p)
    /\ Return(p)
    /\ UNCHANGED <<people, clocks, alarm, covered>>

----------------------------------------------------------------------------
(***************************************************************************)
(* The security response to a failed claim, and POST /v1/revoke: the same  *)
(* three statements, each committed by itself.                             *)
(***************************************************************************)
RevokeToken(p, t) ==
    /\ Begin(p, "revoke", "lookup")
    /\ arg' = [arg EXCEPT ![p] = t]
    /\ UNCHANGED <<rows, people, clocks, locks, who, ids, todo, sids, contained, seen>>

\* Which rows RefreshByHash must find for the operation to go on: a revocation
\* acts on any token, the theft response on one already consumed or revoked
\* (an active one whose claim failed has expired).
Responds(o, st) == IF o = "revoke" THEN st # "none" ELSE st \in {"consumed", "revoked"}

RefreshByHash(p) ==
    /\ op[p] \in {"theft", "revoke"} /\ pc[p] = "lookup"
    /\ Responds(op[p], status[arg[p]])
    /\ ids' = [ids EXCEPT ![p] = {sessionOf[arg[p]]}]
    /\ Goto(p, "famscan")
    /\ UNCHANGED <<rows, people, clocks, locks, arg, who, todo, sids, contained, seen>>

RefreshUnknown(p) ==
    /\ op[p] \in {"theft", "revoke"} /\ pc[p] = "lookup"
    /\ ~Responds(op[p], status[arg[p]])
    /\ Return(p)
    /\ UNCHANGED <<rows, people, clocks, locks, seen>>

\* RevokeRefreshFamily starts: the rows that match now.
FamilyScan(p) ==
    /\ pc[p] = "famscan"
    /\ todo' = [todo EXCEPT ![p] =
           {t \in Tokens : status[t] = "active" /\ family[t] = family[arg[p]]}]
    /\ Goto(p, "famrows")
    /\ UNCHANGED <<rows, people, clocks, locks, arg, who, ids, sids, contained, seen>>

\* RevokeRefreshBySessions starts.
SessionScan(p) ==
    /\ pc[p] = "sesscan"
    /\ todo' = [todo EXCEPT ![p] =
           {t \in Tokens : status[t] = "active" /\ sessionOf[t] \in ids[p]}]
    /\ covered' = [s \in Sessions |->
           IF s \in ids[p] /\ op[p] \in {"logout", "logout_all"}
           THEN {family[t] : t \in {u \in Tokens : sessionOf[u] = s}} ELSE covered[s]]
    /\ Goto(p, "sesrows")
    /\ UNCHANGED <<rows, people, clocks, locks, arg, who, ids, sids, contained, alarm, late>>

\* Variant of Matches: the sweep has no status = 'active' condition.
MatchesAny(t) == t \in Tokens

\* One row of either UPDATE: wait for its lock, re-evaluate status = 'active'.
Matches(t) == status[t] = "active"
SweepRow(p, t) ==
    /\ pc[p] \in {"famrows", "sesrows"}
    /\ t \in todo[p]
    /\ tokLock[t] = NoProc
    /\ tokLock' = [tokLock EXCEPT ![t] = IF Matches(t) THEN p ELSE @]
    /\ todo' = [todo EXCEPT ![p] = @ \ {t}]
    /\ UNCHANGED <<rows, people, clocks, sesLock, pc, op, arg, who, ids, sids, contained, seen>>

\* The rows p has swept and not yet committed, as they will be committed.
Swept(p) == [t \in Tokens |-> IF tokLock[t] = p THEN "revoked" ELSE status[t]]

RevokeRefreshFamily(p) ==
    /\ op[p] \in {"theft", "revoke"} /\ pc[p] = "famrows" /\ todo[p] = {}
    /\ status' = Swept(p)
    /\ Release(p)
    /\ Goto(p, "revsess")
    /\ UNCHANGED <<sessionOf, family, succ, people, clocks, arg, who, ids, todo, sids,
                   contained, seen>>

\* The family of a token whose session is dead; the answer is ErrSessionRevoked.
RevokeDeadFamily(p) ==
    /\ op[p] = "dead" /\ pc[p] = "famrows" /\ todo[p] = {}
    /\ status' = Swept(p)
    /\ Release(p)
    /\ Return(p)
    /\ UNCHANGED <<sessionOf, family, succ, people, clocks, seen>>

\* The event the theft response ends with, whatever happened before it.
EmitReuse(p, c) ==
    alarm' = [s \in Sessions |-> IF s \in ids[p] THEN alarm[s] \cup {c} ELSE alarm[s]]

\* Variant of Reason: the theft response names no reason of the schema's.
ReasonUnknown(o) == IF o = "theft" THEN "reuse" ELSE "logout"

\* revoke_reason; the sign-out page's rp_initiated_logout is counted with
\* token_revoked, and logout_session with logout.
Reason(o) == CASE o = "theft" -> "refresh_reuse_detected"
               [] o \in {"revoke", "end"} -> "token_revoked"
               [] o = "logout" -> "logout"
               [] o = "logout_all" -> "logout_all"
               [] OTHER -> "live"

\* RevokeSession outside a transaction.
RevokeSession(p) ==
    /\ op[p] \in {"theft", "revoke", "end"} /\ pc[p] = "revsess"
    /\ \A s \in ids[p] : sess[s] = "live" /\ sesLock[s] = NoProc
    /\ sess' = [s \in Sessions |-> IF s \in ids[p] THEN Reason(op[p]) ELSE sess[s]]
    /\ Goto(p, "sesscan")
    /\ UNCHANGED <<rows, epoch, clocks, locks, arg, who, ids, todo, sids, contained, seen>>

\* The session was revoked already: NotFound, which every caller takes for a
\* failure and which ends the operation.
RevokeSessionNotFound(p) ==
    /\ op[p] \in {"theft", "revoke", "end", "logout"} /\ pc[p] = "revsess"
    /\ \E s \in ids[p] : sess[s] # "live"
    /\ IF op[p] = "theft" THEN EmitReuse(p, "false") ELSE UNCHANGED alarm
    /\ Return(p)
    /\ UNCHANGED <<rows, people, clocks, locks, late, covered>>

RevokeRefreshBySessions(p) ==
    /\ op[p] \in {"theft", "revoke", "end"} /\ pc[p] = "sesrows" /\ todo[p] = {}
    /\ status' = Swept(p)
    /\ Release(p)
    /\ IF op[p] = "theft" THEN EmitReuse(p, contained[p]) ELSE UNCHANGED alarm
    /\ Return(p)
    /\ UNCHANGED <<sessionOf, family, succ, people, clocks, late, covered>>

\* Revocation of an access token, and the sign-out page: RevokeSession and
\* RevokeRefreshBySessions on the session the token or the cookie names.
EndSession(p, s) ==
    /\ sess[s] # "none"
    /\ Begin(p, "end", "revsess")
    /\ ids' = [ids EXCEPT ![p] = {s}]
    /\ UNCHANGED <<rows, people, clocks, locks, arg, who, todo, sids, contained, seen>>

----------------------------------------------------------------------------
(***************************************************************************)
(* Logout and LogoutAll: one transaction each, sessions first, then their  *)
(* tokens.                                                                 *)
(***************************************************************************)
Logout(p, i, s) ==
    /\ sess[s] # "none"
    /\ Begin(p, "logout", "revsess")
    /\ ids' = [ids EXCEPT ![p] = {s}]
    /\ who' = [who EXCEPT ![p] = i]
    /\ UNCHANGED <<rows, people, clocks, locks, arg, todo, sids, contained, seen>>

\* Variant of RevokeOne: the owner is not compared before the commit.
RevokeOneOfAnyone(p) ==
    /\ op[p] = "logout" /\ pc[p] = "revsess"
    /\ \A s \in ids[p] : sess[s] = "live" /\ sesLock[s] = NoProc
    /\ sesLock' = [s \in Sessions |-> IF s \in ids[p] THEN p ELSE sesLock[s]]
    /\ Goto(p, "sesscan")
    /\ UNCHANGED <<rows, people, clocks, tokLock, arg, who, ids, todo, sids, contained, seen>>

RevokeOne(p) ==
    /\ op[p] = "logout" /\ pc[p] = "revsess"
    /\ \A s \in ids[p] : sess[s] = "live" /\ sesLock[s] = NoProc /\ Owner[s] = who[p]
    /\ sesLock' = [s \in Sessions |-> IF s \in ids[p] THEN p ELSE sesLock[s]]
    /\ Goto(p, "sesscan")
    /\ UNCHANGED <<rows, people, clocks, tokLock, arg, who, ids, todo, sids, contained, seen>>

\* The row is revoked before its owner is known; somebody else's is put back
\* by the rollback.
RevokeOneDenied(p) ==
    /\ op[p] = "logout" /\ pc[p] = "revsess"
    /\ \E s \in ids[p] : sess[s] = "live" /\ sesLock[s] = NoProc /\ Owner[s] # who[p]
    /\ Rollback(p)
    /\ Return(p)
    /\ UNCHANGED <<clocks, seen>>

\* Bound: epoch grows once for each LogoutAll.
LogoutAll(p, i) ==
    /\ epoch[i] + Cardinality({q \in Procs : op[q] = "logout_all"}) < MaxEpoch
    /\ Begin(p, "logout_all", "allscan")
    /\ who' = [who EXCEPT ![p] = i]
    /\ UNCHANGED <<rows, people, clocks, locks, arg, ids, todo, sids, contained, seen>>

AllScan(p) ==
    /\ pc[p] = "allscan"
    /\ sids' = [sids EXCEPT ![p] = {s \in Sessions : Owner[s] = who[p] /\ sess[s] = "live"}]
    /\ Goto(p, "allrows")
    /\ UNCHANGED <<rows, people, clocks, locks, arg, who, ids, todo, contained, seen>>

AllRow(p, s) ==
    /\ pc[p] = "allrows"
    /\ s \in sids[p]
    /\ sesLock[s] = NoProc
    /\ sesLock' = [sesLock EXCEPT ![s] = IF sess[s] = "live" THEN p ELSE @]
    /\ ids' = [ids EXCEPT ![p] = IF sess[s] = "live" THEN @ \cup {s} ELSE @]
    /\ sids' = [sids EXCEPT ![p] = @ \ {s}]
    /\ UNCHANGED <<rows, people, clocks, tokLock, pc, op, arg, who, todo, contained, seen>>

RevokeAllSessions(p) ==
    /\ pc[p] = "allrows" /\ sids[p] = {}
    /\ Goto(p, IF ids[p] = {} THEN "commit" ELSE "sesscan")
    /\ UNCHANGED <<rows, people, clocks, locks, arg, who, ids, todo, sids, contained, seen>>

LogoutSwept(p) ==
    /\ op[p] \in {"logout", "logout_all"} /\ pc[p] = "sesrows" /\ todo[p] = {}
    /\ Goto(p, "commit")
    /\ UNCHANGED <<rows, people, clocks, locks, arg, who, ids, todo, sids, contained, seen>>

\* LogoutAll's last statement before the commit is BumpTokenEpoch.
CommitLogout(p) ==
    /\ op[p] \in {"logout", "logout_all"} /\ pc[p] = "commit"
    /\ status' = Swept(p)
    /\ sess' = [s \in Sessions |-> IF sesLock[s] = p THEN Reason(op[p]) ELSE sess[s]]
    /\ epoch' = [i \in Identities |->
           IF op[p] = "logout_all" /\ i = who[p] THEN epoch[i] + 1 ELSE epoch[i]]
    /\ Release(p)
    /\ Return(p)
    /\ UNCHANGED <<sessionOf, family, succ, clocks, seen>>

----------------------------------------------------------------------------
(***************************************************************************)
(* Failures.  Postgres aborts one of the transactions that wait for each   *)
(* other; with Faults a statement may also fail by itself (a timeout, a    *)
(* lost connection) and the whole request may stop (a crash, a client that *)
(* went away and took the context with it).                                *)
(***************************************************************************)
Blockers(p) ==
    LET Held(lock, S) == IF S # {} /\ \A x \in S : lock[x] # NoProc
                         THEN {lock[x] : x \in S} ELSE {}
    IN  CASE pc[p] = "claim" /\ Claimable(arg[p]) -> Held(tokLock, {arg[p]})
          [] pc[p] = "touch" -> Held(sesLock, ids[p])
          [] pc[p] = "revsess" -> Held(sesLock, {s \in ids[p] : sess[s] = "live"})
          [] pc[p] \in {"famrows", "sesrows"} -> Held(tokLock, todo[p])
          [] pc[p] = "allrows" -> Held(sesLock, sids[p])
          [] OTHER -> {}

Deadlocked(p) ==
    \E S \in SUBSET Procs :
        /\ p \in UNION {Blockers(q) : q \in S}
        /\ \A q \in S : Blockers(q) # {} /\ Blockers(q) \subseteq S

\* The statement p is at fails and its transaction with it.
Fails(p) == (Faults \/ Deadlocked(p)) /\ Rollback(p)

\* What the code makes of the error.  A failed ClaimRefresh is taken for an
\* unclaimable token, a failed SessionLive for a dead session.
ClaimError(p) ==
    /\ op[p] = "refresh" /\ pc[p] = "claim"
    /\ Fails(p)
    /\ Enter(p, "theft", "lookup")
    /\ UNCHANGED <<clocks, arg, who, ids, todo, sids, contained, seen>>

SessionLiveError(p) ==
    /\ op[p] = "refresh" /\ pc[p] = "live"
    /\ Fails(p)
    /\ Enter(p, "dead", "famscan")
    /\ UNCHANGED <<clocks, arg, who, ids, todo, sids, contained, seen>>

\* The theft response goes on after a failed family sweep, and reports the
\* failure of any of its statements.
FamilyError(p) ==
    /\ op[p] = "theft" /\ pc[p] \in {"famscan", "famrows"}
    /\ Fails(p)
    /\ Goto(p, "revsess")
    /\ todo' = [todo EXCEPT ![p] = {}]
    /\ contained' = [contained EXCEPT ![p] = "false"]
    /\ UNCHANGED <<clocks, arg, who, ids, sids, seen>>

\* Variant of ResponseError: the errors are discarded, and the event says
\* contained = true whatever happened.
ResponseErrorDiscarded(p) ==
    /\ op[p] = "theft" /\ pc[p] \in {"revsess", "sesscan", "sesrows"}
    /\ Fails(p)
    /\ EmitReuse(p, "true")
    /\ Return(p)
    /\ UNCHANGED <<clocks, late, covered>>

ResponseError(p) ==
    /\ op[p] = "theft" /\ pc[p] \in {"revsess", "sesscan", "sesrows"}
    /\ Fails(p)
    /\ EmitReuse(p, "false")
    /\ Return(p)
    /\ UNCHANGED <<clocks, late, covered>>

\* Everywhere else the request returns.
StatementError(p) ==
    /\ \/ op[p] \notin {"none", "refresh", "theft"}
       \/ op[p] = "refresh" /\ pc[p] \in {"issue", "touch", "commit"}
       \/ op[p] = "theft" /\ pc[p] = "lookup"
    /\ Fails(p)
    /\ Return(p)
    /\ UNCHANGED <<clocks, seen>>

DbError(p) == \/ ClaimError(p) \/ SessionLiveError(p) \/ FamilyError(p)
              \/ ResponseError(p) \/ StatementError(p)

Crash(p) ==
    /\ Faults /\ pc[p] # "idle"
    /\ Rollback(p)
    /\ Return(p)
    /\ UNCHANGED <<clocks, seen>>

\* expires_at passes.
ExpireToken(t) ==
    /\ Clock /\ status[t] # "none" /\ t \notin expired
    /\ expired' = expired \cup {t}
    /\ UNCHANGED <<rows, people, lapsed, locks, request, seen>>

ExpireSession(s) ==
    /\ Clock /\ sess[s] # "none" /\ s \notin lapsed
    /\ lapsed' = lapsed \cup {s}
    /\ UNCHANGED <<rows, people, expired, locks, request, seen>>

----------------------------------------------------------------------------
Arrive(p) ==
    \/ \E t \in Tokens : Refresh(p, t) \/ RevokeToken(p, t)
    \/ \E s \in Sessions : TokenAuthCode(p, s) \/ EndSession(p, s)
    \/ \E i \in Identities : LogoutAll(p, i) \/ \E s \in Sessions : Logout(p, i, s)

Step(p) ==
    \/ ExchangeLive(p) \/ ExchangeDead(p) \/ \E n \in Tokens : ExchangeIssue(p, n)
    \/ ClaimRefresh(p) \/ ClaimFailed(p) \/ SessionLive(p) \/ SessionDead(p)
    \/ Issue(p) \/ IssueRefused(p)
    \/ TouchSession(p) \/ \E n \in Tokens : CommitRefresh(p, n)
    \/ RefreshByHash(p) \/ RefreshUnknown(p) \/ FamilyScan(p) \/ SessionScan(p)
    \/ \E t \in Tokens : SweepRow(p, t)
    \/ RevokeRefreshFamily(p) \/ RevokeDeadFamily(p)
    \/ RevokeSession(p) \/ RevokeSessionNotFound(p)
    \/ RevokeRefreshBySessions(p)
    \/ RevokeOne(p) \/ RevokeOneDenied(p) \/ AllScan(p) \/ \E s \in Sessions : AllRow(p, s)
    \/ RevokeAllSessions(p) \/ LogoutSwept(p) \/ CommitLogout(p)

Next ==
    \/ \E s \in Sessions : OpenBrowserSession(s) \/ \E n \in Tokens : Establish(s, n)
    \/ \E p \in Procs : Arrive(p) \/ Step(p) \/ DbError(p) \/ Crash(p)
    \/ \E t \in Tokens : ExpireToken(t)
    \/ \E s \in Sessions : ExpireSession(s)

Spec == Init /\ [][Next]_vars

----------------------------------------------------------------------------
(***************************************************************************)
(* What the design promises.                                               *)
(***************************************************************************)
\* A token a client can still exchange for a new pair.
Usable(t) == Claimable(t) /\ Live(sessionOf[t])

\* Rotation is a chain, however requests race or fail: a token is spent
\* exactly when it has a successor, of its own family and session; no two
\* tokens share one; and a family never has two active tokens
\* (ClaimRefreshToken, SetRefreshSuccessor, the rollback in WithinTx).
LinearFamily ==
    /\ \A t \in Tokens : status[t] = "consumed" <=> succ[t] # NoToken
    /\ \A t \in Tokens : succ[t] # NoToken =>
           /\ family[succ[t]] = family[t]
           /\ sessionOf[succ[t]] = sessionOf[t]
    /\ \A t, u \in Tokens : succ[t] = succ[u] /\ succ[t] # NoToken => t = u
    /\ \A t, u \in Tokens :
           status[t] = "active" /\ status[u] = "active" /\ family[t] = family[u] => t = u

\* A logout that committed left no token of any family its sweep could see:
\* the sweep misses a successor inserted by a rotation it overlaps, and only
\* the row lock TouchSession takes keeps the two apart (logout_interactor.go,
\* revokeOne).  A family begun by a code exchange during the logout, which runs
\* in no transaction, is not one of them.
LogoutSweepsFamilies ==
    \A t \in Tokens :
        status[t] = "active" /\ sess[sessionOf[t]] \in TxReasons =>
            family[t] \notin covered[sessionOf[t]]

\* However many rotations are in flight when a session is revoked, each family
\* gets at most one more token, and nobody can use it (refresh_interactor.go,
\* SessionLive inside the claiming transaction).
AtMostOneLate ==
    \A f \in Tokens : late[f] <= 1

\* A reuse event that says contained=true is never wrong: nothing of that
\* session can be exchanged again, whatever failed on the way
\* (respondToFailedClaim: "the alert has to carry the outcome").
ContainedIsUnusable ==
    \A s \in Sessions : "true" \in alarm[s] =>
        \A t \in Tokens : sessionOf[t] = s => ~Usable(t)

\* A spent or revoked token keeps its status for good, so the evidence theft
\* detection reads is never overwritten (the status = 'active' guard of every
\* UPDATE), and a revoked session keeps the reason it was revoked for.
EvidenceIsKept ==
    [][ /\ \A t \in Tokens : status[t] \in {"consumed", "revoked"} => status'[t] = status[t]
        /\ \A s \in Sessions : Revoked(s) => sess'[s] = sess[s] ]_vars

\* A sign-out ends nobody else's session: the row is revoked by its id before
\* its owner is known, so only the comparison between that UPDATE and the
\* commit, and the rollback when it fails, protect it (logout_interactor.go,
\* revokeOne); LogoutAll relies on its WHERE clause alone.
OnlyOwnersSignOut ==
    [][ \A s \in Sessions : sess[s] = "live" /\ sess'[s] \in TxReasons =>
            \E p \in Procs : op[p] \in {"logout", "logout_all"} /\ pc[p] = "commit"
                             /\ who[p] = Owner[s] ]_vars

----------------------------------------------------------------------------
(***************************************************************************)
(* Every request ends.  Strong fairness for a request's statements: a row  *)
(* lock that is free again and again is granted, because Postgres queues   *)
(* the waiters of a row.  Weak fairness for the deadlock detector, which   *)
(* looks after every deadlock_timeout.                                     *)
(***************************************************************************)
DeadlockVictim(p) == Deadlocked(p) /\ DbError(p)

FairSpec == /\ Spec
            /\ \A p \in Procs : SF_vars(Step(p))
            /\ WF_vars(\E p \in Procs : DeadlockVictim(p))

\* No request is left waiting for a row lock: rotations lock token then
\* session, logouts session then tokens, and the cycles this makes are broken
\* by aborting one of them (refresh_interactor.go, logout_interactor.go).
Termination == \A p \in Procs : pc[p] # "idle" ~> pc[p] = "idle"

----------------------------------------------------------------------------
(***************************************************************************)
(* What an answer of this code says and is not so.                         *)
(***************************************************************************)
\* "Session has been revoked": the answer of the errSessionDead branch is given
\* for a session that has ended.
SessionRevokedMeansDead ==
    \A p \in Procs : op[p] = "dead" => \A s \in ids[p] : ~Live(s)

=============================================================================
