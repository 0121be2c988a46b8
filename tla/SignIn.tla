------------------------------- MODULE SignIn -------------------------------
(***************************************************************************)
(* Signing one person in, and what ends or changes that person's sign-ins: *)
(* the password door of the API and of the hosted page, the challenge for  *)
(* an authenticator's code at both, the e-mail link, TOTP enrolment,       *)
(* password reset and change, sign-out everywhere, and the administrator's *)
(* disable, enable, epoch bump, SetPassword, ImportPasswordHash,           *)
(* RevokeCredential and UpdateRealm.                                       *)
(*                                                                         *)
(* Each process is one request. A step is one statement or the part of a   *)
(* request between two statements; what a transaction writes is seen at    *)
(* its commit. A session's refresh tokens and cookie live and die with it  *)
(* here (RefreshRotation has the protocol of the former and the locks on   *)
(* session rows). A verified password is named by the row that verified    *)
(* it. A realm's policy is what it says of TOTP, forbidden, allowed, or    *)
(* allowed and required with the enrolment deadline passed (what it does   *)
(* not allow it cannot require); what it says of the first factors only    *)
(* refuses sign-ins. Left out: device keys; a locked account, which every  *)
(* check treats as a disabled one; the expiry of one-time tokens, which    *)
(* only ends them sooner; the page's handle on an enrolment grant.         *)
(***************************************************************************)
EXTENDS Integers, Sequences, FiniteSets

CONSTANTS
    Procs,
    Requests,   \* the kinds of request the instance makes
    Starts,     \* where the person starts: [imported, enrolled, overdue]
    Faults,     \* whether a statement may fail
    MaxStep,    \* bound on the TOTP time steps
    MaxAdmin,   \* bound on the administrator's single-statement calls
    NoProc

Passwords == {"login", "browser"}                \* the password doors
Codes     == {"mfa", "browser_mfa"}              \* the second submit of each
SignIns   == Passwords \cup Codes \cup {"link"}
Mails     == {"reset_request", "link_request"}
Rekeys    == {"reset", "change"}
Writes    == {"set_password", "import"}
Enrols    == {"begin_totp", "confirm_totp"}
Cuts      == Rekeys \cup {"disable", "logout_all"}
Ops       == SignIns \cup Mails \cup Cuts \cup Writes \cup Enrols

ASSUME RequestsAssumption == Requests \subseteq Ops
ASSUME StartsAssumption == Starts \subseteq [imported : BOOLEAN, enrolled : BOOLEAN, overdue : BOOLEAN]
ASSUME BoundsAssumption == MaxStep \in Nat \ {0} /\ MaxAdmin \in Nat /\ Faults \in BOOLEAN
ASSUME NoProcAssumption == NoProc \notin Procs

VARIABLES
    status,    \* identities.status
    epoch,     \* identities.token_epoch
    cuts,      \* how often the person's tokens were called in
    creds,     \* rows of credentials
    sessions,  \* rows of sessions, each with the last access token issued for it
    onetime,   \* rows of one_time_tokens, consumed ones kept as spent
    realm,     \* the realm's policy on TOTP
    granted,   \* an enrolment grant was handed out
    pwLock,    \* the transaction that has written the person's password rows
    req,       \* process -> its request
    admin      \* how many single-statement calls the administrator made

identity == <<status, epoch, cuts>>
env      == <<realm, admin>>
vars == <<identity, creds, sessions, onetime, granted, env, pwLock, req>>

----------------------------------------------------------------------------
LiveOf(kind) == {c \in DOMAIN creds : creds[c].kind = kind /\ creds[c].state = "live"}

Row(kind, imported, step) ==
    [kind |-> kind, state |-> "live", imported |-> imported, step |-> step]

Token(kind, pw) == [kind |-> kind, spent |-> FALSE, pw |-> pw]

NoEpoch == -1

\* epoch and cuts are those of the token last issued; pw, totp, step and tok are
\* what the sign-in presented, bare is what it should have been asked for: the
\* authenticators the realm demanded throughout, and Enrolment where any would do.
Session(r, held) ==
    [live |-> TRUE, epoch |-> r.epoch, cuts |-> r.cuts, pw |-> r.pw, totp |-> r.totp,
     step |-> r.step, tok |-> r.tok, bare |-> IF r.totp = 0 THEN held ELSE {}]

Enrolment == 0

Idle == [op |-> "none", pc |-> "idle", tok |-> 0, pw |-> 0, totp |-> 0, step |-> 0,
         epoch |-> NoEpoch, cuts |-> 0, realm |-> "unread", held |-> {}, seen |-> {},
         swept |-> {}]

\* What earlier requests left: links and challenges nobody has used.
Pending(enrolled) ==
    <<Token("password_reset", 0), Token("email_login", 0)>>
        \o (IF enrolled THEN <<Token("mfa", 1), Token("browser_mfa", 1)>> ELSE <<>>)

\* A person with a password, perhaps an imported one, perhaps an authenticator,
\* signed in once.
Init ==
    /\ status = "active" /\ epoch = 0 /\ cuts = 0
    /\ \E x \in Starts :
          /\ creds = <<Row("password", x.imported, 0)>>
                        \o (IF x.enrolled THEN <<Row("totp", FALSE, 0)>> ELSE <<>>)
          /\ onetime = Pending(x.enrolled)
          /\ realm = IF x.overdue THEN "overdue" ELSE "allowed"
    /\ sessions = <<Session([Idle EXCEPT !.epoch = 0, !.pw = 1], {})>>
    /\ granted = FALSE /\ admin = 0
    /\ pwLock = NoProc
    /\ req = [p \in Procs |-> Idle]

----------------------------------------------------------------------------
(* The life of a request.                                                  *)

At(p, l) == req[p].pc = l
Set(p, r) == req' = [req EXCEPT ![p] = r]
Goto(p, l) == Set(p, [req[p] EXCEPT !.pc = l])
Done(p) == Set(p, [Idle EXCEPT !.pc = "done"])

First(o) ==
    CASE o \in Passwords                                           -> "realm"
      [] o \in Mails \cup {"change"}                               -> "identity"
      [] o \in Codes \cup {"link", "reset", "confirm_totp"}        -> "consume"
      [] o \in Writes                                              -> "revoke"
      [] o \in {"disable", "logout_all"}                           -> "sweep"
      [] o = "begin_totp"                                          -> "mint"

\* A token the gate takes, and the API's authentication with it (SessionAlive).
Accepted(s) == sessions[s].live /\ status = "active" /\ sessions[s].epoch = epoch

SignedIn == \E s \in DOMAIN sessions : Accepted(s)

\* caller: a first-party session, or a grant while nothing is enrolled.
Caller == SignedIn \/ (granted /\ LiveOf("totp") = {})

\* What a sign-in that begins now has to be asked for if nothing changes.
Demanded ==
    CASE realm = "forbidden" -> {}
      [] realm = "allowed"   -> LiveOf("totp")
      [] realm = "overdue"   -> LiveOf("totp") \cup {Enrolment}

Begin(p, o) ==
    /\ At(p, "idle")
    /\ o \in Requests
    /\ o \in {"change", "logout_all"} => SignedIn
    /\ o \in Enrols => Caller
    /\ Set(p, [Idle EXCEPT !.op = o, !.pc = First(o), !.held = IF o \in SignIns THEN Demanded ELSE {}])
    /\ UNCHANGED <<identity, creds, sessions, onetime, granted, env, pwLock>>

Release(p) == pwLock' = IF pwLock = p THEN NoProc ELSE pwLock

Failing(p) == Faults /\ req[p].pc \notin {"idle", "done", "rehash"}

\* Rows a statement revoked, those another transaction has revoked since apart.
Retire(rows, state) ==
    [c \in DOMAIN creds |->
        IF c \in rows /\ creds[c].state = "live" THEN [creds[c] EXCEPT !.state = state]
        ELSE creds[c]]

\* A bug: the revocation is not part of the transaction.
DbErrorHalfway(p) ==
    /\ Failing(p)
    /\ creds' = IF pwLock = p THEN Retire(req[p].seen, "replaced") ELSE creds
    /\ Release(p) /\ Done(p)
    /\ UNCHANGED <<identity, sessions, onetime, granted, env>>

\* A statement fails: the request is refused, and its transaction rolled back.
\* A failed lookup of the enrolled factors refuses, too.
DbError(p) ==
    /\ Failing(p)
    /\ Release(p) /\ Done(p)
    /\ UNCHANGED <<identity, creds, sessions, onetime, granted, env>>

----------------------------------------------------------------------------
(* One-time tokens.                                                        *)

Kind(o) ==
    CASE o \in {"login", "mfa"}                     -> "mfa"
      [] o \in {"browser", "browser_mfa", "link"}   -> "browser_mfa"
      [] o \in {"reset", "reset_request"}           -> "password_reset"
      [] o = "link_request"                         -> "email_login"
      [] o \in Enrols                               -> "totp_enroll"

\* CreateOneTime, the last thing a request that issues one does.
CreateOneTime(p) ==
    /\ At(p, "mint")
    /\ onetime' = Append(onetime, Token(Kind(req[p].op), req[p].pw))
    /\ Done(p)
    /\ UNCHANGED <<identity, creds, sessions, granted, env, pwLock>>

\* A bug: the row is read and deleted later.
ConsumeRead(p, t) == onetime' = onetime

\* DELETE ... RETURNING: one presentation gets the row.
ConsumeDelete(p, t) == onetime' = [onetime EXCEPT ![t].spent = TRUE]

ConsumeOneTime(p, t) ==
    LET o == req[p].op IN
    /\ At(p, "consume")
    /\ onetime[t].kind = (IF o = "link" THEN "email_login" ELSE Kind(o))
    /\ ~onetime[t].spent
    /\ ConsumeDelete(p, t)
    /\ Set(p, [req[p] EXCEPT !.tok = t, !.pw = onetime[t].pw,
                   !.pc = IF o \in {"mfa", "confirm_totp"} THEN "totp" ELSE "identity"])
    /\ UNCHANGED <<identity, creds, sessions, granted, env, pwLock>>

\* No row: never issued, expired or spent.
ConsumeNothing(p) ==
    /\ At(p, "consume")
    /\ Done(p)
    /\ UNCHANGED <<identity, creds, sessions, onetime, granted, env, pwLock>>

----------------------------------------------------------------------------
(* Who it is, and what it takes.                                           *)

\* RealmByCode, before the identity at a password door, RealmByID, after it, for
\* a link. The policy is used as read here, whatever comes between; a realm that
\* does not allow the first factor refuses.
ReadRealm(p) ==
    /\ At(p, "realm")
    /\ \/ Set(p, [req[p] EXCEPT !.realm = realm,
                      !.pc = IF req[p].op = "link" THEN "factors" ELSE "identity"])
       \/ Done(p)
    /\ UNCHANGED <<identity, creds, sessions, onetime, granted, env, pwLock>>

\* IdentityForLogin or Identity, and CanAuthenticate. The API asks after the
\* code, the page before it.
ReadIdentity(p) ==
    LET o == req[p].op IN
    /\ At(p, "identity")
    /\ IF status # "active" THEN Done(p)
       ELSE Goto(p, CASE o \in Passwords \cup {"change"} -> "password"
                      [] o \in Mails                     -> "mint"
                      [] o = "link"                      -> "realm"
                      [] o = "reset"                     -> "revoke"
                      [] o = "mfa"                       -> "view"
                      [] o = "browser_mfa"               -> "totp")
    /\ UNCHANGED <<identity, creds, sessions, onetime, granted, env, pwLock>>

\* PasswordCredential, kdf.Verify and, at a door, Expired.
VerifyPassword(p, c) ==
    LET o == req[p].op IN
    /\ At(p, "password")
    /\ c \in LiveOf("password")
    /\ Set(p, [req[p] EXCEPT !.pw = c,
                   !.pc = IF o = "change" THEN "revoke"
                          ELSE IF creds[c].imported THEN "rehash" ELSE "factors"])
    /\ UNCHANGED <<identity, creds, sessions, onetime, granted, env, pwLock>>

\* A wrong password, none, or an imported one whose expiry has passed.
WrongPassword(p) ==
    /\ At(p, "password")
    /\ Done(p)
    /\ UNCHANGED <<identity, creds, sessions, onetime, granted, env, pwLock>>

\* replaceHash of an imported password. CreateCredential comes before the
\* revocation and meets the unique index credentials_one_password while any
\* password row is live: it fails, and the failure is ignored. It works when
\* the row was revoked since it was read.
ReplaceHash(p) ==
    /\ At(p, "rehash")
    /\ pwLock = NoProc
    /\ creds' = IF LiveOf("password") # {} THEN creds
                ELSE Append(creds, Row("password", FALSE, 0))
    /\ Goto(p, "factors")
    /\ UNCHANGED <<identity, sessions, onetime, granted, env, pwLock>>

\* allowedOf the enrolled kinds: the authenticators the realm, as it was read,
\* accepts.
AllowedOf(p) == IF req[p].realm = "forbidden" THEN {} ELSE LiveOf("totp")

\* A bug: a lookup that failed is taken for "nothing enrolled".
NothingEnrolledOrUnknown(p) == AllowedOf(p) = {} \/ Faults

NothingEnrolled(p) == AllowedOf(p) = {}

EnrolmentOverdue(p) == req[p].realm = "overdue"

\* FactorPolicy: what is enrolled and allowed is asked for; what is required and
\* missing has to be enrolled first, with the grant that comes with the refusal.
AskForFactor(p) ==
    /\ At(p, "factors") /\ AllowedOf(p) # {}
    /\ Goto(p, "mint")
    /\ UNCHANGED <<identity, creds, sessions, onetime, granted, env, pwLock>>

RequireEnrolment(p) ==
    /\ At(p, "factors") /\ NothingEnrolled(p) /\ EnrolmentOverdue(p)
    /\ granted' = TRUE
    /\ Done(p)
    /\ UNCHANGED <<identity, creds, sessions, onetime, env, pwLock>>

AllowFirstFactor(p) ==
    /\ At(p, "factors") /\ NothingEnrolled(p) /\ ~EnrolmentOverdue(p)
    /\ Goto(p, IF req[p].op = "login" THEN "view" ELSE "open")
    /\ UNCHANGED <<identity, creds, sessions, onetime, granted, env, pwLock>>

\* ActiveCredentialOfKind and totp.Verify. Time passes as it likes between two
\* requests, so a code of any step may be within the window of the clock, and
\* two requests may come with one code. Of two live authenticators either can
\* be the newest: created_at is when the enrolment's transaction began. An
\* enrolment is confirmed with a code of the secret it is about to store.
VerifyTotp(p, c, k) ==
    /\ At(p, "totp")
    /\ k \in 1..MaxStep
    /\ IF req[p].op = "confirm_totp"
       THEN c = 0 /\ Set(p, [req[p] EXCEPT !.step = k, !.pc = "revoke"])
       ELSE c \in LiveOf("totp") /\ Set(p, [req[p] EXCEPT !.totp = c, !.step = k, !.pc = "advance"])
    /\ UNCHANGED <<identity, creds, sessions, onetime, granted, env, pwLock>>

\* Refused; the page asks again, with a new token for the same sign-in.
Refused(p) ==
    IF req[p].op = "browser_mfa" THEN Set(p, [req[p] EXCEPT !.totp = 0, !.step = 0, !.pc = "mint"])
                                 ELSE Done(p)

WrongCode(p) ==
    /\ At(p, "totp")
    /\ Refused(p)
    /\ UNCHANGED <<identity, creds, sessions, onetime, granted, env, pwLock>>

\* A bug: a step equal to the last one accepted passes.
NotOlder(p) == creds[req[p].totp].step <= req[p].step

StrictlyNewer(p) == creds[req[p].totp].step < req[p].step

\* AdvanceCredentialStep: the guard is the WHERE of the UPDATE.
AdvanceCredentialStep(p) ==
    /\ At(p, "advance")
    /\ StrictlyNewer(p)
    /\ creds' = [creds EXCEPT ![req[p].totp].step = req[p].step]
    /\ Goto(p, IF req[p].op = "mfa" THEN "identity" ELSE "open")
    /\ UNCHANGED <<identity, sessions, onetime, granted, env, pwLock>>

CodeReplayed(p) ==
    /\ At(p, "advance")
    /\ ~StrictlyNewer(p)
    /\ Refused(p)
    /\ UNCHANGED <<identity, creds, sessions, onetime, granted, env, pwLock>>

----------------------------------------------------------------------------
(* Sessions and their tokens.                                              *)

\* Establish's transaction up to Issue: the session is inserted, SessionLive
\* reads the person's status and epoch with it.
SessionView(p) ==
    /\ At(p, "view")
    /\ IF status # "active" THEN Done(p)
       ELSE Set(p, [req[p] EXCEPT !.epoch = epoch, !.cuts = cuts, !.pc = "open"])
    /\ UNCHANGED <<identity, creds, sessions, onetime, granted, env, pwLock>>

\* The commit; or openBrowserSession, which issues no token.
OpenSession(p) ==
    /\ At(p, "open")
    /\ sessions' = Append(sessions, Session(req[p], req[p].held \cap (LiveOf("totp") \cup {Enrolment})))
    /\ Done(p)
    /\ UNCHANGED <<identity, creds, onetime, granted, env, pwLock>>

\* A refresh, or the code of a browser session exchanged.
Issue(s) ==
    /\ sessions[s].live /\ status = "active"
    /\ sessions' = [sessions EXCEPT ![s].epoch = epoch, ![s].cuts = cuts]
    /\ UNCHANGED <<identity, creds, onetime, granted, env, pwLock, req>>

----------------------------------------------------------------------------
(* The transactions that replace credentials and call tokens in.           *)

\* RevokeCredentialsOfKind sees the rows that are live when it starts.
RevokeCredentialsOfKind(p) ==
    LET kind == IF req[p].op = "confirm_totp" THEN "totp" ELSE "password" IN
    /\ At(p, "revoke")
    /\ Set(p, [req[p] EXCEPT !.seen = LiveOf(kind),
                   !.pc = IF kind = "totp" THEN "commit" ELSE "create"])
    /\ UNCHANGED <<identity, creds, sessions, onetime, granted, env, pwLock>>

\* credentials_one_password: no live row but those this transaction has revoked.
IndexAdmits(p) == LiveOf("password") \subseteq req[p].seen

\* CreateCredential of a password: it waits for a rival's transaction, and the
\* unique index refuses it when the rival's row is live.
CreateCredential(p) ==
    /\ At(p, "create")
    /\ pwLock = NoProc
    /\ IF IndexAdmits(p)
       THEN pwLock' = p /\ Goto(p, IF req[p].op \in Rekeys THEN "sweep" ELSE "commit")
       ELSE Done(p) /\ UNCHANGED pwLock
    /\ UNCHANGED <<identity, creds, sessions, onetime, granted, env>>

\* RevokeAllSessions sees the sessions that are committed when it starts.
RevokeAllSessions(p) ==
    /\ At(p, "sweep")
    /\ Set(p, [req[p] EXCEPT !.swept = {s \in DOMAIN sessions : sessions[s].live}, !.pc = "commit"])
    /\ UNCHANGED <<identity, creds, sessions, onetime, granted, env, pwLock>>

\* A bug: disabling revokes the sessions and forgets the epoch.
BumpUnlessDisabling(o) == IF o = "disable" THEN epoch ELSE epoch + 1

BumpTokenEpoch(o) == epoch + 1

\* What rekey, DisableIdentity and LogoutAll have in common.
CallIn(p) ==
    /\ sessions' = [s \in DOMAIN sessions |->
           IF s \in req[p].swept THEN [sessions[s] EXCEPT !.live = FALSE] ELSE sessions[s]]
    /\ epoch' = BumpTokenEpoch(req[p].op)
    /\ cuts' = cuts + 1
    /\ status' = IF req[p].op = "disable" THEN "disabled" ELSE status

CommitCut(p) ==
    /\ At(p, "commit") /\ req[p].op \in {"disable", "logout_all"}
    /\ CallIn(p)
    /\ Done(p)
    /\ UNCHANGED <<creds, onetime, granted, env, pwLock>>

CommitRekey(p) ==
    /\ At(p, "commit") /\ req[p].op \in Rekeys
    /\ creds' = Append(Retire(req[p].seen, "rekeyed"), Row("password", FALSE, 0))
    /\ CallIn(p)
    /\ Release(p) /\ Done(p)
    /\ UNCHANGED <<onetime, granted, env>>

\* SetPassword and ImportPasswordHash end no session.
CommitPassword(p) ==
    /\ At(p, "commit") /\ req[p].op \in Writes
    /\ creds' = Append(Retire(req[p].seen, "replaced"),
                       Row("password", req[p].op = "import", 0))
    /\ Release(p) /\ Done(p)
    /\ UNCHANGED <<identity, sessions, onetime, granted, env>>

CommitTotp(p) ==
    /\ At(p, "commit") /\ req[p].op = "confirm_totp"
    /\ creds' = Append(Retire(req[p].seen, "replaced"), Row("totp", FALSE, req[p].step))
    /\ Done(p)
    /\ UNCHANGED <<identity, sessions, onetime, granted, env, pwLock>>

----------------------------------------------------------------------------
(* The administrator's single statements.                                  *)

Admin == admin < MaxAdmin /\ admin' = admin + 1

EnableIdentity ==
    /\ Admin
    /\ status = "disabled" /\ status' = "active"
    /\ UNCHANGED <<epoch, cuts, creds, sessions, onetime, granted, realm, pwLock, req>>

AdminBumpTokenEpoch ==
    /\ Admin
    /\ epoch' = epoch + 1 /\ cuts' = cuts + 1
    /\ UNCHANGED <<status, creds, sessions, onetime, granted, realm, pwLock, req>>

RevokeCredential(c) ==
    /\ Admin
    /\ creds[c].state = "live"
    /\ creds[c].kind = "password" => pwLock = NoProc
    /\ creds' = Retire({c}, "revoked")
    /\ UNCHANGED <<identity, sessions, onetime, granted, realm, pwLock, req>>

\* What was demanded and still is; it keeps track, for the requests under way.
StillDemanded(held, policy) ==
    CASE policy = "forbidden" -> {}
      [] policy = "allowed"   -> held \ {Enrolment}
      [] policy = "overdue"   -> held

\* UpdateRealm writes the policy; a deadline that comes, too, changes it, and
\* counts as passed for the requests that read the realm after.
UpdateRealm(policy) ==
    /\ Admin
    /\ realm' = policy
    /\ req' = [p \in Procs |-> [req[p] EXCEPT !.held = StillDemanded(@, policy)]]
    /\ UNCHANGED <<identity, creds, sessions, onetime, granted, pwLock>>

----------------------------------------------------------------------------
Policies == {"forbidden", "allowed", "overdue"}

Step(p) ==
    \/ \E o \in Requests : Begin(p, o)
    \/ DbError(p)
    \/ CreateOneTime(p) \/ ConsumeNothing(p) \/ \E t \in DOMAIN onetime : ConsumeOneTime(p, t)
    \/ ReadRealm(p) \/ ReadIdentity(p) \/ WrongPassword(p) \/ \E c \in DOMAIN creds : VerifyPassword(p, c)
    \/ ReplaceHash(p) \/ AskForFactor(p) \/ RequireEnrolment(p) \/ AllowFirstFactor(p)
    \/ WrongCode(p) \/ \E c \in {0} \cup DOMAIN creds : \E k \in 1..MaxStep : VerifyTotp(p, c, k)
    \/ AdvanceCredentialStep(p) \/ CodeReplayed(p)
    \/ SessionView(p) \/ OpenSession(p)
    \/ RevokeCredentialsOfKind(p) \/ CreateCredential(p) \/ RevokeAllSessions(p)
    \/ CommitCut(p) \/ CommitRekey(p) \/ CommitPassword(p) \/ CommitTotp(p)

Next ==
    \/ \E p \in Procs : Step(p)
    \/ \E s \in DOMAIN sessions : Issue(s)
    \/ EnableIdentity \/ AdminBumpTokenEpoch \/ \E c \in DOMAIN creds : RevokeCredential(c)
    \/ \E policy \in Policies \ {realm} : UpdateRealm(policy)

Spec == Init /\ [][Next]_vars

----------------------------------------------------------------------------
(* Properties.                                                             *)

PCs == {"idle", "realm", "identity", "password", "rehash", "factors", "mint", "consume", "totp",
        "advance", "view", "open", "revoke", "create", "sweep", "commit", "done"}

\* The rows keep their shape and the unique index credentials_one_password holds.
TypeOK ==
    /\ status \in {"active", "disabled"} /\ epoch \in Nat /\ cuts \in Nat
    /\ \A c \in DOMAIN creds :
          creds[c] \in [kind : {"password", "totp"}, imported : BOOLEAN, step : 0..MaxStep,
                        state : {"live", "rekeyed", "replaced", "revoked"}]
    /\ \A t \in DOMAIN onetime :
          onetime[t] \in [kind : {"mfa", "browser_mfa", "password_reset", "email_login",
                                  "totp_enroll"}, spent : BOOLEAN, pw : 0..Len(creds)]
    /\ \A s \in DOMAIN sessions : sessions[s].epoch \in {NoEpoch} \cup 0..epoch
    /\ realm \in Policies /\ granted \in BOOLEAN /\ admin \in 0..MaxAdmin
    /\ pwLock \in Procs \cup {NoProc}
    /\ \A p \in Procs : req[p].op \in Ops \cup {"none"} /\ req[p].pc \in PCs

\* A token that is accepted was issued after the person was last disabled,
\* signed out everywhere, rekeyed or bumped, though the sign-in that issued it
\* may have begun before and its session was never swept ("no outstanding
\* access token survives", rekey; "every live session dies", DisableIdentity).
AcceptedTokenIsCurrent ==
    \A s \in DOMAIN sessions : Accepted(s) => sessions[s].cuts = cuts

\* A code opens one session, at whichever door and however many presentations
\* of it are under way (verifyMfaInteractor, completeSecondFactor).
OneCodeOneSession ==
    \A s, u \in DOMAIN sessions :
        s # u /\ sessions[s].totp = sessions[u].totp /\ sessions[s].totp # 0
            => sessions[s].step # sessions[u].step

\* A link or a challenge opens one session, and a reset link sets one password
\* (ConsumeOneTimeToken's "atomic single use").
OneTokenOneUse ==
    /\ \A s, u \in DOMAIN sessions :
          s # u /\ sessions[s].tok = sessions[u].tok => sessions[s].tok = 0
    /\ \A p, q \in Procs :
          p # q /\ req[p].tok = req[q].tok => req[p].tok = 0
    /\ \A p \in Procs : \A s \in DOMAIN sessions :
          req[p].tok = sessions[s].tok => req[p].tok = 0

\* Nobody is let in without an authenticator they held, in a realm that allowed
\* it, from before the sign-in to its end; nor, where the deadline had passed and
\* the realm required one all that time, without any (FactorPolicy, allowedOf).
EnrolledFactorIsAsked == \A s \in DOMAIN sessions : sessions[s].bare = {}

\* Whatever fails and whoever comes between, setting a password leaves the
\* person exactly one: only the administrator's RevokeCredential takes the last.
OnePassword ==
    /\ Cardinality(LiveOf("password")) <= 1
    /\ \/ LiveOf("password") # {}
       \/ \E c \in DOMAIN creds : creds[c].kind = "password" /\ creds[c].state = "revoked"

----------------------------------------------------------------------------
\* What a comment in the code claims and these steps refute; added to a run's
\* configuration as an INVARIANT, it gives its counterexample.

\* rekey: "no outstanding access token survives the password it was issued
\* under", whichever way the sign-in came.
NoTokenOutlivesPassword ==
    \A s \in DOMAIN sessions :
        Accepted(s) /\ sessions[s].pw # 0 => creds[sessions[s].pw].state # "rekeyed"

=============================================================================
