---------------------------- MODULE ControlPlane ----------------------------
(***************************************************************************)
(* The operators of the installation: their sign-in, with or without a     *)
(* second factor, the rotation of their refresh tokens, sign-out, password *)
(* change and reset, TOTP enrolment, disabling and enabling, and the owner *)
(* assignments that carry the right to administer operators.               *)
(*                                                                         *)
(* Each process is one request. None of these usecases opens a             *)
(* transaction, so every statement commits by itself and any other request *)
(* may come between two of them. A request that needs an access token      *)
(* presents any that was ever minted; whether it is still good is what the *)
(* guard decides. An owner assignment is the only one told apart: the      *)
(* others carry no right over operators. Left out: API keys, operators and *)
(* assignments being created for new people, assignments that end by date, *)
(* rate limits.                                                            *)
(***************************************************************************)
EXTENDS Naturals, Sequences, FiniteSets

CONSTANTS
    Procs,
    Operators,
    Requests,   \* the kinds of request the instance makes
    Starts,     \* how operators start: [enrolled, behind]
    Faults,     \* whether a statement may fail
    MaxStep,    \* bound on the TOTP time steps, all within one window
    NoOne

Doors    == {"login", "mfa"}
Rotation == {"refresh", "logout"}
Admin    == {"reset", "disable", "enable", "revoke", "assign"}
Own      == {"change", "begin_totp", "confirm_totp"}
Kinds    == Doors \cup Rotation \cup Admin \cup Own

ASSUME KindsAssumption == Requests \subseteq Kinds
ASSUME OperatorsStartAssumption == Starts \subseteq [enrolled : BOOLEAN, behind : BOOLEAN]
ASSUME LimitsAssumption == MaxStep \in Nat \ {0} /\ Faults \in BOOLEAN
ASSUME NoOneAssumption == NoOne \notin Operators /\ IsFiniteSet(Operators)

VARIABLES
    users,      \* operator -> its row of platform_users
    owners,     \* the operators with a live owner assignment
    tokens,     \* rows of platform_refresh_tokens
    killed,     \* the families a reuse or a sign-out revoked
    access,     \* the access tokens minted
    challenges, \* the second-factor challenges handed out
    enrolments, \* operator -> the secret a code was verified for, at each enrolment
    cuts,       \* operator -> how often its tokens were superseded
    req         \* process -> its request

rows == <<users, owners, tokens>>
seen == <<killed, access, challenges, enrolments, cuts>>
vars == <<rows, seen, req>>

(* pw numbers the passwords an operator has had; behind: its hash is of an *)
(* old cost. secret numbers the staged secrets, 0 is none.                 *)
User(x) ==
    [status |-> "active", epoch |-> 0, pw |-> 1, behind |-> x.behind,
     secret |-> IF x.enrolled THEN 1 ELSE 0, enrolled |-> x.enrolled, step |-> 0]

(* A code: the secret it was computed from and the time step, 0 if none    *)
(* was presented; enrolment is the one in force when it was accepted.      *)
NoCode == [secret |-> 0, step |-> 0, enrolment |-> 0]

Idle == [op |-> "none", pc |-> "idle", who |-> NoOne, target |-> NoOne, tok |-> 0,
         pw |-> 0, enrolled |-> FALSE, epoch |-> 0, cuts |-> 0, code |-> NoCode]

(* A token of a family: pw and code are what its sign-in presented.        *)
Link(r, family) ==
    [who |-> r.who, family |-> family, used |-> FALSE, revoked |-> FALSE,
     pw |-> r.pw, code |-> r.code]

Minted(r) == [who |-> r.who, epoch |-> r.epoch, cuts |-> r.cuts, pw |-> r.pw]

(* Everybody has signed in once, and passed the password a second time     *)
(* where a factor is enrolled.                                             *)
SignedIn(o) == [Idle EXCEPT !.who = o, !.pw = 1]

Init ==
    /\ \E x \in Starts : users = [o \in Operators |-> User(x)]
    /\ owners = Operators
    /\ \E order \in [1 .. Cardinality(Operators) -> Operators] :
          /\ {order[i] : i \in DOMAIN order} = Operators
          /\ tokens = [i \in DOMAIN order |-> Link(SignedIn(order[i]), i)]
    /\ killed = {}
    /\ access = {Minted(SignedIn(o)) : o \in Operators}
    /\ challenges = {[who |-> o, pw |-> 1] : o \in {u \in Operators : users[u].enrolled}}
    /\ enrolments = [o \in Operators |-> IF users[o].enrolled THEN <<users[o].secret>> ELSE <<>>]
    /\ cuts = [o \in Operators |-> 0]
    /\ req = [p \in Procs |-> Idle]

-----------------------------------------------------------------------------
(* The life of a request.                                                  *)

At(p, l) == req[p].pc = l
Set(p, r) == req' = [req EXCEPT ![p] = r]
Goto(p, l) == Set(p, [req[p] EXCEPT !.pc = l])
Done(p) == Set(p, [Idle EXCEPT !.pc = "done"])

(* A name and a password, a challenge, a refresh token, an access token.   *)
Login(p, o) ==
    /\ At(p, "idle") /\ "login" \in Requests
    /\ Set(p, [Idle EXCEPT !.op = "login", !.pc = "password", !.who = o])
    /\ UNCHANGED <<rows, seen>>

VerifyMFA(p, c) ==
    /\ At(p, "idle") /\ "mfa" \in Requests
    /\ Set(p, [Idle EXCEPT !.op = "mfa", !.pc = "row", !.who = c.who, !.pw = c.pw])
    /\ UNCHANGED <<rows, seen>>

Present(p, op, t) ==
    /\ At(p, "idle") /\ op \in Requests \cap Rotation
    /\ Set(p, [Idle EXCEPT !.op = op, !.pc = "lookup", !.tok = t])
    /\ UNCHANGED <<rows, seen>>

Call(p, op, a, o) ==
    /\ At(p, "idle") /\ op \in Requests \cap (Admin \cup Own)
    /\ op \in {"reset", "disable"} => o # a.who
    /\ op \in Own => o = a.who
    /\ Set(p, [Idle EXCEPT !.op = op, !.who = a.who, !.target = o, !.epoch = a.epoch,
                   !.pc = CASE op = "begin_totp"   -> "stage"
                            [] op = "confirm_totp" -> "secret"
                            [] OTHER               -> "standing"])
    /\ UNCHANGED <<rows, seen>>

(* A statement fails and the request with it; the answer of a failed       *)
(* family revocation is not read, but the request is over then as well.    *)
DbError(p) ==
    /\ Faults
    /\ req[p].pc \notin {"idle", "done", "rehash"}
    /\ Done(p)
    /\ UNCHANGED <<rows, seen>>

-----------------------------------------------------------------------------
(* Sign-in.                                                                *)

(* What a request keeps of the row it read: the epoch its token will carry.*)
Reading(r) == [r EXCEPT !.epoch = users[r.who].epoch, !.cuts = cuts[r.who]]

(* PlatformUserByUsername, kdf.Verify, Active.                             *)
CheckPassword(p) ==
    LET r == req[p]
        u == users[r.who]
    IN
    /\ At(p, "password")
    /\ IF u.status # "active" THEN Done(p)
       ELSE Set(p, [Reading(r) EXCEPT !.pw = u.pw, !.enrolled = u.enrolled,
                        !.pc = IF u.behind THEN "rehash" ELSE "roles"])
    /\ UNCHANGED <<rows, seen>>

WrongPassword(p) ==
    /\ At(p, "password")
    /\ Done(p)
    /\ UNCHANGED <<rows, seen>>

(* RehashPassword changes a row that still has the hash just verified; a   *)
(* bug: whatever it has.                                                   *)
AnyHash(p) == TRUE
StillVerified(p) == users[req[p].who].pw = req[p].pw /\ users[req[p].who].behind

(* Its error is not read.                                                  *)
Rehash(p) ==
    /\ At(p, "rehash")
    /\ \/ /\ StillVerified(p)
          /\ users' = [users EXCEPT ![req[p].who].pw = req[p].pw, ![req[p].who].behind = FALSE]
       \/ /\ ~StillVerified(p) \/ Faults
          /\ UNCHANGED users
    /\ Goto(p, "roles")
    /\ UNCHANGED <<owners, tokens, seen>>

(* Assignments: nobody without a live one gets in. An enrolled factor      *)
(* turns a password into a challenge, which names the operator only.       *)
LiveRoles(p) ==
    /\ At(p, "roles")
    /\ IF req[p].who \notin owners THEN Done(p) /\ UNCHANGED challenges
       ELSE IF req[p].op = "login" /\ req[p].enrolled
       THEN /\ challenges' = challenges \cup {[who |-> req[p].who, pw |-> req[p].pw]}
            /\ Done(p)
       ELSE /\ Goto(p, IF req[p].op = "refresh" THEN "append" ELSE "open")
            /\ UNCHANGED challenges
    /\ UNCHANGED <<rows, killed, access, enrolments, cuts>>

(* InsertPlatformRefreshRoot: the row's own id is the family's.            *)
Root(r) == Link(r, Len(tokens) + 1)

(* beginSession: the token carries the epoch read with the row.            *)
BeginSession(p) ==
    /\ At(p, "open")
    /\ tokens' = Append(tokens, Root(req[p]))
    /\ access' = access \cup {Minted(req[p])}
    /\ Done(p)
    /\ UNCHANGED <<users, owners, killed, challenges, enrolments, cuts>>

(* PlatformUserByID, of a challenge or a rotation.                         *)
ReadRow(p) ==
    LET r == req[p]
        u == users[r.who]
    IN
    /\ At(p, "row")
    /\ IF u.status # "active" \/ (r.op = "mfa" /\ ~u.enrolled) THEN Done(p)
       ELSE Set(p, [Reading(r) EXCEPT !.pc = IF r.op = "mfa" THEN "secret" ELSE "roles"])
    /\ UNCHANGED <<rows, seen>>

(* TOTPSecret and totp.Verify: a code of the secret the row holds, for any *)
(* step of the window, or a wrong one.                                     *)
VerifyCode(p, k) ==
    LET r == req[p]
        sec == users[r.who].secret
    IN
    /\ At(p, "secret")
    /\ IF sec = 0 \/ k = 0 THEN Done(p)
       ELSE Set(p, [r EXCEPT !.code = [secret |-> sec, step |-> k, enrolment |-> 0],
                        !.pc = IF r.op = "mfa" THEN "advance" ELSE "confirm"])
    /\ UNCHANGED <<rows, seen>>

(* AdvanceTOTPStep: strictly newer than the last one accepted; a bug: not  *)
(* older.                                                                  *)
NotOlder(p) == users[req[p].who].step <= req[p].code.step
Newer(p) == users[req[p].who].step < req[p].code.step

AdvanceTOTPStep(p) ==
    LET r == req[p] IN
    /\ At(p, "advance")
    /\ IF Newer(p)
       THEN /\ users' = [users EXCEPT ![r.who].step = r.code.step]
            /\ Set(p, [r EXCEPT !.code.enrolment = Len(enrolments[r.who]), !.pc = "roles"])
       ELSE Done(p) /\ UNCHANGED users
    /\ UNCHANGED <<owners, tokens, seen>>

-----------------------------------------------------------------------------
(* Rotation and sign-out.                                                  *)

Spent(t) == tokens[t].used \/ tokens[t].revoked

(* RefreshByHash. A spent token is theft.                                  *)
Lookup(p) ==
    LET r == req[p]
        t == tokens[r.tok]
    IN
    /\ At(p, "lookup")
    /\ Set(p, [r EXCEPT !.who = t.who, !.pw = t.pw, !.code = t.code,
                   !.pc = IF r.op = "logout" \/ Spent(r.tok) THEN "kill" ELSE "consume"])
    /\ UNCHANGED <<rows, seen>>

(* A bug: used_at is set whatever the row holds.                           *)
ConsumeUnguarded(p) ==
    /\ At(p, "consume")
    /\ tokens' = [tokens EXCEPT ![req[p].tok].used = TRUE]
    /\ Goto(p, "row")
    /\ UNCHANGED <<users, owners, seen>>

(* ConsumeRefresh: one caller can flip used_at.                            *)
ConsumeRefresh(p) ==
    /\ At(p, "consume")
    /\ IF Spent(req[p].tok) THEN Goto(p, "kill") /\ UNCHANGED tokens
       ELSE /\ tokens' = [tokens EXCEPT ![req[p].tok].used = TRUE]
            /\ Goto(p, "row")
    /\ UNCHANGED <<users, owners, seen>>

(* AppendRefresh: the successor, and a token with the epoch read after the *)
(* predecessor was consumed.                                               *)
AppendRefresh(p) ==
    /\ At(p, "append")
    /\ tokens' = Append(tokens, Link(req[p], tokens[req[p].tok].family))
    /\ access' = access \cup {Minted(req[p])}
    /\ Done(p)
    /\ UNCHANGED <<users, owners, killed, challenges, enrolments, cuts>>

(* RevokeRefreshFamily, of a sign-out or of refreshReuse.                  *)
RevokeRefreshFamily(p) ==
    LET f == tokens[req[p].tok].family IN
    /\ At(p, "kill")
    /\ tokens' = [t \in DOMAIN tokens |->
                     IF tokens[t].family = f THEN [tokens[t] EXCEPT !.revoked = TRUE] ELSE tokens[t]]
    /\ killed' = killed \cup {f}
    /\ Done(p)
    /\ UNCHANGED <<users, owners, access, challenges, enrolments, cuts>>

-----------------------------------------------------------------------------
(* What an operator does with an access token.                             *)

(* stillValid and live(): the account is active and the epoch is the row's.*)
Standing(p) ==
    LET r == req[p]
        u == users[r.who]
    IN
    /\ At(p, "standing")
    /\ IF u.status = "active" /\ r.epoch = u.epoch
       THEN Goto(p, IF r.op = "change" THEN "current" ELSE "authority")
       ELSE Done(p)
    /\ UNCHANGED <<rows, seen>>

(* require: a live assignment that carries the right.                      *)
Authority(p) ==
    /\ At(p, "authority")
    /\ IF req[p].who \in owners
       THEN Goto(p, IF req[p].op = "revoke" THEN "count" ELSE "write")
       ELSE Done(p)
    /\ UNCHANGED <<rows, seen>>

(* The current password, of the row as it is now; or a wrong one.          *)
VerifyCurrent(p) ==
    /\ At(p, "current")
    /\ Goto(p, "write") \/ Done(p)
    /\ UNCHANGED <<rows, seen>>

(* lastOwnerCheck counts live assignments, whoever holds them.             *)
LastOwnerCheck(p) ==
    /\ At(p, "count")
    /\ IF req[p].target \in owners /\ Cardinality(owners) <= 1 THEN Done(p) ELSE Goto(p, "write")
    /\ UNCHANGED <<rows, seen>>

(* SetPlatformUserPassword and SetPlatformUserStatus; a bug: a disabling   *)
(* that leaves token_epoch alone.                                          *)
NewPassword(u) == [u EXCEPT !.pw = @ + 1, !.behind = FALSE, !.epoch = @ + 1]
DisabledOnly(u) == [u EXCEPT !.status = "disabled"]
Disabled(u) == [u EXCEPT !.status = "disabled", !.epoch = @ + 1]
Enabled(u) == [u EXCEPT !.status = "active"]

WriteUser(p) ==
    LET r == req[p] IN
    /\ At(p, "write") /\ r.op \in {"change", "reset", "disable", "enable"}
    /\ users' = [users EXCEPT ![r.target] = CASE r.op = "disable" -> Disabled(@)
                                              [] r.op = "enable"  -> Enabled(@)
                                              [] OTHER            -> NewPassword(@)]
    /\ cuts' = [cuts EXCEPT ![r.target] = IF r.op = "enable" THEN @ ELSE @ + 1]
    /\ Done(p)
    /\ UNCHANGED <<owners, tokens, killed, access, challenges, enrolments>>

(* RevokeAssignment and CreateAssignment: a row that is gone, or that is   *)
(* there already, is an error.                                             *)
WriteAssignment(p) ==
    LET r == req[p] IN
    /\ At(p, "write") /\ r.op \in {"revoke", "assign"}
    /\ owners' = IF r.op = "revoke" THEN owners \ {r.target} ELSE owners \cup {r.target}
    /\ Done(p)
    /\ UNCHANGED <<users, tokens, seen>>

(* BeginTOTPEnrolment asks only whose token it is; StageTotpSecret leaves  *)
(* totp_enrolled_at alone.                                                 *)
StageTOTPSecret(p) ==
    /\ At(p, "stage")
    /\ users' = [users EXCEPT ![req[p].who].secret = @ + 1]
    /\ Done(p)
    /\ UNCHANGED <<owners, tokens, seen>>

(* ConfirmTotpEnrolment: the row has a secret, and the code's step becomes *)
(* the last one accepted.                                                  *)
ConfirmTOTP(p) ==
    LET r == req[p] IN
    /\ At(p, "confirm")
    /\ users' = [users EXCEPT ![r.who].enrolled = TRUE, ![r.who].step = r.code.step]
    /\ enrolments' = [enrolments EXCEPT ![r.who] = Append(@, r.code.secret)]
    /\ Done(p)
    /\ UNCHANGED <<owners, tokens, killed, access, challenges, cuts>>

-----------------------------------------------------------------------------
Step(p) ==
    \/ CheckPassword(p) \/ WrongPassword(p) \/ Rehash(p) \/ LiveRoles(p) \/ BeginSession(p)
    \/ ReadRow(p) \/ (\E k \in 0 .. MaxStep : VerifyCode(p, k)) \/ AdvanceTOTPStep(p)
    \/ Lookup(p) \/ ConsumeRefresh(p) \/ AppendRefresh(p) \/ RevokeRefreshFamily(p)
    \/ Standing(p) \/ Authority(p) \/ VerifyCurrent(p) \/ LastOwnerCheck(p)
    \/ WriteUser(p) \/ WriteAssignment(p) \/ StageTOTPSecret(p) \/ ConfirmTOTP(p)
    \/ DbError(p)

Next ==
    \E p \in Procs :
        \/ \E o \in Operators : Login(p, o)
        \/ \E c \in challenges : VerifyMFA(p, c)
        \/ \E op \in Rotation, t \in DOMAIN tokens : Present(p, op, t)
        \/ \E op \in Admin \cup Own, a \in access, o \in Operators : Call(p, op, a, o)
        \/ Step(p)

Spec == Init /\ [][Next]_vars

-----------------------------------------------------------------------------
(* Properties.                                                             *)

Codes == [secret : Nat, step : 0 .. MaxStep, enrolment : Nat]

(* Every row, token, challenge and request has the shape the code gives it.*)
TypeOK ==
    /\ users \in [Operators -> [status : {"active", "disabled"}, epoch : Nat, pw : Nat,
                                behind : BOOLEAN, secret : Nat, enrolled : BOOLEAN, step : 0 .. MaxStep]]
    /\ owners \subseteq Operators
    /\ tokens \in Seq([who : Operators, family : DOMAIN tokens, used : BOOLEAN,
                       revoked : BOOLEAN, pw : Nat, code : Codes])
    /\ killed \subseteq DOMAIN tokens
    /\ access \subseteq [who : Operators, epoch : Nat, cuts : Nat, pw : Nat]
    /\ challenges \subseteq [who : Operators, pw : Nat]
    /\ enrolments \in [Operators -> Seq(Nat)]
    /\ cuts \in [Operators -> Nat]

(* However rotations, replays and sign-outs of one family interleave, it   *)
(* has one token that can still be spent, counting the successor a         *)
(* rotation past its ConsumeRefresh is about to append.                    *)
Rotating(f) ==
    {p \in Procs : req[p].op = "refresh" /\ req[p].pc \in {"row", "roles", "append"}
                     /\ tokens[req[p].tok].family = f}

OneUsableToken ==
    \A f \in DOMAIN tokens :
        Cardinality({t \in DOMAIN tokens : tokens[t].family = f /\ ~Spent(t)})
            + Cardinality(Rotating(f)) <= 1

(* An access token minted from a row that has since been superseded (a     *)
(* password change, a reset, a disabling, even one undone) is refused by   *)
(* stillValid, whenever the request that minted it read that row.          *)
SupersededTokenRefused ==
    \A a \in access : a.epoch = users[a.who].epoch => a.cuts = cuts[a.who]

(* A password once replaced never comes back, though a sign-in that        *)
(* verified it is about to write its upgraded hash.                        *)
OldPasswordStaysOut == [][\A o \in Operators : users'[o].pw >= users[o].pw]_vars

(* Within one enrolment a TOTP code opens at most one session, however     *)
(* many challenges it is presented with at once.                           *)
Roots == {t \in DOMAIN tokens : tokens[t].family = t /\ tokens[t].code # NoCode}

CodeOpensOneSession ==
    \A s, t \in Roots : tokens[s].who = tokens[t].who /\ tokens[s].code = tokens[t].code => s = t

-----------------------------------------------------------------------------
(* What comments in the code claim and these steps refute; added to a      *)
(* run's configuration as an INVARIANT, each gives its counterexample.     *)

(* "ChangePassword rotates the caller's own password and ends every        *)
(* session opened under the old one": an access token the guard accepts    *)
(* comes from a sign-in with the password in force.                        *)
NoSessionOutlivesPassword ==
    \A a \in access : users[a.who].epoch = a.epoch => a.pw = users[a.who].pw

(* RevokePlatformRefreshFamily "kills every token descended from one       *)
(* sign-in": a family signed out or caught replaying has no usable token.  *)
FamilyStaysDead ==
    \A t \in DOMAIN tokens : tokens[t].family \in killed => Spent(t)

(* "lastOwnerCheck refuses to remove the final owner."                     *)
AnOwnerRemains == owners # {}

(* "A half-finished enrolment must never start requiring a factor they     *)
(* cannot produce": the secret an enrolled operator is asked for is one a  *)
(* code was verified for.                                                  *)
DemandedSecretProved ==
    \A o \in Operators :
        users[o].enrolled => \E i \in DOMAIN enrolments[o] : enrolments[o][i] = users[o].secret

(* TOTPLastStep is kept "so a code cannot be replayed inside its own       *)
(* validity window": one code, one session, whatever was enrolled between. *)
CodeSpentForGood ==
    \A s, t \in Roots :
        /\ tokens[s].who = tokens[t].who
        /\ tokens[s].code.secret = tokens[t].code.secret
        /\ tokens[s].code.step = tokens[t].code.step
        => s = t
=============================================================================
