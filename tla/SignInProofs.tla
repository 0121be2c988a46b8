---------------------------- MODULE SignInProofs ----------------------------
(***************************************************************************)
(* What SignIn guarantees for any number of requests of one person: a      *)
(* token that is accepted is current, a code and a link work once, an      *)
(* enrolled authenticator is asked for, and there is one password.         *)
(***************************************************************************)
EXTENDS SignIn, SequenceTheorems, FiniteSetTheorems, TLAPS

-----------------------------------------------------------------------------
(* The inductive invariant.                                                *)

TokenKinds == {"mfa", "browser_mfa", "password_reset", "email_login", "totp_enroll"}

CredSet == [kind : {"password", "totp"}, state : {"live", "rekeyed", "replaced", "revoked"},
            imported : BOOLEAN, step : 0 .. MaxStep]
TokenSet == [kind : TokenKinds, spent : BOOLEAN, pw : Nat]
SessionSet == [live : BOOLEAN, epoch : {NoEpoch} \cup Nat, cuts : Nat, pw : Nat, totp : Nat,
               step : 0 .. MaxStep, tok : Nat, bare : SUBSET Nat]
ReqSet == [op : Ops \cup {"none"}, pc : PCs, tok : Nat, pw : Nat, totp : Nat, step : 0 .. MaxStep,
           epoch : {NoEpoch} \cup Nat, cuts : Nat, realm : Policies \cup {"unread"},
           held : SUBSET Nat, seen : SUBSET Nat, swept : SUBSET Nat]

Shape ==
    /\ status \in {"active", "disabled"} /\ epoch \in Nat /\ cuts \in Nat
    /\ creds \in Seq(CredSet) /\ sessions \in Seq(SessionSet) /\ onetime \in Seq(TokenSet)
    /\ Len(sessions) >= 1
    /\ realm \in Policies /\ granted \in BOOLEAN /\ admin \in 0 .. MaxAdmin
    /\ pwLock \in Procs \cup {NoProc}
    /\ req \in [Procs -> ReqSet]

(* The code of an authenticator is taken: the request has moved its step.  *)
Claims(r) == r.totp # 0 /\ r.pc # "advance"

(* Which request can be where.                                             *)
Route(r) ==
    /\ r.pc = "identity" => /\ r.op \in Passwords \cup Mails \cup Codes \cup {"change", "link", "reset"}
                            /\ r.op = "mfa" <=> r.totp # 0
    /\ r.pc = "realm" => r.op \in Passwords \cup {"link"}
    /\ r.pc = "consume" => r.op \in Codes \cup {"link", "reset", "confirm_totp"}
    /\ r.pc = "password" => r.op \in Passwords \cup {"change"}
    /\ r.pc = "rehash" => r.op \in Passwords
    /\ r.pc = "factors" => r.op \in Passwords \cup {"link"}
    /\ r.pc = "mint" => r.op \in Passwords \cup Mails \cup {"link", "browser_mfa", "begin_totp"}
    /\ r.pc = "totp" => r.op \in Codes \cup {"confirm_totp"}
    /\ r.pc = "advance" => r.op \in Codes /\ r.totp # 0
    /\ r.pc = "revoke" => r.op \in Rekeys \cup Writes \cup {"confirm_totp"}
    /\ r.pc = "create" => r.op \in Rekeys \cup Writes
    /\ r.pc = "sweep" => r.op \in Cuts
    /\ r.pc = "commit" => r.op \in Cuts \cup Writes \cup {"confirm_totp"}
    /\ r.totp # 0 => r.pc \in {"advance", "identity", "view", "open"}

(* What a policy on TOTP leaves of what is demanded.                       *)
Within(held, policy) ==
    (policy = "forbidden" => held = {}) /\ (policy # "overdue" => Enrolment \notin held)

(* A sign-in has read the realm and is yet to apply its policy.            *)
Chosen(r) == r.pc = "factors" \/ (r.op \in Passwords /\ r.pc \in {"identity", "password", "rehash"})

(* What a request carries is true of the rows it came from.                *)
Sound(r) ==
    /\ r.epoch <= epoch /\ (r.epoch = epoch => r.cuts = cuts)
    /\ r.tok # 0 => r.tok \in 1 .. Len(onetime) /\ onetime[r.tok].spent
    /\ r.pw \in 0 .. Len(creds)
    /\ r.totp # 0 => r.totp \in 1 .. Len(creds)
    /\ Claims(r) => r.step <= creds[r.totp].step
    /\ r.held \subseteq 0 .. Len(creds) /\ r.seen \subseteq 1 .. Len(creds)
    /\ Within(r.held, realm) /\ (Chosen(r) => Within(r.held, r.realm))
    /\ r.pc \in {"view", "open"} /\ r.totp = 0 =>
          /\ Enrolment \notin r.held
          /\ \A c \in r.held : ~(creds[c].kind = "totp" /\ creds[c].state = "live")
    /\ r.op = "confirm_totp" => \A c \in r.seen : creds[c].kind = "totp"

Requesting == \A p \in Procs : Route(req[p]) /\ Sound(req[p])

(* The same of a session.                                                  *)
Opened(x) ==
    /\ x.epoch <= epoch /\ (x.epoch = epoch => x.cuts = cuts)
    /\ x.tok # 0 => x.tok \in 1 .. Len(onetime) /\ onetime[x.tok].spent
    /\ x.totp # 0 => x.totp \in 1 .. Len(creds) /\ x.step <= creds[x.totp].step
    /\ x.bare = {}

Opening ==
    /\ \A s \in 1 .. Len(sessions) : Opened(sessions[s])
    /\ \A t \in 1 .. Len(onetime) : onetime[t].pw \in 0 .. Len(creds)

(* No two requests or sessions come from one one-time token, nor from one  *)
(* code.                                                                   *)
SameToken(x, y) == x.tok = y.tok /\ x.tok # 0
SameCode(x, y) == x.totp = y.totp /\ x.totp # 0 /\ x.step = y.step

Apart ==
    /\ \A s, u \in 1 .. Len(sessions) :
          s # u => ~SameToken(sessions[s], sessions[u]) /\ ~SameCode(sessions[s], sessions[u])
    /\ \A p, q \in Procs : p # q =>
          /\ ~SameToken(req[p], req[q])
          /\ Claims(req[p]) /\ Claims(req[q]) => ~SameCode(req[p], req[q])
    /\ \A p \in Procs : \A s \in 1 .. Len(sessions) :
          /\ ~SameToken(req[p], sessions[s])
          /\ Claims(req[p]) => ~SameCode(req[p], sessions[s])

(* A transaction that has written the password rows has revoked every one  *)
(* that is live, and nobody else writes them.                              *)
IsLive(c, kind) == creds[c].kind = kind /\ creds[c].state = "live"
Holding(r) == r.pc \in {"sweep", "commit"} /\ r.op \in Rekeys \cup Writes

Exclusive ==
    /\ \A p \in Procs : Holding(req[p]) <=> pwLock = p
    /\ \A p \in Procs : pwLock = p =>
          \A c \in 1 .. Len(creds) : IsLive(c, "password") => c \in req[p].seen
    /\ \A c, d \in 1 .. Len(creds) : IsLive(c, "password") /\ IsLive(d, "password") => c = d
    /\ \E c \in 1 .. Len(creds) :
          creds[c].kind = "password" /\ creds[c].state \in {"live", "revoked"}

IInv == Shape /\ Requesting /\ Opening /\ Apart /\ Exclusive

-----------------------------------------------------------------------------
(* Requests.                                                               *)

USE RequestsAssumption, StartsAssumption, BoundsAssumption, NoProcAssumption

(* A request brings in no token and no code that it did not have.          *)
Inherits(r, q) ==
    /\ r.tok # 0 => r.tok = q.tok
    /\ Claims(r) => Claims(q) /\ r.totp = q.totp /\ r.step = q.step

(* It neither takes nor leaves the lock on the password rows.              *)
Abides(r, q) == (Holding(r) <=> Holding(q)) /\ (Holding(r) => r.seen = q.seen)

DoneReq == [Idle EXCEPT !.pc = "done"]

LEMMA IdleFacts ==
    /\ Idle \in ReqSet /\ Idle.op = "none" /\ Idle.pc = "idle" /\ Idle.tok = 0 /\ Idle.pw = 0
    /\ Idle.totp = 0 /\ Idle.step = 0 /\ Idle.epoch = -1 /\ Idle.cuts = 0
    /\ Idle.realm = "unread" /\ Idle.held = {} /\ Idle.seen = {} /\ Idle.swept = {}
  BY DEF Idle, ReqSet, PCs, NoEpoch

LEMMA DoneFacts ==
    /\ DoneReq \in ReqSet /\ DoneReq.op = "none" /\ DoneReq.pc = "done" /\ DoneReq.tok = 0 /\ DoneReq.pw = 0
    /\ DoneReq.totp = 0 /\ DoneReq.step = 0 /\ DoneReq.epoch = -1 /\ DoneReq.cuts = 0
    /\ DoneReq.realm = "unread" /\ DoneReq.held = {} /\ DoneReq.seen = {} /\ DoneReq.swept = {}
  BY DEF DoneReq, Idle, ReqSet, PCs, NoEpoch

LEMMA DoneIsFine ==
    ASSUME Shape
    PROVE  /\ Route(DoneReq) /\ Sound(DoneReq) /\ ~Holding(DoneReq) /\ ~Claims(DoneReq)
           /\ \A q : Inherits(DoneReq, q)
<1>1. Route(DoneReq) /\ ~Holding(DoneReq) /\ ~Claims(DoneReq)
  BY DoneFacts DEF Route, Holding, Claims
<1>2. Sound(DoneReq)
  BY <1>1, DoneFacts DEF Sound, Shape, Chosen, Within
<1> QED
  BY <1>1, <1>2, DoneFacts DEF Inherits

LEMMA GotoFacts ==
    ASSUME NEW q \in ReqSet, NEW l \in PCs
    PROVE  LET r == [q EXCEPT !.pc = l] IN
           /\ r \in ReqSet /\ r.pc = l /\ r.op = q.op /\ r.tok = q.tok /\ r.pw = q.pw
           /\ r.totp = q.totp /\ r.step = q.step /\ r.epoch = q.epoch /\ r.cuts = q.cuts
           /\ r.realm = q.realm /\ r.held = q.held /\ r.seen = q.seen /\ r.swept = q.swept
  BY DEF ReqSet

(* The fields of a request are of their types.                             *)
LEMMA ReqFields ==
    ASSUME Shape, NEW p \in Procs
    PROVE  /\ req[p] \in ReqSet /\ req[p].op \in Ops \cup {"none"} /\ req[p].pc \in PCs
           /\ req[p].tok \in Nat /\ req[p].pw \in Nat /\ req[p].totp \in Nat
           /\ req[p].step \in 0 .. MaxStep /\ req[p].epoch \in {-1} \cup Nat /\ req[p].cuts \in Nat
           /\ req[p].realm \in Policies \cup {"unread"}
           /\ req[p].held \in SUBSET Nat /\ req[p].seen \in SUBSET Nat /\ req[p].swept \in SUBSET Nat
<1>1. req[p] \in ReqSet
  BY DEF Shape
<1> QED
  BY <1>1 DEF ReqSet, NoEpoch

(* Going on to l with everything in hand.                                  *)
LEMMA GotoIsFine ==
    ASSUME Shape, Requesting, NEW p \in Procs, NEW l \in PCs,
           l \in {"view", "open"} /\ req[p].totp = 0 =>
              Enrolment \notin req[p].held /\ \A c \in req[p].held : ~IsLive(c, "totp"),
           Chosen([req[p] EXCEPT !.pc = l]) => Chosen(req[p]),
           Goto(p, l), Route([req[p] EXCEPT !.pc = l]), req[p].pc # "advance",
           Holding(req[p]) <=> (l \in {"sweep", "commit"} /\ req[p].op \in Rekeys \cup Writes)
    PROVE  \E r \in ReqSet : /\ Set(p, r) /\ Route(r) /\ Sound(r)
                             /\ Inherits(r, req[p]) /\ Abides(r, req[p])
<1> DEFINE r == [req[p] EXCEPT !.pc = l]
<1>1. /\ r \in ReqSet /\ r.pc = l /\ r.op = req[p].op /\ r.tok = req[p].tok /\ r.pw = req[p].pw
      /\ r.totp = req[p].totp /\ r.step = req[p].step /\ r.epoch = req[p].epoch /\ r.cuts = req[p].cuts
      /\ r.realm = req[p].realm /\ r.held = req[p].held /\ r.seen = req[p].seen
  BY ReqFields, GotoFacts
<1>2. Set(p, r) /\ Route(r)
  BY DEF Goto
<1> HIDE DEF r
<1>3. Sound(req[p])
  BY DEF Requesting
<1>4. Sound(r)
  <2>1. Chosen(r) => Within(r.held, r.realm)
    BY <1>1, <1>3 DEF Sound, r
  <2> QED
    BY <1>1, <1>3, <2>1 DEF Sound, Claims, IsLive
<1>5. Inherits(r, req[p]) /\ Abides(r, req[p])
  BY <1>1 DEF Inherits, Claims, Abides, Holding
<1> QED
  BY <1>1, <1>2, <1>4, <1>5

LEMMA EndIsFine ==
    ASSUME Shape, NEW p \in Procs, Done(p), ~Holding(req[p])
    PROVE  \E r \in ReqSet : /\ Set(p, r) /\ Route(r) /\ Sound(r)
                             /\ Inherits(r, req[p]) /\ Abides(r, req[p])
<1>1. Set(p, DoneReq) /\ DoneReq \in ReqSet
  BY DoneFacts DEF Done, DoneReq
<1>2. Abides(DoneReq, req[p])
  BY DoneIsFine DEF Abides
<1> QED
  BY <1>1, <1>2, DoneIsFine

LiveRows(kind) == {c \in 1 .. Len(creds) : IsLive(c, kind)}

LEMMA LiveIs ==
    ASSUME Shape, NEW kind
    PROVE  LiveOf(kind) = LiveRows(kind) /\ LiveRows(kind) \subseteq 1 .. Len(creds)
           /\ LiveRows(kind) \subseteq Nat
<1>1. DOMAIN creds = 1 .. Len(creds) /\ Len(creds) \in Nat
  BY DEF Shape
<1> QED
  BY <1>1 DEF LiveOf, LiveRows, IsLive

Fits(p) ==
    \E r \in ReqSet : Set(p, r) /\ Route(r) /\ Sound(r) /\ Inherits(r, req[p]) /\ Abides(r, req[p])

(* What a sign-in is to be asked for, if anything.                         *)
LEMMA HeldIs ==
    ASSUME Shape, NEW o
    PROVE  LET h == IF o \in SignIns THEN Demanded ELSE {} IN
           h \in SUBSET Nat /\ h \subseteq 0 .. Len(creds) /\ Within(h, realm)
<1>1. /\ LiveOf("totp") \subseteq 1 .. Len(creds) /\ LiveOf("totp") \subseteq Nat
      /\ Len(creds) \in Nat /\ realm \in Policies
  BY LiveIs DEF Shape
<1>2. /\ Demanded \subseteq LiveOf("totp") \cup {0} /\ (realm = "forbidden" => Demanded = {})
      /\ realm # "overdue" => Demanded \subseteq LiveOf("totp")
  BY <1>1 DEF Demanded, Policies, Enrolment
<1>3. Demanded \in SUBSET Nat /\ Demanded \subseteq 0 .. Len(creds)
  BY <1>1, <1>2
<1>4. Within(Demanded, realm) /\ Within({}, realm)
  BY <1>1, <1>2 DEF Within, Enrolment
<1> QED
  BY <1>3, <1>4

LEMMA BeginFits ==
    ASSUME Shape, NEW p \in Procs, NEW o \in Requests, Begin(p, o)
    PROVE  Fits(p)
<1> DEFINE h == IF o \in SignIns THEN Demanded ELSE {}
           r == [Idle EXCEPT !.op = o, !.pc = First(o), !.held = h]
<1>1. o \in Ops /\ Set(p, r) /\ req[p].pc = "idle"
  BY DEF Begin, At
<1>2. First(o) \in PCs
  BY <1>1 DEF First, PCs, Ops, SignIns, Passwords, Codes, Mails, Rekeys, Writes, Enrols, Cuts
<1>3. /\ r.op = o /\ r.pc = First(o) /\ r.held = h /\ r.tok = 0 /\ r.pw = 0 /\ r.totp = 0
      /\ r.step = 0 /\ r.epoch = -1 /\ r.cuts = 0 /\ r.seen = {} /\ r.swept = {}
  BY DEF Idle, NoEpoch
<1>4. r \in ReqSet
  <2>1. h \in SUBSET Nat
    BY HeldIs
  <2> QED
    BY <1>1, <1>2, <2>1, IdleFacts DEF ReqSet
<1>0. h \subseteq 0 .. Len(creds) /\ Within(h, realm)
  BY HeldIs
<1> HIDE DEF r, h
<1>5. Route(r) /\ ~Holding(r) /\ ~Claims(r) /\ r.pc \notin {"view", "open"} /\ ~Chosen(r)
  BY <1>1, <1>3 DEF Route, Holding, Claims, Chosen, First, Ops, SignIns, Passwords, Codes, Mails, Rekeys, Writes, Enrols, Cuts
<1>6. Sound(r)
  BY <1>0, <1>3, <1>5 DEF Sound, Shape
<1>7. ~Holding(req[p])
  BY <1>1 DEF Holding
<1> QED
  BY <1>1, <1>3, <1>4, <1>5, <1>6, <1>7 DEF Fits, Inherits, Abides

LEMMA ReadIdentityFits ==
    ASSUME Shape, Requesting, NEW p \in Procs, ReadIdentity(p)
    PROVE  Fits(p)
<1>1. req[p].pc = "identity" /\ ~Holding(req[p]) /\ Route(req[p])
  BY DEF ReadIdentity, At, Holding, Requesting
<1>2. CASE Done(p)
  BY <1>1, <1>2, EndIsFine DEF Fits
<1>3. ASSUME NEW l \in PCs, Goto(p, l), l \in {"password", "mint", "realm", "revoke", "view", "totp"},
             req[p].op \in Passwords \cup {"change"} => l = "password",
             req[p].op \in Mails => l = "mint", req[p].op = "link" => l = "realm",
             req[p].op = "reset" => l = "revoke", req[p].op = "mfa" => l = "view",
             req[p].op = "browser_mfa" => l = "totp"
      PROVE  Fits(p)
  <2>1. /\ [req[p] EXCEPT !.pc = l].pc = l /\ [req[p] EXCEPT !.pc = l].op = req[p].op
        /\ [req[p] EXCEPT !.pc = l].totp = req[p].totp
    BY ReqFields, GotoFacts
  <2>2. Route([req[p] EXCEPT !.pc = l])
    BY <1>1, <1>3, <2>1 DEF Route, Passwords, Codes, Mails, Rekeys, Writes
  <2>3. l \in {"view", "open"} => req[p].totp # 0
    BY <1>1, <1>3 DEF Route, Passwords, Codes, Mails
  <2>4. Chosen([req[p] EXCEPT !.pc = l]) => Chosen(req[p])
    BY <1>1, <1>3, <2>1 DEF Chosen
  <2> QED
    BY <1>1, <1>3, <2>2, <2>3, <2>4, GotoIsFine DEF Fits
<1>4. CASE status = "active"
  <2> DEFINE o == req[p].op
             l == CASE o \in Passwords \cup {"change"} -> "password"
                      [] o \in Mails                     -> "mint"
                      [] o = "link"                      -> "realm"
                      [] o = "reset"                     -> "revoke"
                      [] o = "mfa"                       -> "view"
                      [] o = "browser_mfa"               -> "totp"
  <2>1. Goto(p, l)
    BY <1>4 DEF ReadIdentity
  <2>2. /\ l \in {"password", "mint", "realm", "revoke", "view", "totp"}
        /\ o \in Passwords \cup {"change"} => l = "password"
    BY <1>1 DEF Route, Passwords, Mails, Codes
  <2>3. o \in Mails => l = "mint"
    BY DEF Passwords, Mails
  <2>4. o = "link" => l = "realm"
    BY DEF Passwords, Mails
  <2>5. (o = "reset" => l = "revoke") /\ (o = "mfa" => l = "view") /\ (o = "browser_mfa" => l = "totp")
    BY DEF Passwords, Mails
  <2>6. l \in PCs
    BY <2>2 DEF PCs
  <2> HIDE DEF l, o
  <2> QED
    BY <1>3, <2>1, <2>2, <2>3, <2>4, <2>5, <2>6 DEF o
<1> QED
  BY <1>2, <1>4 DEF ReadIdentity

LEMMA ReadRealmFits ==
    ASSUME Shape, Requesting, NEW p \in Procs, ReadRealm(p)
    PROVE  Fits(p)
<1>1. req[p].pc = "realm" /\ ~Holding(req[p]) /\ Route(req[p]) /\ Sound(req[p]) /\ realm \in Policies
  BY DEF ReadRealm, At, Holding, Requesting, Shape
<1>2. CASE Done(p)
  BY <1>1, <1>2, EndIsFine DEF Fits
<1> DEFINE l == IF req[p].op = "link" THEN "factors" ELSE "identity"
           r == [req[p] EXCEPT !.realm = realm, !.pc = l]
<1>3. CASE Set(p, r)
  <2>1. l \in {"factors", "identity"} /\ (req[p].op = "link" <=> l = "factors")
    OBVIOUS
  <2> HIDE DEF l
  <2>2. /\ r \in ReqSet /\ r.pc = l /\ r.op = req[p].op /\ r.tok = req[p].tok /\ r.pw = req[p].pw
        /\ r.totp = req[p].totp /\ r.step = req[p].step /\ r.epoch = req[p].epoch /\ r.cuts = req[p].cuts
        /\ r.realm = realm /\ r.held = req[p].held /\ r.seen = req[p].seen
    BY <1>1, <2>1, ReqFields, ZenonT(60) DEF ReqSet, PCs
  <2> HIDE DEF r
  <2>3. req[p].totp = 0 /\ req[p].op \in Passwords \cup {"link"}
    BY <1>1 DEF Route
  <2>4. Route(r) /\ ~Holding(r) /\ ~Claims(r)
    BY <2>1, <2>2, <2>3 DEF Route, Holding, Claims, Passwords
  <2>5. Sound(r)
    BY <1>1, <2>1, <2>2, <2>3, <2>4 DEF Sound
  <2> QED
    BY <1>1, <1>3, <2>2, <2>4, <2>5 DEF Fits, Inherits, Abides
<1> QED
  BY <1>2, <1>3 DEF ReadRealm

LEMMA VerifyPasswordFits ==
    ASSUME Shape, Requesting, NEW p \in Procs, NEW c \in DOMAIN creds, VerifyPassword(p, c)
    PROVE  Fits(p)
<1> DEFINE l == IF req[p].op = "change" THEN "revoke"
                ELSE IF creds[c].imported THEN "rehash" ELSE "factors"
           r == [req[p] EXCEPT !.pw = c, !.pc = l]
<1>1. req[p].pc = "password" /\ ~Holding(req[p]) /\ Route(req[p]) /\ Sound(req[p]) /\ Set(p, r)
  BY DEF VerifyPassword, At, Holding, Requesting
<1>2. c \in 1 .. Len(creds) /\ c \in Nat
  BY DEF Shape
<1>3. /\ l \in {"revoke", "rehash", "factors"} /\ (req[p].op = "change" <=> l = "revoke")
  OBVIOUS
<1> HIDE DEF l
<1>4. /\ r \in ReqSet /\ r.pc = l /\ r.op = req[p].op /\ r.tok = req[p].tok /\ r.pw = c
      /\ r.totp = req[p].totp /\ r.step = req[p].step /\ r.epoch = req[p].epoch /\ r.cuts = req[p].cuts
      /\ r.realm = req[p].realm /\ r.held = req[p].held /\ r.seen = req[p].seen
  BY <1>2, <1>3, ReqFields, ZenonT(60) DEF ReqSet, PCs
<1> HIDE DEF r
<1>5. req[p].totp = 0 /\ req[p].op \in Passwords \cup {"change"}
  BY <1>1 DEF Route
<1>6. Route(r) /\ ~Holding(r) /\ ~Claims(r)
  BY <1>3, <1>4, <1>5 DEF Route, Holding, Claims, Passwords, Rekeys, Writes
<1>7. Sound(r)
  <2>1. Chosen(r) => Within(r.held, r.realm)
    BY <1>1, <1>3, <1>4, <1>5 DEF Sound, Chosen, Passwords
  <2> QED
    BY <1>1, <1>2, <1>3, <1>4, <1>5, <1>6, <2>1 DEF Sound
<1> QED
  BY <1>1, <1>4, <1>6, <1>7 DEF Fits, Inherits, Abides

LEMMA FactorsFit ==
    ASSUME Shape, Requesting, NEW p \in Procs, AskForFactor(p) \/ RequireEnrolment(p) \/ AllowFirstFactor(p)
    PROVE  Fits(p)
<1>1. req[p].pc = "factors" /\ ~Holding(req[p]) /\ Route(req[p]) /\ Sound(req[p])
  BY DEF AskForFactor, RequireEnrolment, AllowFirstFactor, At, Holding, Requesting
<1>2. req[p].totp = 0 /\ req[p].op \in Passwords \cup {"link"}
  BY <1>1 DEF Route
<1>3. CASE AskForFactor(p)
  <2>1. "mint" \in PCs /\ Goto(p, "mint")
    BY <1>3 DEF PCs, AskForFactor
  <2>2. Route([req[p] EXCEPT !.pc = "mint"])
    BY <1>2, <2>1, ReqFields, GotoFacts DEF Route
  <2> QED
    BY <1>1, <2>1, <2>2, GotoIsFine DEF Fits, Chosen
<1>4. CASE RequireEnrolment(p)
  BY <1>1, <1>4, EndIsFine DEF Fits, RequireEnrolment
<1>5. CASE AllowFirstFactor(p)
  <2>1. PICK l \in {"view", "open"} : Goto(p, l) /\ (l = "view" => req[p].op = "login")
    BY <1>5 DEF AllowFirstFactor
  <2>2. l \in PCs
    BY DEF PCs
  <2>3. Route([req[p] EXCEPT !.pc = l])
    BY <1>2, <2>1, <2>2, ReqFields, GotoFacts DEF Route
  <2>4. Enrolment \notin req[p].held /\ \A c \in req[p].held : ~IsLive(c, "totp")
    <3>1. Within(req[p].held, req[p].realm) /\ req[p].held \subseteq 0 .. Len(creds)
      BY <1>1 DEF Chosen, Sound
    <3>2. req[p].realm # "overdue" /\ (req[p].realm = "forbidden" \/ LiveRows("totp") = {})
      BY <1>5, LiveIs DEF AllowFirstFactor, NothingEnrolled, AllowedOf, EnrolmentOverdue
    <3>3. Enrolment \notin req[p].held /\ (req[p].held = {} \/ LiveRows("totp") = {})
      BY <3>1, <3>2 DEF Within
    <3>4. \A c \in req[p].held : c \in 1 .. Len(creds)
      BY <3>1, <3>3 DEF Enrolment, Shape
    <3> QED
      BY <3>3, <3>4 DEF LiveRows
  <2> QED
    BY <1>1, <2>1, <2>2, <2>3, <2>4, GotoIsFine DEF Fits, Chosen
<1> QED
  BY <1>3, <1>4, <1>5

LEMMA VerifyTotpFits ==
    ASSUME Shape, Requesting, NEW p \in Procs, NEW c \in {0} \cup DOMAIN creds, NEW k \in 1 .. MaxStep,
           VerifyTotp(p, c, k)
    PROVE  Fits(p)
<1>1. req[p].pc = "totp" /\ ~Holding(req[p]) /\ Route(req[p]) /\ Sound(req[p])
  BY DEF VerifyTotp, At, Holding, Requesting
<1>2. req[p].totp = 0 /\ req[p].op \in Codes \cup {"confirm_totp"} /\ k \in 0 .. MaxStep
  BY <1>1 DEF Route
<1>3. CASE req[p].op = "confirm_totp"
  <2> DEFINE r == [req[p] EXCEPT !.step = k, !.pc = "revoke"]
  <2>1. Set(p, r)
    BY <1>3 DEF VerifyTotp
  <2>2. /\ r \in ReqSet /\ r.pc = "revoke" /\ r.op = req[p].op /\ r.tok = req[p].tok /\ r.pw = req[p].pw
        /\ r.totp = req[p].totp /\ r.step = k /\ r.epoch = req[p].epoch /\ r.cuts = req[p].cuts
        /\ r.realm = req[p].realm /\ r.held = req[p].held /\ r.seen = req[p].seen
    BY <1>2, ReqFields, ZenonT(60) DEF ReqSet, PCs
  <2> HIDE DEF r
  <2>3. Route(r) /\ ~Holding(r) /\ ~Claims(r)
    BY <1>2, <1>3, <2>2 DEF Route, Holding, Claims
  <2>4. Sound(r)
    BY <1>1, <1>2, <2>2, <2>3 DEF Sound, Chosen
  <2> QED
    BY <1>1, <2>1, <2>2, <2>3, <2>4 DEF Fits, Inherits, Abides
<1>4. CASE req[p].op # "confirm_totp"
  <2> DEFINE r == [req[p] EXCEPT !.totp = c, !.step = k, !.pc = "advance"]
  <2>1. Set(p, r) /\ c \in 1 .. Len(creds) /\ c \in Nat /\ c # 0
    BY <1>4, LiveIs DEF VerifyTotp
  <2>2. /\ r \in ReqSet /\ r.pc = "advance" /\ r.op = req[p].op /\ r.tok = req[p].tok /\ r.pw = req[p].pw
        /\ r.totp = c /\ r.step = k /\ r.epoch = req[p].epoch /\ r.cuts = req[p].cuts
        /\ r.realm = req[p].realm /\ r.held = req[p].held /\ r.seen = req[p].seen
    BY <1>2, <2>1, ReqFields, ZenonT(60) DEF ReqSet, PCs
  <2> HIDE DEF r
  <2>3. Route(r) /\ ~Holding(r) /\ ~Claims(r)
    BY <1>2, <1>4, <2>1, <2>2 DEF Route, Holding, Claims
  <2>4. Sound(r)
    BY <1>1, <1>2, <2>1, <2>2, <2>3 DEF Sound, Chosen
  <2> QED
    BY <1>1, <2>1, <2>2, <2>3, <2>4 DEF Fits, Inherits, Abides
<1> QED
  BY <1>3, <1>4

LEMMA RefusedFits ==
    ASSUME Shape, Requesting, NEW p \in Procs, WrongCode(p) \/ CodeReplayed(p)
    PROVE  Fits(p)
<1>1. req[p].pc \in {"totp", "advance"} /\ ~Holding(req[p]) /\ Route(req[p]) /\ Sound(req[p]) /\ Refused(p)
  BY DEF WrongCode, CodeReplayed, At, Holding, Requesting
<1>2. CASE req[p].op = "browser_mfa"
  <2> DEFINE r == [req[p] EXCEPT !.totp = 0, !.step = 0, !.pc = "mint"]
  <2>1. Set(p, r)
    BY <1>1, <1>2 DEF Refused
  <2>2. /\ r \in ReqSet /\ r.pc = "mint" /\ r.op = req[p].op /\ r.tok = req[p].tok /\ r.pw = req[p].pw
        /\ r.totp = 0 /\ r.epoch = req[p].epoch /\ r.cuts = req[p].cuts
        /\ r.realm = req[p].realm /\ r.held = req[p].held /\ r.seen = req[p].seen
    <3>1. 0 \in 0 .. MaxStep /\ "mint" \in PCs
      BY DEF PCs
    <3> QED
      BY <3>1, ReqFields DEF ReqSet
  <2> HIDE DEF r
  <2>3. Route(r) /\ ~Holding(r) /\ ~Claims(r)
    BY <1>2, <2>2 DEF Route, Holding, Claims
  <2>4. Sound(r)
    BY <1>1, <2>2, <2>3 DEF Sound, Chosen
  <2> QED
    BY <1>1, <2>1, <2>2, <2>3, <2>4 DEF Fits, Inherits, Abides
<1>3. CASE req[p].op # "browser_mfa"
  BY <1>1, <1>3, EndIsFine DEF Refused, Fits
<1> QED
  BY <1>2, <1>3

LEMMA SessionViewFits ==
    ASSUME Shape, Requesting, NEW p \in Procs, SessionView(p)
    PROVE  Fits(p)
<1>1. req[p].pc = "view" /\ ~Holding(req[p]) /\ Route(req[p]) /\ Sound(req[p])
  BY DEF SessionView, At, Holding, Requesting
<1>2. CASE status = "active"
  <2> DEFINE r == [req[p] EXCEPT !.epoch = epoch, !.cuts = cuts, !.pc = "open"]
  <2>1. Set(p, r) /\ epoch \in Nat /\ cuts \in Nat
    BY <1>2 DEF SessionView, Shape
  <2>2. /\ r \in ReqSet /\ r.pc = "open" /\ r.op = req[p].op /\ r.tok = req[p].tok /\ r.pw = req[p].pw
        /\ r.totp = req[p].totp /\ r.step = req[p].step /\ r.epoch = epoch /\ r.cuts = cuts
        /\ r.realm = req[p].realm /\ r.held = req[p].held /\ r.seen = req[p].seen
    BY <2>1, ReqFields, ZenonT(60) DEF ReqSet, PCs
  <2> HIDE DEF r
  <2>3. Route(r) /\ ~Holding(r)
    BY <1>1, <2>2 DEF Route, Holding
  <2>4. Sound(r) /\ Inherits(r, req[p])
    BY <1>1, <2>1, <2>2 DEF Sound, Chosen, Claims, Inherits
  <2> QED
    BY <1>1, <2>1, <2>2, <2>3, <2>4 DEF Fits, Abides
<1>3. CASE status # "active"
  BY <1>1, <1>3, EndIsFine DEF SessionView, Fits
<1> QED
  BY <1>2, <1>3

LEMMA RevokeFits ==
    ASSUME Shape, Requesting, NEW p \in Procs, RevokeCredentialsOfKind(p)
    PROVE  Fits(p)
<1> DEFINE kind == IF req[p].op = "confirm_totp" THEN "totp" ELSE "password"
           l == IF kind = "totp" THEN "commit" ELSE "create"
           r == [req[p] EXCEPT !.seen = LiveOf(kind), !.pc = l]
<1>1. req[p].pc = "revoke" /\ ~Holding(req[p]) /\ Route(req[p]) /\ Sound(req[p]) /\ Set(p, r)
  BY DEF RevokeCredentialsOfKind, At, Holding, Requesting
<1>2. LiveOf(kind) \in SUBSET Nat /\ LiveOf(kind) \subseteq 1 .. Len(creds)
  BY LiveIs
<1>3. kind = "totp" => \A c \in LiveOf(kind) : creds[c].kind = "totp"
  BY DEF LiveOf
<1>4. /\ l \in {"commit", "create"} /\ (l = "commit" <=> req[p].op = "confirm_totp")
      /\ req[p].op = "confirm_totp" => kind = "totp"
  OBVIOUS
<1> HIDE DEF kind, l
<1>5. /\ r \in ReqSet /\ r.pc = l /\ r.op = req[p].op /\ r.tok = req[p].tok /\ r.pw = req[p].pw
      /\ r.totp = req[p].totp /\ r.step = req[p].step /\ r.epoch = req[p].epoch /\ r.cuts = req[p].cuts
      /\ r.realm = req[p].realm /\ r.held = req[p].held /\ r.seen = LiveOf(kind)
  BY <1>2, <1>4, ReqFields, ZenonT(60) DEF ReqSet, PCs
<1> HIDE DEF r
<1>6. req[p].totp = 0 /\ req[p].op \in Rekeys \cup Writes \cup {"confirm_totp"}
  BY <1>1 DEF Route
<1>7. Route(r) /\ ~Holding(r) /\ ~Claims(r)
  BY <1>4, <1>5, <1>6 DEF Route, Holding, Claims, Rekeys, Writes
<1>8. Sound(r)
  BY <1>1, <1>2, <1>3, <1>4, <1>5, <1>6, <1>7 DEF Sound, Chosen
<1> QED
  BY <1>1, <1>5, <1>7, <1>8 DEF Fits, Inherits, Abides

LEMMA SweepFits ==
    ASSUME Shape, Requesting, NEW p \in Procs, RevokeAllSessions(p)
    PROVE  Fits(p)
<1> DEFINE S == {s \in DOMAIN sessions : sessions[s].live}
           r == [req[p] EXCEPT !.swept = S, !.pc = "commit"]
<1>1. req[p].pc = "sweep" /\ Route(req[p]) /\ Sound(req[p]) /\ Set(p, r)
  BY DEF RevokeAllSessions, At, Requesting
<1>2. S \in SUBSET Nat
  BY DEF Shape
<1> HIDE DEF S
<1>3. /\ r \in ReqSet /\ r.pc = "commit" /\ r.op = req[p].op /\ r.tok = req[p].tok /\ r.pw = req[p].pw
      /\ r.totp = req[p].totp /\ r.step = req[p].step /\ r.epoch = req[p].epoch /\ r.cuts = req[p].cuts
      /\ r.realm = req[p].realm /\ r.held = req[p].held /\ r.seen = req[p].seen
  BY <1>2, ReqFields, ZenonT(60) DEF ReqSet, PCs
<1> HIDE DEF r
<1>4. req[p].totp = 0 /\ req[p].op \in Cuts
  BY <1>1 DEF Route
<1>5. Route(r) /\ ~Claims(r) /\ (Holding(r) <=> Holding(req[p]))
  BY <1>1, <1>3, <1>4 DEF Route, Holding, Claims
<1>6. Sound(r)
  BY <1>1, <1>3, <1>4, <1>5 DEF Sound, Chosen
<1> QED
  BY <1>1, <1>3, <1>5, <1>6 DEF Fits, Inherits, Abides

(* The steps that only move a request along.                               *)
Quiet(p) ==
    \/ \E o \in Requests : Begin(p, o)
    \/ ConsumeNothing(p) \/ ReadRealm(p) \/ ReadIdentity(p) \/ WrongPassword(p)
    \/ \E c \in DOMAIN creds : VerifyPassword(p, c)
    \/ AskForFactor(p) \/ RequireEnrolment(p) \/ AllowFirstFactor(p) \/ WrongCode(p)
    \/ \E c \in {0} \cup DOMAIN creds : \E k \in 1 .. MaxStep : VerifyTotp(p, c, k)
    \/ CodeReplayed(p) \/ SessionView(p) \/ RevokeCredentialsOfKind(p) \/ RevokeAllSessions(p)

LEMMA QuietFits ==
    ASSUME Shape, Requesting, NEW p \in Procs, Quiet(p)
    PROVE  Fits(p)
<1>1. CASE ConsumeNothing(p) \/ WrongPassword(p)
  <2>1. Done(p) /\ ~Holding(req[p])
    BY <1>1 DEF ConsumeNothing, WrongPassword, At, Holding
  <2> QED
    BY <2>1, EndIsFine DEF Fits
<1>2. ASSUME NEW o \in Requests, Begin(p, o) PROVE Fits(p)
  BY <1>2, BeginFits
<1>3. ASSUME NEW c \in DOMAIN creds, VerifyPassword(p, c) PROVE Fits(p)
  BY <1>3, VerifyPasswordFits
<1>4. ASSUME NEW c \in {0} \cup DOMAIN creds, NEW k \in 1 .. MaxStep, VerifyTotp(p, c, k) PROVE Fits(p)
  BY <1>4, VerifyTotpFits
<1> QED
  BY <1>1, <1>2, <1>3, <1>4, ReadRealmFits, ReadIdentityFits, FactorsFit, RefusedFits, SessionViewFits, RevokeFits,
     SweepFits, Zenon DEF Quiet

LEMMA QuietFrame ==
    ASSUME NEW p \in Procs, Quiet(p)
    PROVE  /\ UNCHANGED <<identity, creds, sessions, onetime, env, pwLock>>
           /\ granted' = granted \/ granted' = TRUE
  BY DEF Quiet, Begin, ConsumeNothing, ReadRealm, ReadIdentity, WrongPassword, VerifyPassword, AskForFactor,
         RequireEnrolment, AllowFirstFactor, WrongCode, VerifyTotp, CodeReplayed, SessionView,
         RevokeCredentialsOfKind, RevokeAllSessions

-----------------------------------------------------------------------------
(* What no step takes back.                                                *)

Lasts(a, b) ==
    /\ b.kind = a.kind /\ a.step <= b.step
    /\ b.state = "live" => a.state = "live"
    /\ a.state = "revoked" => b.state = "revoked"

Grows ==
    /\ realm' = realm
    /\ Len(onetime) <= Len(onetime')
    /\ \A t \in 1 .. Len(onetime) : onetime[t].spent => onetime'[t].spent
    /\ Len(creds) <= Len(creds')
    /\ \A c \in 1 .. Len(creds) : Lasts(creds[c], creds'[c])
    /\ (epoch' = epoch /\ cuts' = cuts) \/ epoch' = epoch + 1

LEMMA LensAre == Shape => /\ Len(creds) \in Nat /\ Len(onetime) \in Nat /\ Len(sessions) \in Nat
                          /\ DOMAIN creds = 1 .. Len(creds) /\ DOMAIN onetime = 1 .. Len(onetime)
                          /\ DOMAIN sessions = 1 .. Len(sessions)
                          /\ \A c \in 1 .. Len(creds) : creds[c] \in CredSet
                          /\ \A t \in 1 .. Len(onetime) : onetime[t] \in TokenSet
                          /\ \A s \in 1 .. Len(sessions) : sessions[s] \in SessionSet
  BY DEF Shape

LEMMA LensAreThen == Shape' => /\ Len(creds') \in Nat /\ Len(onetime') \in Nat /\ Len(sessions') \in Nat
                               /\ \A c \in 1 .. Len(creds') : creds'[c] \in CredSet
                               /\ \A t \in 1 .. Len(onetime') : onetime'[t] \in TokenSet
                               /\ \A s \in 1 .. Len(sessions') : sessions'[s] \in SessionSet
  BY DEF Shape

LEMMA CredSteps ==
    ASSUME Shape
    PROVE  \A c \in 1 .. Len(creds) : creds[c].step \in Nat
<1>1. \A c \in 1 .. Len(creds) : creds[c] \in CredSet
  BY LensAre
<1> QED
  BY <1>1 DEF CredSet

LEMMA CredStepsThen ==
    ASSUME Shape'
    PROVE  \A c \in 1 .. Len(creds') : creds'[c].step \in Nat
<1>1. \A c \in 1 .. Len(creds') : creds'[c] \in CredSet
  BY LensAreThen
<1> QED
  BY <1>1 DEF CredSet

LEMMA SoundStays ==
    ASSUME Shape, Shape', Grows, NEW r \in ReqSet, Sound(r)
    PROVE  Sound(r)'
<1>1. /\ r.tok \in Nat /\ r.pw \in Nat /\ r.totp \in Nat /\ r.step \in Nat /\ r.epoch \in {-1} \cup Nat
      /\ epoch \in Nat /\ epoch' \in Nat
  BY DEF ReqSet, NoEpoch, Shape
<1>2. /\ Len(creds) \in Nat /\ Len(creds') \in Nat /\ Len(onetime) \in Nat /\ Len(onetime') \in Nat
      /\ Len(creds) <= Len(creds') /\ Len(onetime) <= Len(onetime')
  BY LensAre, LensAreThen DEF Grows
<1>3. r.epoch <= epoch' /\ (r.epoch = epoch' => r.cuts = cuts')
  BY <1>1 DEF Sound, Grows
<1>4. r.tok # 0 => r.tok \in 1 .. Len(onetime') /\ onetime'[r.tok].spent
  BY <1>1, <1>2 DEF Sound, Grows
<1>5. /\ r.pw \in 0 .. Len(creds') /\ (r.totp # 0 => r.totp \in 1 .. Len(creds'))
      /\ r.held \subseteq 0 .. Len(creds') /\ r.seen \subseteq 1 .. Len(creds')
  BY <1>1, <1>2 DEF Sound
<1>6. Claims(r) => r.step <= creds'[r.totp].step
  <2> SUFFICES ASSUME Claims(r) PROVE r.step <= creds'[r.totp].step
    OBVIOUS
  <2>1. r.totp \in 1 .. Len(creds) /\ r.totp \in 1 .. Len(creds') /\ r.step <= creds[r.totp].step
    BY <1>5 DEF Sound, Claims
  <2>2. creds[r.totp].step \in Nat /\ creds'[r.totp].step \in Nat /\ creds[r.totp].step <= creds'[r.totp].step
    BY <2>1, CredSteps, CredStepsThen DEF Grows, Lasts
  <2> QED
    BY <1>1, <2>1, <2>2
<1>7. r.pc \in {"view", "open"} /\ r.totp = 0 =>
          /\ Enrolment \notin r.held
          /\ \A c \in r.held : ~(creds'[c].kind = "totp" /\ creds'[c].state = "live")
  <2> SUFFICES ASSUME r.pc \in {"view", "open"}, r.totp = 0
               PROVE  /\ Enrolment \notin r.held
                      /\ \A c \in r.held : ~(creds'[c].kind = "totp" /\ creds'[c].state = "live")
    OBVIOUS
  <2>1. Enrolment \notin r.held /\ \A c \in r.held : c \in 1 .. Len(creds)
    BY <1>2 DEF Sound, Enrolment
  <2> QED
    BY <2>1 DEF Sound, Grows, Lasts
<1>8. r.op = "confirm_totp" => \A c \in r.seen : creds'[c].kind = "totp"
  BY DEF Sound, Grows, Lasts
<1>9. Within(r.held, realm') /\ (Chosen(r) => Within(r.held, r.realm))
  BY DEF Sound, Grows
<1> QED
  BY <1>3, <1>4, <1>5, <1>6, <1>7, <1>8, <1>9 DEF Sound, Claims, Chosen, Within

LEMMA OpenedStays ==
    ASSUME Shape, Shape', Grows, NEW x \in SessionSet, Opened(x)
    PROVE  Opened(x)'
<1>1. /\ x.tok \in Nat /\ x.totp \in Nat /\ x.step \in Nat /\ x.epoch \in {-1} \cup Nat
      /\ epoch \in Nat /\ epoch' \in Nat
  BY DEF SessionSet, NoEpoch, Shape
<1>2. /\ Len(creds) \in Nat /\ Len(creds') \in Nat /\ Len(onetime) \in Nat /\ Len(onetime') \in Nat
      /\ Len(creds) <= Len(creds') /\ Len(onetime) <= Len(onetime')
  BY LensAre, LensAreThen DEF Grows
<1>3. x.epoch <= epoch' /\ (x.epoch = epoch' => x.cuts = cuts')
  BY <1>1 DEF Opened, Grows
<1>4. x.tok # 0 => x.tok \in 1 .. Len(onetime') /\ onetime'[x.tok].spent
  BY <1>1, <1>2 DEF Opened, Grows
<1>5. x.totp # 0 => x.totp \in 1 .. Len(creds') /\ x.step <= creds'[x.totp].step
  <2> SUFFICES ASSUME x.totp # 0 PROVE x.totp \in 1 .. Len(creds') /\ x.step <= creds'[x.totp].step
    OBVIOUS
  <2>1. x.totp \in 1 .. Len(creds) /\ x.totp \in 1 .. Len(creds') /\ x.step <= creds[x.totp].step
    BY <1>1, <1>2 DEF Opened
  <2>2. creds[x.totp].step \in Nat /\ creds'[x.totp].step \in Nat /\ creds[x.totp].step <= creds'[x.totp].step
    BY <2>1, CredSteps, CredStepsThen DEF Grows, Lasts
  <2> QED
    BY <1>1, <2>1, <2>2
<1> QED
  BY <1>3, <1>4, <1>5 DEF Opened

(* Sessions keep where they come from.                                     *)
SameOrigin(x, y) == y.tok = x.tok /\ y.totp = x.totp /\ y.step = x.step

LEMMA ApartStays ==
    ASSUME Shape, Apart, \A p \in Procs : Inherits(req'[p], req[p]),
           Len(sessions') = Len(sessions),
           \A s \in 1 .. Len(sessions) : SameOrigin(sessions[s], sessions'[s])
    PROVE  Apart'
<1>1. ASSUME NEW s \in 1 .. Len(sessions), NEW u \in 1 .. Len(sessions), s # u
      PROVE  ~SameToken(sessions'[s], sessions'[u]) /\ ~SameCode(sessions'[s], sessions'[u])
  BY <1>1 DEF Apart, SameToken, SameCode, SameOrigin
<1>2. ASSUME NEW p \in Procs, NEW q \in Procs, p # q
      PROVE  /\ ~SameToken(req'[p], req'[q])
             /\ Claims(req'[p]) /\ Claims(req'[q]) => ~SameCode(req'[p], req'[q])
  BY <1>2 DEF Apart, SameToken, SameCode, Inherits
<1>3. ASSUME NEW p \in Procs, NEW s \in 1 .. Len(sessions)
      PROVE  /\ ~SameToken(req'[p], sessions'[s])
             /\ Claims(req'[p]) => ~SameCode(req'[p], sessions'[s])
  BY DEF Apart, SameToken, SameCode, Inherits, SameOrigin
<1> QED
  BY <1>1, <1>2, <1>3 DEF Apart, SameToken, SameCode, Claims

(* The password rows are no more live than they were.                      *)
LEMMA ExclusiveStays ==
    ASSUME Shape, Shape', Exclusive, Grows,
           \A c \in 1 .. Len(creds') :
              creds'[c].kind = "password" /\ creds'[c].state = "live" => c \in 1 .. Len(creds),
           \A c \in 1 .. Len(creds) :
              creds[c].kind = "password" /\ creds[c].state = "live" => creds'[c].state \in {"live", "revoked"},
           \A q \in Procs : Holding(req'[q]) <=> pwLock' = q,
           \A q \in Procs : pwLock' = q => pwLock = q /\ req'[q].seen = req[q].seen
    PROVE  Exclusive'
<1>1. \A c \in 1 .. Len(creds') : creds'[c].kind = "password" /\ creds'[c].state = "live" =>
         c \in 1 .. Len(creds) /\ IsLive(c, "password")
  BY DEF Grows, Lasts, IsLive
<1>2. ASSUME NEW q \in Procs, pwLock' = q, NEW c \in 1 .. Len(creds'),
             creds'[c].kind = "password", creds'[c].state = "live"
      PROVE  c \in req'[q].seen
  BY <1>1, <1>2 DEF Exclusive
<1>3. \A c, d \in 1 .. Len(creds') :
         (/\ creds'[c].kind = "password" /\ creds'[c].state = "live"
          /\ creds'[d].kind = "password" /\ creds'[d].state = "live") => c = d
  <2> SUFFICES ASSUME NEW c \in 1 .. Len(creds'), NEW d \in 1 .. Len(creds'),
                      creds'[c].kind = "password", creds'[c].state = "live",
                      creds'[d].kind = "password", creds'[d].state = "live"
               PROVE  c = d
    OBVIOUS
  <2>1. /\ c \in 1 .. Len(creds) /\ IsLive(c, "password")
        /\ d \in 1 .. Len(creds) /\ IsLive(d, "password")
    BY <1>1
  <2> QED
    BY <2>1 DEF Exclusive
<1>4. \E c \in 1 .. Len(creds') : creds'[c].kind = "password" /\ creds'[c].state \in {"live", "revoked"}
  <2>1. PICK c \in 1 .. Len(creds) : creds[c].kind = "password" /\ creds[c].state \in {"live", "revoked"}
    BY DEF Exclusive
  <2>2. c \in 1 .. Len(creds')
    BY LensAre, LensAreThen DEF Grows
  <2> QED
    BY <2>1, <2>2 DEF Grows, Lasts
<1> QED
  BY <1>2, <1>3, <1>4 DEF Exclusive, IsLive, Holding

-----------------------------------------------------------------------------
(* Putting a step together.                                                *)

LEMMA RequestingStays ==
    ASSUME Shape, Shape', Requesting, Grows, NEW p \in Procs, NEW r \in ReqSet,
           Set(p, r), Route(r), Sound(r)'
    PROVE  Requesting'
<1> SUFFICES ASSUME NEW q \in Procs PROVE (Route(req[q]) /\ Sound(req[q]))'
  BY DEF Requesting
<1>1. CASE q = p
  <2>1. req'[q] = r
    BY <1>1 DEF Set, Shape
  <2> QED
    BY <2>1 DEF Route, Sound, Claims, Chosen, Within
<1>2. CASE q # p
  <2>1. PICK x \in ReqSet : x = req[q]
    BY ReqFields
  <2>2. req'[q] = x
    BY <1>2, <2>1 DEF Set, Shape
  <2>3. Route(x) /\ Sound(x)
    BY <2>1 DEF Requesting
  <2>4. Sound(x)'
    BY <2>3, SoundStays
  <2> QED
    BY <2>2, <2>3, <2>4 DEF Route, Sound, Claims, Chosen, Within
<1> QED
  BY <1>1, <1>2

LEMMA RequestingSame ==
    ASSUME Shape, Shape', Requesting, Grows, req' = req
    PROVE  Requesting'
<1> SUFFICES ASSUME NEW q \in Procs PROVE (Route(req[q]) /\ Sound(req[q]))'
  BY DEF Requesting
<1>1. PICK x \in ReqSet : x = req[q]
  BY ReqFields
<1>2. req'[q] = x
  BY <1>1
<1>3. Route(x) /\ Sound(x)
  BY <1>1 DEF Requesting
<1>4. Sound(x)'
  BY <1>3, SoundStays
<1> QED
  BY <1>2, <1>3, <1>4 DEF Route, Sound, Claims, Chosen, Within

(* A session goes on from x to y, perhaps with a new access token.         *)
Continues(x, y, e, n) ==
    /\ SameOrigin(x, y) /\ y.bare = x.bare
    /\ \/ y.epoch = x.epoch /\ y.cuts = x.cuts
       \/ y.epoch = e /\ y.cuts = n

SessionsContinue ==
    /\ Len(sessions') = Len(sessions)
    /\ \A s \in 1 .. Len(sessions) : Continues(sessions[s], sessions'[s], epoch', cuts')

TokensKeepTo == \A t \in 1 .. Len(onetime') : onetime'[t].pw \in 0 .. Len(creds')

LEMMA OpeningStays ==
    ASSUME Shape, Shape', Opening, Grows, SessionsContinue, TokensKeepTo
    PROVE  Opening'
<1>1. ASSUME NEW s \in 1 .. Len(sessions')
      PROVE  (Opened(sessions[s]))'
  <2>1. s \in 1 .. Len(sessions) /\ s \in Nat
    BY LensAre DEF SessionsContinue
  <2>2. PICK x \in SessionSet : x = sessions[s]
    BY <2>1, LensAre
  <2>3. PICK y \in SessionSet : y = sessions'[s]
    BY <1>1, LensAreThen
  <2>4. Opened(x)
    BY <2>1, <2>2 DEF Opening
  <2>5. Continues(x, y, epoch', cuts')
    BY <2>1, <2>2, <2>3 DEF SessionsContinue
  <2>6. Opened(x)'
    BY <2>4, OpenedStays
  <2>7. epoch' \in Nat
    BY DEF Shape
  <2>8. y.epoch <= epoch' /\ (y.epoch = epoch' => y.cuts = cuts')
    BY <2>5, <2>6, <2>7 DEF Opened, Continues
  <2>9. /\ y.tok # 0 => y.tok \in 1 .. Len(onetime') /\ onetime'[y.tok].spent
        /\ y.totp # 0 => y.totp \in 1 .. Len(creds') /\ y.step <= creds'[y.totp].step
        /\ y.bare = {}
    BY <2>5, <2>6 DEF Opened, Continues, SameOrigin
  <2> QED
    BY <2>3, <2>8, <2>9 DEF Opened
<1> QED
  BY <1>1 DEF Opening, TokensKeepTo

LEMMA SessionsSame ==
    ASSUME sessions' = sessions
    PROVE  SessionsContinue
  BY DEF SessionsContinue, Continues, SameOrigin

LEMMA InheritsAll ==
    ASSUME Shape, NEW p \in Procs, NEW r, Set(p, r), Inherits(r, req[p])
    PROVE  \A q \in Procs : Inherits(req'[q], req[q])
<1> SUFFICES ASSUME NEW q \in Procs PROVE Inherits(req'[q], req[q])
  OBVIOUS
<1>1. CASE q = p
  <2>1. req'[q] = r
    BY <1>1 DEF Set, Shape
  <2> QED
    BY <1>1, <2>1
<1>2. CASE q # p
  <2>1. req'[q] = req[q]
    BY <1>2 DEF Set, Shape
  <2> QED
    BY <2>1 DEF Inherits
<1> QED
  BY <1>1, <1>2

(* A step of p that brings in no token and no code.                        *)
LEMMA StepKeeps ==
    ASSUME IInv, Shape', Grows, SessionsContinue, TokensKeepTo, Exclusive',
           NEW p \in Procs, NEW r \in ReqSet,
           Set(p, r), Route(r), Sound(r)', Inherits(r, req[p])
    PROVE  IInv'
<1>1. Requesting'
  BY RequestingStays DEF IInv
<1>2. Opening'
  BY OpeningStays DEF IInv
<1>3. \A q \in Procs : Inherits(req'[q], req[q])
  BY InheritsAll DEF IInv
<1>4. Apart'
  BY <1>3, ApartStays DEF IInv, SessionsContinue, Continues
<1> QED
  BY <1>1, <1>2, <1>4 DEF IInv

(* A step of the administrator or of a client that holds a session.        *)
LEMMA OthersKeep ==
    ASSUME IInv, Shape', Grows, SessionsContinue, TokensKeepTo, Exclusive', req' = req
    PROVE  IInv'
<1>1. Requesting'
  BY RequestingSame DEF IInv
<1>2. Opening'
  BY OpeningStays DEF IInv
<1>3. \A q \in Procs : Inherits(req'[q], req[q])
  BY DEF Inherits
<1>4. Apart'
  BY <1>3, ApartStays DEF IInv, SessionsContinue, Continues
<1> QED
  BY <1>1, <1>2, <1>4 DEF IInv

LEMMA GrowsStill ==
    ASSUME Shape, realm' = realm, onetime' = onetime, creds' = creds, epoch' = epoch, cuts' = cuts
    PROVE  Grows
<1>1. \A c \in 1 .. Len(creds) : creds[c].step \in Nat
  BY CredSteps
<1>2. Len(creds) \in Nat /\ Len(onetime) \in Nat
  BY LensAre
<1> QED
  BY <1>1, <1>2 DEF Grows, Lasts

LEMMA TokensSame ==
    ASSUME Shape, Opening, onetime' = onetime, Len(creds) <= Len(creds'), Len(creds') \in Nat
    PROVE  TokensKeepTo
<1>1. Len(creds) \in Nat
  BY LensAre
<1> QED
  BY <1>1 DEF TokensKeepTo, Opening

(* The lock on the password rows stays where it is.                        *)
LEMMA LockStays ==
    ASSUME Shape, Exclusive, NEW p \in Procs, NEW r, Set(p, r), Abides(r, req[p]), pwLock' = pwLock
    PROVE  /\ \A q \in Procs : Holding(req'[q]) <=> pwLock' = q
           /\ \A q \in Procs : pwLock' = q => pwLock = q /\ req'[q].seen = req[q].seen
<1> SUFFICES ASSUME NEW q \in Procs
             PROVE  /\ Holding(req'[q]) <=> pwLock' = q
                    /\ pwLock' = q => pwLock = q /\ req'[q].seen = req[q].seen
  OBVIOUS
<1>0. Holding(req[q]) <=> pwLock = q
  BY DEF Exclusive
<1>1. CASE q = p
  <2>1. req'[q] = r
    BY <1>1 DEF Set, Shape
  <2> QED
    BY <1>0, <1>1, <2>1 DEF Abides
<1>2. CASE q # p
  <2>1. req'[q] = req[q]
    BY <1>2 DEF Set, Shape
  <2> QED
    BY <1>0, <2>1
<1> QED
  BY <1>1, <1>2

LEMMA QuietKeeps ==
    ASSUME IInv, NEW p \in Procs, Quiet(p)
    PROVE  IInv'
<1>0. Shape /\ Requesting /\ Opening /\ Apart /\ Exclusive
  BY DEF IInv
<1>1. Fits(p)
  BY <1>0, QuietFits
<1>2. PICK r \in ReqSet : Set(p, r) /\ Route(r) /\ Sound(r) /\ Inherits(r, req[p]) /\ Abides(r, req[p])
  BY <1>1 DEF Fits
<1>3. /\ status' = status /\ epoch' = epoch /\ cuts' = cuts /\ creds' = creds /\ sessions' = sessions
      /\ onetime' = onetime /\ realm' = realm /\ admin' = admin /\ pwLock' = pwLock
      /\ granted' = granted \/ granted' = TRUE
  BY QuietFrame DEF identity, env
<1>4. Shape'
  BY <1>0, <1>2, <1>3 DEF Shape, Set
<1>5. Grows
  BY <1>0, <1>3, GrowsStill
<1>6. Sound(r)'
  BY <1>0, <1>2, <1>4, <1>5, SoundStays
<1>7. TokensKeepTo
  <2>1. Len(creds) <= Len(creds') /\ Len(creds') \in Nat
    BY <1>0, <1>3, LensAre
  <2> QED
    BY <1>0, <1>3, <2>1, TokensSame
<1>8. Exclusive'
  <2>1. /\ \A q \in Procs : Holding(req'[q]) <=> pwLock' = q
        /\ \A q \in Procs : pwLock' = q => pwLock = q /\ req'[q].seen = req[q].seen
    BY <1>0, <1>2, <1>3, LockStays
  <2> QED
    BY <1>0, <1>3, <1>4, <1>5, <2>1, ExclusiveStays
<1> QED
  BY <1>2, <1>3, <1>4, <1>5, <1>6, <1>7, <1>8, StepKeeps, SessionsSame

-----------------------------------------------------------------------------
(* The steps that write.                                                   *)

LEMMA DbErrorKeeps ==
    ASSUME IInv, NEW p \in Procs, DbError(p)
    PROVE  IInv'
<1>0. Shape /\ Requesting /\ Opening /\ Apart /\ Exclusive
  BY DEF IInv
<1>2. DoneReq \in ReqSet /\ Set(p, DoneReq)
  BY DoneFacts DEF DbError, Done, DoneReq
<1>3. /\ status' = status /\ epoch' = epoch /\ cuts' = cuts /\ creds' = creds /\ sessions' = sessions
      /\ onetime' = onetime /\ realm' = realm /\ admin' = admin /\ granted' = granted
      /\ pwLock' = IF pwLock = p THEN NoProc ELSE pwLock
  BY DEF DbError, Release, identity, env
<1>4. Shape'
  BY <1>0, <1>2, <1>3 DEF Shape, Set
<1>5. Grows
  BY <1>0, <1>3, GrowsStill
<1>6. PICK r \in ReqSet : r = DoneReq
  BY <1>2
<1>7. Route(r) /\ Sound(r) /\ Inherits(r, req[p]) /\ ~Holding(r) /\ Set(p, r)
  BY <1>0, <1>2, <1>6, DoneIsFine
<1>8. Sound(r)'
  BY <1>0, <1>4, <1>5, <1>7, SoundStays
<1>9. TokensKeepTo
  <2>1. Len(creds) <= Len(creds') /\ Len(creds') \in Nat
    BY <1>0, <1>3, LensAre
  <2> QED
    BY <1>0, <1>3, <2>1, TokensSame
<1>10. ASSUME NEW q \in Procs
       PROVE  /\ Holding(req'[q]) <=> pwLock' = q
              /\ pwLock' = q => pwLock = q /\ req'[q].seen = req[q].seen
  <2>1. Holding(req[q]) <=> pwLock = q
    BY <1>0 DEF Exclusive
  <2>2. q # NoProc
    OBVIOUS
  <2>3. CASE q = p
    <3>1. req'[q] = r
      BY <1>0, <1>7, <2>3 DEF Set, Shape
    <3> QED
      BY <1>3, <1>7, <2>2, <2>3, <3>1
  <2>4. CASE q # p
    <3>1. req'[q] = req[q]
      BY <1>0, <1>7, <2>4 DEF Set, Shape
    <3> QED
      BY <1>3, <2>1, <2>2, <2>4, <3>1
  <2> QED
    BY <2>3, <2>4
<1>11. Exclusive'
  BY <1>0, <1>3, <1>4, <1>5, <1>10, ExclusiveStays
<1> QED
  BY <1>3, <1>4, <1>5, <1>7, <1>8, <1>9, <1>11, StepKeeps, SessionsSame

(* A row more at the end.                                                  *)
LEMMA AppendFacts ==
    ASSUME NEW S, NEW s \in Seq(S), NEW x \in S
    PROVE  /\ Append(s, x) \in Seq(S) /\ Len(s) \in Nat /\ Len(Append(s, x)) = Len(s) + 1
           /\ \A i \in 1 .. Len(s) : Append(s, x)[i] = s[i]
           /\ Append(s, x)[Len(s) + 1] = x
  OBVIOUS

LEMMA CreateOneTimeKeeps ==
    ASSUME IInv, NEW p \in Procs, CreateOneTime(p)
    PROVE  IInv'
<1>0. Shape /\ Requesting /\ Opening /\ Apart /\ Exclusive
  BY DEF IInv
<1> DEFINE x == Token(Kind(req[p].op), req[p].pw)
<1>1. req[p].pc = "mint" /\ Route(req[p]) /\ Sound(req[p]) /\ ~Holding(req[p])
  BY <1>0 DEF CreateOneTime, At, Requesting, Holding
<1>2. Kind(req[p].op) \in TokenKinds
  BY <1>1 DEF Route, Kind, TokenKinds, Passwords, Mails, Enrols
<1>3. x \in TokenSet /\ x.pw = req[p].pw /\ ~x.spent
  BY <1>0, <1>2, ReqFields DEF Token, TokenSet
<1>4. onetime' = Append(onetime, x)
  BY DEF CreateOneTime
<1> HIDE DEF x
<1>5. /\ status' = status /\ epoch' = epoch /\ cuts' = cuts /\ creds' = creds /\ sessions' = sessions
      /\ realm' = realm /\ admin' = admin /\ pwLock' = pwLock /\ granted' = granted /\ Done(p)
  BY DEF CreateOneTime, identity, env
<1>6. Fits(p)
  BY <1>0, <1>1, <1>5, EndIsFine DEF Fits
<1>7. PICK r \in ReqSet : Set(p, r) /\ Route(r) /\ Sound(r) /\ Inherits(r, req[p]) /\ Abides(r, req[p])
  BY <1>6 DEF Fits
<1>8. /\ onetime' \in Seq(TokenSet) /\ Len(onetime) \in Nat /\ Len(onetime') = Len(onetime) + 1
      /\ \A t \in 1 .. Len(onetime) : onetime'[t] = onetime[t]
      /\ onetime'[Len(onetime) + 1] = x
  BY <1>0, <1>3, <1>4, AppendFacts DEF Shape
<1>9. Shape'
  BY <1>0, <1>5, <1>7, <1>8 DEF Shape, Set
<1>10. Grows
  <2>1. \A c \in 1 .. Len(creds) : Lasts(creds[c], creds[c])
    BY <1>0, CredSteps DEF Lasts
  <2> QED
    BY <1>0, <1>5, <1>8, <2>1, LensAre DEF Grows
<1>11. Sound(r)'
  BY <1>0, <1>7, <1>9, <1>10, SoundStays
<1>12. TokensKeepTo
  <2> SUFFICES ASSUME NEW t \in 1 .. Len(onetime') PROVE onetime'[t].pw \in 0 .. Len(creds')
    BY DEF TokensKeepTo
  <2>1. CASE t \in 1 .. Len(onetime)
    BY <1>0, <1>5, <1>8, <2>1 DEF Opening
  <2>2. CASE t = Len(onetime) + 1
    BY <1>1, <1>3, <1>5, <1>8, <2>2 DEF Sound
  <2> QED
    BY <1>8, <2>1, <2>2
<1>13. Exclusive'
  <2>1. /\ \A q \in Procs : Holding(req'[q]) <=> pwLock' = q
        /\ \A q \in Procs : pwLock' = q => pwLock = q /\ req'[q].seen = req[q].seen
    BY <1>0, <1>5, <1>7, LockStays
  <2> QED
    BY <1>0, <1>5, <1>9, <1>10, <2>1, ExclusiveStays
<1> QED
  BY <1>5, <1>7, <1>9, <1>10, <1>11, <1>12, <1>13, StepKeeps, SessionsSame

(* DELETE ... RETURNING hands a row to one request.                        *)
LEMMA ConsumeKeeps ==
    ASSUME IInv, NEW p \in Procs, NEW t \in DOMAIN onetime, ConsumeOneTime(p, t)
    PROVE  IInv'
<1>0. Shape /\ Requesting /\ Opening /\ Apart /\ Exclusive
  BY DEF IInv
<1> DEFINE l == IF req[p].op \in {"mfa", "confirm_totp"} THEN "totp" ELSE "identity"
           v == [req[p] EXCEPT !.tok = t, !.pw = onetime[t].pw, !.pc = l]
<1>1. /\ req[p].pc = "consume" /\ Route(req[p]) /\ Sound(req[p]) /\ ~Holding(req[p])
      /\ ~onetime[t].spent /\ Set(p, v)
  BY <1>0 DEF ConsumeOneTime, At, Requesting, Holding
<1>2. /\ status' = status /\ epoch' = epoch /\ cuts' = cuts /\ creds' = creds /\ sessions' = sessions
      /\ realm' = realm /\ admin' = admin /\ pwLock' = pwLock /\ granted' = granted
      /\ onetime' = [onetime EXCEPT ![t].spent = TRUE]
  BY DEF ConsumeOneTime, ConsumeDelete, identity, env
<1>3. t \in 1 .. Len(onetime) /\ Len(onetime) \in Nat /\ onetime[t] \in TokenSet
      /\ onetime[t].pw \in 0 .. Len(creds) /\ onetime[t].pw \in Nat /\ Len(creds) \in Nat
  BY <1>0, LensAre DEF Opening
<1>4. /\ l \in {"totp", "identity"} /\ (l = "totp" <=> req[p].op \in {"mfa", "confirm_totp"})
  OBVIOUS
<1> HIDE DEF l
<1>5. /\ v \in ReqSet /\ v.pc = l /\ v.op = req[p].op /\ v.tok = t /\ v.pw = onetime[t].pw
      /\ v.totp = req[p].totp /\ v.step = req[p].step /\ v.epoch = req[p].epoch /\ v.cuts = req[p].cuts
      /\ v.realm = req[p].realm /\ v.held = req[p].held /\ v.seen = req[p].seen
  <2>1. l \in PCs /\ t \in Nat /\ req[p] \in ReqSet
    BY <1>0, <1>3, <1>4, ReqFields DEF PCs
  <2> QED
    BY <1>3, <2>1 DEF ReqSet
<1> HIDE DEF v
<1>6. PICK r \in ReqSet : r = v
  BY <1>5
<1>7. req[p].totp = 0 /\ req[p].op \in Codes \cup {"link", "reset", "confirm_totp"}
  BY <1>1 DEF Route
<1>8. Route(r) /\ ~Holding(r) /\ ~Claims(r) /\ Abides(r, req[p])
  BY <1>1, <1>4, <1>5, <1>6, <1>7 DEF Route, Holding, Claims, Codes, Abides
<1>9. /\ onetime' \in Seq(TokenSet) /\ Len(onetime') = Len(onetime) /\ onetime'[t].spent
      /\ onetime'[t].pw = onetime[t].pw
      /\ \A u \in 1 .. Len(onetime) : u # t => onetime'[u] = onetime[u]
  <2> DEFINE w == [onetime[t] EXCEPT !.spent = TRUE]
  <2>1. w \in TokenSet /\ w.spent /\ w.pw = onetime[t].pw
    BY <1>3 DEF TokenSet
  <2>2. onetime' = [onetime EXCEPT ![t] = w]
    BY <1>2
  <2> HIDE DEF w
  <2> QED
    BY <1>0, <1>3, <2>1, <2>2 DEF Shape
<1>10. Shape'
  BY <1>0, <1>1, <1>2, <1>5, <1>9 DEF Shape, Set
<1>11. Grows
  <2>1. \A c \in 1 .. Len(creds) : Lasts(creds[c], creds[c])
    BY <1>0, CredSteps DEF Lasts
  <2>2. \A u \in 1 .. Len(onetime) : onetime[u].spent => onetime'[u].spent
    BY <1>9
  <2> QED
    BY <1>0, <1>2, <1>3, <1>9, <2>1, <2>2 DEF Grows
<1>12. Sound(r)'
  <2>1. ~Chosen(r)
    BY <1>4, <1>5, <1>6, <1>7 DEF Chosen, Codes, Passwords
  <2> QED
    BY <1>1, <1>2, <1>3, <1>4, <1>5, <1>6, <1>7, <1>8, <1>9, <2>1 DEF Sound, Claims, Chosen, Within
<1>13. TokensKeepTo
  BY <1>0, <1>2, <1>9 DEF TokensKeepTo, Opening
<1>14. Exclusive'
  <2>1. /\ \A q \in Procs : Holding(req'[q]) <=> pwLock' = q
        /\ \A q \in Procs : pwLock' = q => pwLock = q /\ req'[q].seen = req[q].seen
    BY <1>0, <1>1, <1>2, <1>6, <1>8, LockStays
  <2> QED
    BY <1>0, <1>2, <1>10, <1>11, <2>1, ExclusiveStays
<1>15. Requesting'
  BY <1>0, <1>1, <1>6, <1>8, <1>10, <1>11, <1>12, RequestingStays
<1>16. Opening'
  BY <1>0, <1>2, <1>10, <1>11, <1>13, OpeningStays, SessionsSame
<1>17. /\ \A q \in Procs : req[q].tok # t
       /\ \A s \in 1 .. Len(sessions) : sessions[s].tok # t
  BY <1>0, <1>1, <1>3, SMTT(30) DEF Requesting, Sound, Opening, Opened
<1>18. req' = [req EXCEPT ![p] = r] /\ req'[p] = r /\ r.tok = t
  BY <1>0, <1>1, <1>5, <1>6 DEF Set, Shape
<1>19. ASSUME NEW a \in Procs, NEW b \in Procs, a # b
       PROVE  /\ ~SameToken(req'[a], req'[b])
              /\ Claims(req'[a]) /\ Claims(req'[b]) => ~SameCode(req'[a], req'[b])
  <2>1. CASE a # p /\ b # p
    <3>1. req'[a] = req[a] /\ req'[b] = req[b]
      BY <1>0, <1>18, <2>1 DEF Shape
    <3> QED
      BY <1>0, <1>19, <3>1 DEF Apart
  <2>2. CASE a = p
    <3>1. req'[a] = r /\ req'[b] = req[b]
      BY <1>0, <1>18, <1>19, <2>2 DEF Shape
    <3> QED
      BY <1>8, <1>17, <1>18, <3>1 DEF SameToken
  <2>3. CASE b = p
    <3>1. req'[b] = r /\ req'[a] = req[a]
      BY <1>0, <1>18, <1>19, <2>3 DEF Shape
    <3> QED
      BY <1>8, <1>17, <1>18, <3>1 DEF SameToken
  <2> QED
    BY <2>1, <2>2, <2>3
<1>20. ASSUME NEW a \in Procs, NEW s \in 1 .. Len(sessions)
       PROVE  /\ ~SameToken(req'[a], sessions[s])
              /\ Claims(req'[a]) => ~SameCode(req'[a], sessions[s])
  <2>1. CASE a # p
    <3>1. req'[a] = req[a]
      BY <1>0, <1>18, <2>1 DEF Shape
    <3> QED
      BY <1>0, <3>1 DEF Apart
  <2>2. CASE a = p
    BY <1>8, <1>17, <1>18, <2>2 DEF SameToken
  <2> QED
    BY <2>1, <2>2
<1>21. Apart'
  <2>1. \A s, u \in 1 .. Len(sessions) :
          s # u => ~SameToken(sessions[s], sessions[u]) /\ ~SameCode(sessions[s], sessions[u])
    BY <1>0 DEF Apart
  <2> QED
    BY <1>2, <1>19, <1>20, <2>1 DEF Apart, SameToken, SameCode, Claims
<1> QED
  BY <1>10, <1>14, <1>15, <1>16, <1>21 DEF IInv

(* What the rows are like when one has joined them.                        *)
LEMMA RowFacts ==
    ASSUME NEW kind \in {"password", "totp"}, NEW b \in BOOLEAN, NEW k \in 0 .. MaxStep
    PROVE  /\ Row(kind, b, k) \in CredSet /\ Row(kind, b, k).kind = kind
           /\ Row(kind, b, k).state = "live"
  BY DEF Row, CredSet

LEMMA ReplaceHashKeeps ==
    ASSUME IInv, NEW p \in Procs, ReplaceHash(p)
    PROVE  IInv'
<1>0. Shape /\ Requesting /\ Opening /\ Apart /\ Exclusive
  BY DEF IInv
<1>1. /\ req[p].pc = "rehash" /\ Route(req[p]) /\ Sound(req[p]) /\ ~Holding(req[p])
      /\ req[p].op \in Passwords
  BY <1>0 DEF ReplaceHash, At, Requesting, Holding, Route
<1>2. /\ status' = status /\ epoch' = epoch /\ cuts' = cuts /\ sessions' = sessions /\ onetime' = onetime
      /\ realm' = realm /\ admin' = admin /\ pwLock' = pwLock /\ granted' = granted
      /\ Goto(p, "factors") /\ pwLock = NoProc
  BY DEF ReplaceHash, identity, env
<1>3. Fits(p)
  <2>1. /\ [req[p] EXCEPT !.pc = "factors"].pc = "factors" /\ [req[p] EXCEPT !.pc = "factors"].op = req[p].op
        /\ [req[p] EXCEPT !.pc = "factors"].totp = req[p].totp
    BY <1>0, ReqFields, GotoFacts DEF PCs
  <2>2. Route([req[p] EXCEPT !.pc = "factors"])
    BY <1>1, <2>1 DEF Route
  <2>3. "factors" \in PCs /\ ~("factors" \in {"sweep", "commit"}) /\ ~("factors" \in {"view", "open"})
    BY DEF PCs
  <2> QED
    BY <1>0, <1>1, <1>2, <2>2, <2>3, GotoIsFine DEF Fits, Chosen
<1>4. PICK r \in ReqSet : Set(p, r) /\ Route(r) /\ Sound(r) /\ Inherits(r, req[p]) /\ Abides(r, req[p])
  BY <1>3 DEF Fits
<1>5. CASE LiveOf("password") # {}
  <2>1. creds' = creds
    BY <1>5 DEF ReplaceHash
  <2>2. Shape'
    BY <1>0, <1>2, <1>4, <2>1 DEF Shape, Set
  <2>3. Grows
    BY <1>0, <1>2, <2>1, GrowsStill
  <2>4. Sound(r)'
    BY <1>0, <1>4, <2>2, <2>3, SoundStays
  <2>5. TokensKeepTo
    BY <1>0, <1>2, <2>1, LensAre, TokensSame
  <2>6. /\ \A q \in Procs : Holding(req'[q]) <=> pwLock' = q
        /\ \A q \in Procs : pwLock' = q => pwLock = q /\ req'[q].seen = req[q].seen
    BY <1>0, <1>2, <1>4, LockStays
  <2>7. Exclusive'
    BY <1>0, <2>1, <2>2, <2>3, <2>6, ExclusiveStays
  <2> QED
    BY <1>2, <1>4, <2>2, <2>3, <2>4, <2>5, <2>7, StepKeeps, SessionsSame
<1>6. CASE LiveOf("password") = {}
  <2> DEFINE x == Row("password", FALSE, 0)
  <2>1. creds' = Append(creds, x)
    BY <1>6 DEF ReplaceHash
  <2>2. x \in CredSet /\ x.kind = "password" /\ x.state = "live"
    BY DEF Row, CredSet
  <2> HIDE DEF x
  <2>3. /\ creds' \in Seq(CredSet) /\ Len(creds) \in Nat /\ Len(creds') = Len(creds) + 1
        /\ \A c \in 1 .. Len(creds) : creds'[c] = creds[c]
        /\ creds'[Len(creds) + 1] = x
    BY <1>0, <2>1, <2>2, AppendFacts DEF Shape
  <2>4. Shape'
    BY <1>0, <1>2, <1>4, <2>3 DEF Shape, Set
  <2>5. Grows
    <3>1. \A c \in 1 .. Len(creds) : Lasts(creds[c], creds'[c])
      BY <1>0, <2>3, CredSteps DEF Lasts
    <3> QED
      BY <1>0, <1>2, <2>3, <3>1, LensAre DEF Grows
  <2>6. Sound(r)'
    BY <1>0, <1>4, <2>4, <2>5, SoundStays
  <2>7. TokensKeepTo
    BY <1>0, <1>2, <2>3, TokensSame
  <2>8. \A q \in Procs : Holding(req'[q]) <=> pwLock' = q
    BY <1>0, <1>2, <1>4, LockStays
  <2>9. \A c \in 1 .. Len(creds) : ~IsLive(c, "password")
    BY <1>0, <1>6, LiveIs DEF LiveRows
  <2>10. \A c \in 1 .. Len(creds') : creds'[c].kind = "password" /\ creds'[c].state = "live"
                                        => c = Len(creds')
    <3> SUFFICES ASSUME NEW c \in 1 .. Len(creds'), c # Len(creds')
                 PROVE  ~(creds'[c].kind = "password" /\ creds'[c].state = "live")
      OBVIOUS
    <3>1. c \in 1 .. Len(creds)
      BY <2>3
    <3> QED
      BY <2>3, <2>9, <3>1 DEF IsLive
  <2>11. \A q \in Procs : pwLock' # q
    BY <1>2
  <2>12. Len(creds') \in 1 .. Len(creds')
    BY <2>3
  <2>13. \A c, d \in 1 .. Len(creds') :
           (/\ creds'[c].kind = "password" /\ creds'[c].state = "live"
            /\ creds'[d].kind = "password" /\ creds'[d].state = "live") => c = d
    BY <2>10
  <2>14. Exclusive'
    BY <2>2, <2>3, <2>8, <2>11, <2>12, <2>13 DEF Exclusive, IsLive, Holding
  <2> QED
    BY <1>2, <1>4, <2>4, <2>5, <2>6, <2>7, <2>14, StepKeeps, SessionsSame
<1> QED
  BY <1>5, <1>6

(* The UPDATE takes a code for one request: no one else has taken a code   *)
(* of so late a step.                                                      *)
LEMMA AdvanceKeeps ==
    ASSUME IInv, NEW p \in Procs, AdvanceCredentialStep(p)
    PROVE  IInv'
<1>0. Shape /\ Requesting /\ Opening /\ Apart /\ Exclusive
  BY DEF IInv
<1> DEFINE k == req[p].step
           h == req[p].totp
           l == IF req[p].op = "mfa" THEN "identity" ELSE "open"
           v == [req[p] EXCEPT !.pc = l]
<1>1. /\ req[p].pc = "advance" /\ Route(req[p]) /\ Sound(req[p]) /\ ~Holding(req[p]) /\ Set(p, v)
      /\ req[p].op \in Codes /\ h # 0
  BY <1>0 DEF AdvanceCredentialStep, At, Requesting, Holding, Route, Goto
<1>2. /\ status' = status /\ epoch' = epoch /\ cuts' = cuts /\ sessions' = sessions /\ onetime' = onetime
      /\ realm' = realm /\ admin' = admin /\ pwLock' = pwLock /\ granted' = granted
      /\ creds' = [creds EXCEPT ![h].step = k] /\ creds[h].step < k
  BY DEF AdvanceCredentialStep, StrictlyNewer, identity, env
<1>3. /\ h \in 1 .. Len(creds) /\ k \in 0 .. MaxStep /\ Len(creds) \in Nat /\ creds[h] \in CredSet
      /\ creds[h].step \in Nat /\ k \in Nat
  BY <1>0, <1>1, LensAre, ReqFields, CredSteps DEF Sound
<1>4. l \in PCs /\ l \in {"identity", "open"} /\ (l = "identity" <=> req[p].op = "mfa")
  BY DEF PCs
<1> HIDE DEF l
<1>5. /\ v \in ReqSet /\ v.pc = l /\ v.op = req[p].op /\ v.tok = req[p].tok /\ v.pw = req[p].pw
      /\ v.totp = h /\ v.step = k /\ v.epoch = req[p].epoch /\ v.cuts = req[p].cuts
      /\ v.realm = req[p].realm /\ v.held = req[p].held /\ v.seen = req[p].seen
  BY <1>0, <1>4, ReqFields, GotoFacts
<1> HIDE DEF v, h, k
<1>6. PICK r \in ReqSet : r = v
  BY <1>5
<1>7. Route(r) /\ ~Holding(r) /\ Abides(r, req[p])
  BY <1>1, <1>4, <1>5, <1>6 DEF Route, Holding, Codes, Abides
<1>8. /\ creds' \in Seq(CredSet) /\ Len(creds') = Len(creds)
      /\ creds'[h].step = k /\ creds'[h].kind = creds[h].kind /\ creds'[h].state = creds[h].state
      /\ \A c \in 1 .. Len(creds) : c # h => creds'[c] = creds[c]
  <2> DEFINE w == [creds[h] EXCEPT !.step = k]
  <2>1. w \in CredSet /\ w.step = k /\ w.kind = creds[h].kind /\ w.state = creds[h].state
    BY <1>3 DEF CredSet
  <2>2. creds' = [creds EXCEPT ![h] = w]
    BY <1>2
  <2> HIDE DEF w
  <2> QED
    BY <1>0, <1>3, <2>1, <2>2 DEF Shape
<1>9. Shape'
  BY <1>0, <1>1, <1>2, <1>5, <1>8 DEF Shape, Set
<1>10. Grows
  <2>1. \A c \in 1 .. Len(creds) : Lasts(creds[c], creds'[c])
    BY <1>0, <1>2, <1>3, <1>8, CredSteps DEF Lasts
  <2>2. Len(creds) <= Len(creds') /\ Len(onetime) \in Nat /\ Len(onetime) <= Len(onetime')
    BY <1>0, <1>2, <1>3, <1>8, LensAre
  <2>3. \A t \in 1 .. Len(onetime) : onetime[t].spent => onetime'[t].spent
    BY <1>2
  <2> QED
    BY <1>2, <2>1, <2>2, <2>3 DEF Grows
<1>11. Sound(r)'
  <2>1. Sound(req[p]) /\ req[p].totp = h /\ r.totp = h /\ h # 0
    BY <1>1, <1>5, <1>6 DEF h
  <2>2. r.op # "confirm_totp"
    BY <1>1, <1>5, <1>6 DEF Codes
  <2>3. k <= creds'[h].step
    BY <1>3, <1>8
  <2> QED
    <3>1. ~Chosen(r)
      BY <1>1, <1>4, <1>5, <1>6 DEF Chosen, Codes, Passwords
    <3> QED
      BY <1>2, <1>3, <1>5, <1>6, <1>8, <2>1, <2>2, <2>3, <3>1 DEF Sound, Claims, Chosen, Within
<1>12. TokensKeepTo
  BY <1>0, <1>2, <1>3, <1>8, TokensSame
<1>13. Exclusive'
  <2>1. /\ \A q \in Procs : Holding(req'[q]) <=> pwLock' = q
        /\ \A q \in Procs : pwLock' = q => pwLock = q /\ req'[q].seen = req[q].seen
    BY <1>0, <1>1, <1>2, <1>6, <1>7, LockStays
  <2>2. \A c \in 1 .. Len(creds) :
              creds[c].kind = "password" /\ creds[c].state = "live" => creds'[c].state \in {"live", "revoked"}
    BY <1>8
  <2> QED
    BY <1>0, <1>8, <1>9, <1>10, <2>1, <2>2, ExclusiveStays
<1>14. Requesting'
  BY <1>0, <1>1, <1>6, <1>7, <1>9, <1>10, <1>11, RequestingStays
<1>15. Opening'
  BY <1>0, <1>2, <1>9, <1>10, <1>12, OpeningStays, SessionsSame
<1>16. ASSUME NEW q \in Procs, Claims(req[q]), req[q].totp = h
       PROVE  req[q].step # k
  <2>1. Sound(req[q]) /\ req[q].step \in Nat
    BY <1>0, ReqFields DEF Requesting
  <2> QED
    BY <1>2, <1>3, <1>16, <2>1 DEF Sound
<1>17. ASSUME NEW s \in 1 .. Len(sessions), sessions[s].totp = h
       PROVE  sessions[s].step # k
  <2>1. Opened(sessions[s]) /\ sessions[s] \in SessionSet
    BY <1>0, LensAre DEF Opening
  <2>2. sessions[s].step \in Nat
    BY <2>1 DEF SessionSet
  <2> QED
    BY <1>1, <1>2, <1>3, <1>17, <2>1, <2>2 DEF Opened
<1>18. req' = [req EXCEPT ![p] = r] /\ req'[p] = r /\ r.tok = req[p].tok /\ r.totp = h /\ r.step = k
  BY <1>0, <1>1, <1>5, <1>6 DEF Set, Shape
<1>19. ASSUME NEW a \in Procs, NEW b \in Procs, a # b
       PROVE  /\ ~SameToken(req'[a], req'[b])
              /\ Claims(req'[a]) /\ Claims(req'[b]) => ~SameCode(req'[a], req'[b])
  <2>0. ~SameToken(req[a], req[b])
    BY <1>0, <1>19 DEF Apart
  <2>1. CASE a # p /\ b # p
    <3>1. req'[a] = req[a] /\ req'[b] = req[b]
      BY <1>0, <1>18, <2>1 DEF Shape
    <3> QED
      BY <1>0, <1>19, <3>1 DEF Apart
  <2>2. CASE a = p
    <3>1. req'[a] = r /\ req'[b] = req[b]
      BY <1>0, <1>18, <1>19, <2>2 DEF Shape
    <3> QED
      BY <1>16, <1>18, <2>0, <2>2, <3>1 DEF SameToken, SameCode
  <2>3. CASE b = p
    <3>1. req'[b] = r /\ req'[a] = req[a]
      BY <1>0, <1>18, <1>19, <2>3 DEF Shape
    <3> QED
      BY <1>16, <1>18, <2>0, <2>3, <3>1 DEF SameToken, SameCode
  <2> QED
    BY <2>1, <2>2, <2>3
<1>20. ASSUME NEW a \in Procs, NEW s \in 1 .. Len(sessions)
       PROVE  /\ ~SameToken(req'[a], sessions[s])
              /\ Claims(req'[a]) => ~SameCode(req'[a], sessions[s])
  <2>0. ~SameToken(req[a], sessions[s])
    BY <1>0 DEF Apart
  <2>1. CASE a # p
    <3>1. req'[a] = req[a]
      BY <1>0, <1>18, <2>1 DEF Shape
    <3> QED
      BY <1>0, <3>1 DEF Apart
  <2>2. CASE a = p
    BY <1>17, <1>18, <2>0, <2>2 DEF SameToken, SameCode
  <2> QED
    BY <2>1, <2>2
<1>21. Apart'
  <2>1. \A s, u \in 1 .. Len(sessions) :
          s # u => ~SameToken(sessions[s], sessions[u]) /\ ~SameCode(sessions[s], sessions[u])
    BY <1>0 DEF Apart
  <2> QED
    BY <1>2, <1>19, <1>20, <2>1 DEF Apart, SameToken, SameCode, Claims
<1> QED
  BY <1>9, <1>13, <1>14, <1>15, <1>21 DEF IInv

LEMMA OpenSessionKeeps ==
    ASSUME IInv, NEW p \in Procs, OpenSession(p)
    PROVE  IInv'
<1>0. Shape /\ Requesting /\ Opening /\ Apart /\ Exclusive
  BY DEF IInv
<1> DEFINE q == req[p]
           x == Session(q, q.held \cap (LiveOf("totp") \cup {Enrolment}))
           n == Len(sessions) + 1
<1>1. /\ q.pc = "open" /\ Route(q) /\ Sound(q) /\ ~Holding(q) /\ Done(p)
      /\ sessions' = Append(sessions, x)
  BY <1>0 DEF OpenSession, At, Requesting, Holding
<1>2. /\ status' = status /\ epoch' = epoch /\ cuts' = cuts /\ creds' = creds /\ onetime' = onetime
      /\ realm' = realm /\ admin' = admin /\ pwLock' = pwLock /\ granted' = granted
  BY DEF OpenSession, identity, env
<1>3. q.totp = 0 => q.held \cap (LiveOf("totp") \cup {Enrolment}) = {}
  BY <1>1 DEF Sound, LiveOf
<1>4. /\ x.tok = q.tok /\ x.totp = q.totp /\ x.step = q.step /\ x.epoch = q.epoch /\ x.cuts = q.cuts
      /\ x.bare = {}
  BY <1>3 DEF Session
<1>5. x \in SessionSet
  <2>1. (IF q.totp = 0 THEN q.held \cap (LiveOf("totp") \cup {Enrolment}) ELSE {}) = {}
    BY <1>3
  <2> QED
    BY <1>0, <2>1, ReqFields DEF Session, SessionSet, NoEpoch
<1> HIDE DEF x
<1>6. /\ sessions' \in Seq(SessionSet) /\ Len(sessions) \in Nat /\ Len(sessions') = n
      /\ \A s \in 1 .. Len(sessions) : sessions'[s] = sessions[s]
      /\ sessions'[n] = x /\ n \in Nat /\ n > 1
  BY <1>0, <1>1, <1>5, AppendFacts DEF Shape
<1>7. Claims(q) \/ q.totp = 0
  BY <1>1 DEF Claims
<1>8. PICK r \in ReqSet : r = DoneReq
  BY DoneFacts
<1>9. /\ Set(p, r) /\ Route(r) /\ Sound(r) /\ Inherits(r, q) /\ ~Holding(r) /\ ~Claims(r) /\ r.tok = 0
  BY <1>0, <1>1, <1>8, DoneFacts, DoneIsFine DEF Done, DoneReq
<1>10. Shape'
  BY <1>0, <1>2, <1>6, <1>9 DEF Shape, Set
<1>11. Grows
  BY <1>0, <1>2, GrowsStill
<1>12. Sound(r)'
  BY <1>0, <1>9, <1>10, <1>11, SoundStays
<1>13. Requesting'
  BY <1>0, <1>9, <1>10, <1>11, <1>12, RequestingStays
<1>14. Exclusive'
  <2>1. /\ \A a \in Procs : Holding(req'[a]) <=> pwLock' = a
        /\ \A a \in Procs : pwLock' = a => pwLock = a /\ req'[a].seen = req[a].seen
    BY <1>0, <1>1, <1>2, <1>9, LockStays DEF Abides
  <2> QED
    BY <1>0, <1>2, <1>10, <1>11, <2>1, ExclusiveStays
<1>15. Opened(x)
  <2>1. q.totp # 0 => q.totp \in 1 .. Len(creds) /\ q.step <= creds[q.totp].step
    BY <1>1, <1>7 DEF Sound
  <2>2. Sound(q)
    BY <1>1
  <2> QED
    BY <1>3, <1>4, <2>1, <2>2 DEF Opened, Sound
<1>16. \A s \in 1 .. Len(sessions') : s \in 1 .. Len(sessions) \/ s = n
  BY <1>6
<1> HIDE DEF n
<1>17. Opening'
  <2>1. ASSUME NEW s \in 1 .. Len(sessions')
        PROVE  (Opened(sessions[s]))'
    <3>1. CASE s = n
      BY <1>2, <1>6, <1>15, <3>1 DEF Opened
    <3>2. CASE s \in 1 .. Len(sessions)
      <4>1. Opened(sessions[s]) /\ sessions'[s] = sessions[s]
        BY <1>0, <1>6, <3>2 DEF Opening
      <4> QED
        BY <1>2, <4>1 DEF Opened
    <3> QED
      BY <1>16, <3>1, <3>2
  <2>2. \A t \in 1 .. Len(onetime) : onetime[t].pw \in 0 .. Len(creds)
    BY <1>0 DEF Opening
  <2> QED
    BY <1>2, <2>1, <2>2 DEF Opening
<1>18. req'[p] = r /\ \A a \in Procs : a # p => req'[a] = req[a]
  BY <1>0, <1>9 DEF Set, Shape
<1>19. ASSUME NEW s \in 1 .. Len(sessions)
       PROVE  /\ ~SameToken(x, sessions[s]) /\ ~SameCode(x, sessions[s])
              /\ ~SameToken(sessions[s], x) /\ ~SameCode(sessions[s], x)
  <2>1. /\ ~SameToken(q, sessions[s]) /\ (Claims(q) => ~SameCode(q, sessions[s]))
    BY <1>0 DEF Apart
  <2> QED
    BY <1>4, <1>7, <2>1 DEF SameToken, SameCode
<1>20. ASSUME NEW a \in Procs, a # p
       PROVE  /\ ~SameToken(req[a], x) /\ (Claims(req[a]) => ~SameCode(req[a], x))
  <2>1. /\ ~SameToken(req[a], q) /\ (Claims(req[a]) /\ Claims(q) => ~SameCode(req[a], q))
    BY <1>0, <1>20 DEF Apart
  <2> QED
    BY <1>4, <1>7, <2>1 DEF SameToken, SameCode
<1>21. ASSUME NEW s \in 1 .. Len(sessions'), NEW u \in 1 .. Len(sessions'), s # u
       PROVE  ~SameToken(sessions'[s], sessions'[u]) /\ ~SameCode(sessions'[s], sessions'[u])
  <2>1. CASE s = n
    <3>1. u \in 1 .. Len(sessions) /\ sessions'[s] = x /\ sessions'[u] = sessions[u]
      BY <1>6, <1>16, <1>21, <2>1
    <3> QED
      BY <1>19, <3>1
  <2>2. CASE u = n
    <3>1. s \in 1 .. Len(sessions) /\ sessions'[u] = x /\ sessions'[s] = sessions[s]
      BY <1>6, <1>16, <1>21, <2>2
    <3> QED
      BY <1>19, <3>1
  <2>3. CASE s # n /\ u # n
    <3>1. /\ s \in 1 .. Len(sessions) /\ u \in 1 .. Len(sessions)
          /\ sessions'[u] = sessions[u] /\ sessions'[s] = sessions[s]
      BY <1>6, <1>16, <2>3
    <3> QED
      BY <1>0, <1>21, <3>1 DEF Apart
  <2> QED
    BY <2>1, <2>2, <2>3
<1>22. ASSUME NEW a \in Procs, NEW b \in Procs, a # b
       PROVE  /\ ~SameToken(req'[a], req'[b])
              /\ Claims(req'[a]) /\ Claims(req'[b]) => ~SameCode(req'[a], req'[b])
  <2>1. CASE a = p
    BY <1>9, <1>18, <2>1 DEF SameToken
  <2>2. CASE b = p
    BY <1>9, <1>18, <2>2 DEF SameToken
  <2>3. CASE a # p /\ b # p
    <3>1. req'[a] = req[a] /\ req'[b] = req[b]
      BY <1>18, <2>3
    <3> QED
      BY <1>0, <1>22, <3>1 DEF Apart
  <2> QED
    BY <2>1, <2>2, <2>3
<1>23. ASSUME NEW a \in Procs, NEW s \in 1 .. Len(sessions')
       PROVE  /\ ~SameToken(req'[a], sessions'[s])
              /\ Claims(req'[a]) => ~SameCode(req'[a], sessions'[s])
  <2>1. CASE a = p
    BY <1>9, <1>18, <2>1 DEF SameToken
  <2>2. CASE a # p /\ s = n
    <3>1. req'[a] = req[a] /\ sessions'[s] = x
      BY <1>6, <1>18, <2>2
    <3> QED
      BY <1>20, <2>2, <3>1
  <2>3. CASE a # p /\ s # n
    <3>1. req'[a] = req[a] /\ s \in 1 .. Len(sessions) /\ sessions'[s] = sessions[s]
      BY <1>6, <1>16, <1>18, <2>3
    <3> QED
      BY <1>0, <3>1 DEF Apart
  <2> QED
    BY <2>1, <2>2, <2>3
<1>24. Apart'
  BY <1>21, <1>22, <1>23 DEF Apart, SameToken, SameCode, Claims
<1> QED
  BY <1>10, <1>13, <1>14, <1>17, <1>24 DEF IInv

(* The unique index admits the row of the transaction that has revoked     *)
(* every live one, and then nobody writes until it ends.                   *)
LEMMA CreateCredentialKeeps ==
    ASSUME IInv, NEW p \in Procs, CreateCredential(p)
    PROVE  IInv'
<1>0. Shape /\ Requesting /\ Opening /\ Apart /\ Exclusive
  BY DEF IInv
<1>1. /\ req[p].pc = "create" /\ Route(req[p]) /\ Sound(req[p]) /\ ~Holding(req[p]) /\ pwLock = NoProc
      /\ req[p].op \in Rekeys \cup Writes /\ req[p].totp = 0
  BY <1>0 DEF CreateCredential, At, Requesting, Holding, Route
<1>2. /\ status' = status /\ epoch' = epoch /\ cuts' = cuts /\ creds' = creds /\ onetime' = onetime
      /\ sessions' = sessions /\ realm' = realm /\ admin' = admin /\ granted' = granted
  BY DEF CreateCredential, identity, env
<1>3. Grows
  BY <1>0, <1>2, GrowsStill
<1>4. TokensKeepTo
  BY <1>0, <1>2, LensAre, TokensSame
<1>5. CASE IndexAdmits(p)
  <2> DEFINE l == IF req[p].op \in Rekeys THEN "sweep" ELSE "commit"
             v == [req[p] EXCEPT !.pc = l]
  <2>1. pwLock' = p /\ Set(p, v)
    BY <1>5 DEF CreateCredential, Goto
  <2>2. l \in PCs /\ l \in {"sweep", "commit"} /\ (l = "sweep" <=> req[p].op \in Rekeys)
    BY DEF PCs
  <2> HIDE DEF l
  <2>3. /\ v \in ReqSet /\ v.pc = l /\ v.op = req[p].op /\ v.tok = req[p].tok /\ v.pw = req[p].pw
        /\ v.totp = req[p].totp /\ v.step = req[p].step /\ v.epoch = req[p].epoch /\ v.cuts = req[p].cuts
        /\ v.realm = req[p].realm /\ v.held = req[p].held /\ v.seen = req[p].seen
    BY <1>0, <2>2, ReqFields, GotoFacts
  <2> HIDE DEF v
  <2>4. PICK r \in ReqSet : r = v
    BY <2>3
  <2>5. Route(r) /\ Holding(r) /\ ~Claims(r)
    BY <1>1, <2>2, <2>3, <2>4 DEF Route, Holding, Claims, Cuts
  <2>6. Sound(r) /\ Inherits(r, req[p])
    BY <1>1, <2>2, <2>3, <2>4, <2>5 DEF Sound, Chosen, Inherits
  <2>7. Shape'
    BY <1>0, <1>2, <2>1, <2>3, <2>4 DEF Shape, Set
  <2>8. Sound(r)'
    BY <1>0, <1>3, <2>6, <2>7, SoundStays
  <2>9. req'[p] = r /\ \A q \in Procs : q # p => req'[q] = req[q]
    BY <1>0, <2>1, <2>4 DEF Set, Shape
  <2>10. ASSUME NEW q \in Procs PROVE Holding(req'[q]) <=> pwLock' = q
    <3>1. CASE q = p
      BY <2>1, <2>5, <2>9, <3>1
    <3>2. CASE q # p
      <4>1. ~Holding(req[q])
        BY <1>0, <1>1 DEF Exclusive
      <4> QED
        BY <2>1, <2>9, <3>2, <4>1
    <3> QED
      BY <3>1, <3>2
  <2>11. \A c \in 1 .. Len(creds) : IsLive(c, "password") => c \in r.seen
    BY <1>0, <1>5, <2>3, <2>4, LiveIs DEF IndexAdmits, LiveRows
  <2>12. /\ \A c, d \in 1 .. Len(creds) : IsLive(c, "password") /\ IsLive(d, "password") => c = d
         /\ \E c \in 1 .. Len(creds) : creds[c].kind = "password" /\ creds[c].state \in {"live", "revoked"}
    BY <1>0 DEF Exclusive
  <2>13. \A q \in Procs : pwLock' = q =>
            \A c \in 1 .. Len(creds) : IsLive(c, "password") => c \in req'[q].seen
    BY <2>1, <2>9, <2>11
  <2>14. Exclusive'
    BY <1>2, <2>10, <2>12, <2>13 DEF Exclusive, IsLive, Holding
  <2> QED
    BY <1>2, <1>3, <1>4, <2>1, <2>4, <2>5, <2>6, <2>7, <2>8, <2>14, StepKeeps, SessionsSame
<1>6. CASE ~IndexAdmits(p)
  <2>1. Done(p) /\ pwLock' = pwLock
    BY <1>6 DEF CreateCredential
  <2>2. PICK r \in ReqSet : Set(p, r) /\ Route(r) /\ Sound(r) /\ Inherits(r, req[p]) /\ Abides(r, req[p])
    BY <1>0, <1>1, <2>1, EndIsFine
  <2>3. Shape'
    BY <1>0, <1>2, <2>1, <2>2 DEF Shape, Set
  <2>4. Sound(r)'
    BY <1>0, <1>3, <2>2, <2>3, SoundStays
  <2>5. /\ \A q \in Procs : Holding(req'[q]) <=> pwLock' = q
        /\ \A q \in Procs : pwLock' = q => pwLock = q /\ req'[q].seen = req[q].seen
    BY <1>0, <2>1, <2>2, LockStays
  <2>6. Exclusive'
    BY <1>0, <1>2, <1>3, <2>3, <2>5, ExclusiveStays
  <2> QED
    BY <1>2, <1>3, <1>4, <2>2, <2>3, <2>4, <2>6, StepKeeps, SessionsSame
<1> QED
  BY <1>5, <1>6

(* Rows that a statement retires, and one that joins them.                 *)
LEMMA RetireFacts ==
    ASSUME Shape, NEW rows, NEW st \in {"rekeyed", "replaced", "revoked"}
    PROVE  /\ Retire(rows, st) \in Seq(CredSet) /\ Len(Retire(rows, st)) = Len(creds)
           /\ \A c \in 1 .. Len(creds) :
                /\ Lasts(creds[c], Retire(rows, st)[c])
                /\ Retire(rows, st)[c].state =
                      IF c \in rows /\ creds[c].state = "live" THEN st ELSE creds[c].state
<1> DEFINE new(c) == IF c \in rows /\ creds[c].state = "live" THEN [creds[c] EXCEPT !.state = st]
                     ELSE creds[c]
<1>1. Retire(rows, st) = [c \in 1 .. Len(creds) |-> new(c)] /\ Len(creds) \in Nat
  BY LensAre DEF Retire
<1>2. ASSUME NEW c \in 1 .. Len(creds)
      PROVE  /\ new(c) \in CredSet /\ Lasts(creds[c], new(c))
             /\ new(c).state = IF c \in rows /\ creds[c].state = "live" THEN st ELSE creds[c].state
  <2>1. creds[c] \in CredSet /\ creds[c].step \in Nat
    BY LensAre, CredSteps
  <2>2. CASE c \in rows /\ creds[c].state = "live"
    BY <2>1, <2>2 DEF CredSet, Lasts
  <2>3. CASE ~(c \in rows /\ creds[c].state = "live")
    BY <2>1, <2>3 DEF CredSet, Lasts
  <2> QED
    BY <2>2, <2>3
<1> HIDE DEF new
<1>3. Retire(rows, st) \in [1 .. Len(creds) -> CredSet]
  BY <1>1, <1>2
<1> QED
  BY <1>1, <1>2, <1>3

LEMMA JoinFacts ==
    ASSUME Shape, NEW rows, NEW st \in {"rekeyed", "replaced", "revoked"}, NEW x \in CredSet,
           creds' = Append(Retire(rows, st), x)
    PROVE  /\ creds' \in Seq(CredSet) /\ Len(creds) \in Nat /\ Len(creds') = Len(creds) + 1
           /\ creds'[Len(creds) + 1] = x
           /\ \A c \in 1 .. Len(creds) :
                /\ Lasts(creds[c], creds'[c])
                /\ creds'[c].state = IF c \in rows /\ creds[c].state = "live" THEN st ELSE creds[c].state
<1> DEFINE t == Retire(rows, st)
<1>1. t \in Seq(CredSet) /\ Len(t) = Len(creds) /\ Len(creds) \in Nat
  BY RetireFacts, LensAre
<1>2. \A c \in 1 .. Len(creds) :
         /\ Lasts(creds[c], t[c])
         /\ t[c].state = IF c \in rows /\ creds[c].state = "live" THEN st ELSE creds[c].state
  BY RetireFacts
<1>3. creds' = Append(t, x)
  OBVIOUS
<1> HIDE DEF t
<1>4. /\ creds' \in Seq(CredSet) /\ Len(creds') = Len(t) + 1 /\ creds'[Len(t) + 1] = x
      /\ \A c \in 1 .. Len(t) : creds'[c] = t[c]
  BY <1>1, <1>3, AppendFacts
<1> QED
  BY <1>1, <1>2, <1>4

LEMMA GrowsMore ==
    ASSUME Shape, Shape', realm' = realm, onetime' = onetime, Len(creds) <= Len(creds'),
           \A c \in 1 .. Len(creds) : Lasts(creds[c], creds'[c]),
           (epoch' = epoch /\ cuts' = cuts) \/ epoch' = epoch + 1
    PROVE  Grows
<1>1. Len(onetime) \in Nat
  BY LensAre
<1> QED
  BY <1>1 DEF Grows

(* The transaction that wrote the password rows commits.                   *)
LEMMA PasswordReplaced ==
    ASSUME IInv, NEW p \in Procs, NEW st \in {"rekeyed", "replaced"}, NEW x \in CredSet,
           x.kind = "password", x.state = "live", Holding(req[p]), Release(p), Done(p),
           creds' = Append(Retire(req[p].seen, st), x)
    PROVE  Exclusive'
<1>0. Shape /\ Exclusive
  BY DEF IInv
<1>1. pwLock = p /\ pwLock' = NoProc
  BY <1>0 DEF Exclusive, Release
<1>2. \A c \in 1 .. Len(creds) : IsLive(c, "password") => c \in req[p].seen
  BY <1>0, <1>1 DEF Exclusive
<1> DEFINE n == Len(creds) + 1
<1>3. /\ Len(creds) \in Nat /\ Len(creds') = n /\ creds'[n] = x /\ n \in 1 .. n
      /\ \A c \in 1 .. Len(creds) :
           /\ Lasts(creds[c], creds'[c])
           /\ creds'[c].state = IF c \in req[p].seen /\ creds[c].state = "live" THEN st ELSE creds[c].state
  BY <1>0, JoinFacts, SMTT(30)
<1>4. \A c \in 1 .. n : c \in 1 .. Len(creds) \/ c = n
  BY <1>3
<1> HIDE DEF n
<1>5. \A c \in 1 .. Len(creds) : ~(creds'[c].kind = "password" /\ creds'[c].state = "live")
  BY <1>2, <1>3 DEF Lasts, IsLive
<1>6. \A q \in Procs : pwLock' # q
  BY <1>1
<1>7. ASSUME NEW q \in Procs PROVE ~Holding(req'[q])
  <2>1. CASE q = p
    <3>1. req'[q] = DoneReq
      BY <1>0, <2>1 DEF Done, Set, Shape, DoneReq
    <3> QED
      BY <1>0, <3>1, DoneIsFine
  <2>2. CASE q # p
    <3>1. req'[q] = req[q]
      BY <1>0, <2>2 DEF Done, Set, Shape
    <3> QED
      BY <1>0, <1>1, <2>2, <3>1 DEF Exclusive
  <2> QED
    BY <2>1, <2>2
<1>8. \A c \in 1 .. Len(creds') : creds'[c].kind = "password" /\ creds'[c].state = "live" => c = n
  BY <1>3, <1>4, <1>5
<1>9. \A c, d \in 1 .. Len(creds') :
         (/\ creds'[c].kind = "password" /\ creds'[c].state = "live"
          /\ creds'[d].kind = "password" /\ creds'[d].state = "live") => c = d
  BY <1>8
<1>10. \E c \in 1 .. Len(creds') : creds'[c].kind = "password" /\ creds'[c].state \in {"live", "revoked"}
  BY <1>3
<1> QED
  BY <1>6, <1>7, <1>9, <1>10 DEF Exclusive, IsLive, Holding

(* What a request's end brings about, the rest being known.                *)
LEMMA EndKeeps ==
    ASSUME IInv, Shape', Grows, SessionsContinue, TokensKeepTo, Exclusive', NEW p \in Procs, Done(p)
    PROVE  IInv'
<1>0. Shape
  BY DEF IInv
<1>1. PICK r \in ReqSet : r = DoneReq
  BY DoneFacts
<1>2. Set(p, r) /\ Route(r) /\ Sound(r) /\ Inherits(r, req[p])
  BY <1>0, <1>1, DoneIsFine DEF Done, DoneReq
<1>3. Sound(r)'
  BY <1>0, <1>2, SoundStays
<1> QED
  BY <1>2, <1>3, StepKeeps

LEMMA DoneShape ==
    ASSUME Shape, NEW p \in Procs, Done(p)
    PROVE  req' \in [Procs -> ReqSet]
  BY DoneFacts DEF Shape, Done, Set, DoneReq

LEMMA ReleaseShape ==
    ASSUME Shape, NEW p \in Procs, Release(p)
    PROVE  pwLock' \in Procs \cup {NoProc}
  BY DEF Shape, Release

(* Sessions swept, the epoch moved on.                                     *)
LEMMA CallInFacts ==
    ASSUME Shape, NEW p \in Procs, CallIn(p)
    PROVE  /\ epoch' = epoch + 1 /\ cuts' = cuts + 1 /\ status' \in {"active", "disabled"}
           /\ sessions' \in Seq(SessionSet) /\ SessionsContinue
<1> DEFINE new(s) == IF s \in req[p].swept THEN [sessions[s] EXCEPT !.live = FALSE] ELSE sessions[s]
<1>1. /\ sessions' = [s \in 1 .. Len(sessions) |-> new(s)] /\ Len(sessions) \in Nat
      /\ epoch' = epoch + 1 /\ cuts' = cuts + 1 /\ status' \in {"active", "disabled"}
  BY LensAre DEF CallIn, BumpTokenEpoch, Shape
<1>2. ASSUME NEW s \in 1 .. Len(sessions)
      PROVE  /\ new(s) \in SessionSet /\ SameOrigin(sessions[s], new(s)) /\ new(s).bare = sessions[s].bare
             /\ new(s).epoch = sessions[s].epoch /\ new(s).cuts = sessions[s].cuts
  <2>1. sessions[s] \in SessionSet
    BY LensAre
  <2> QED
    BY <2>1 DEF SessionSet, SameOrigin
<1> HIDE DEF new
<1>3. sessions' \in [1 .. Len(sessions) -> SessionSet]
  BY <1>1, <1>2
<1> QED
  BY <1>1, <1>2, <1>3 DEF SessionsContinue, Continues

LEMMA CommitCutKeeps ==
    ASSUME IInv, NEW p \in Procs, CommitCut(p)
    PROVE  IInv'
<1>0. Shape /\ Requesting /\ Opening /\ Apart /\ Exclusive
  BY DEF IInv
<1>1. /\ CallIn(p) /\ Done(p) /\ creds' = creds /\ onetime' = onetime /\ granted' = granted
      /\ realm' = realm /\ admin' = admin /\ pwLock' = pwLock
      /\ req[p].op \in {"disable", "logout_all"}
  BY DEF CommitCut, env
<1>2. ~Holding(req[p])
  BY <1>1 DEF Holding, Rekeys, Writes
<1>3. /\ epoch' = epoch + 1 /\ cuts' = cuts + 1 /\ status' \in {"active", "disabled"}
      /\ sessions' \in Seq(SessionSet) /\ SessionsContinue /\ Len(sessions') = Len(sessions)
  BY <1>0, <1>1, CallInFacts DEF SessionsContinue
<1>4. Shape'
  BY <1>0, <1>1, <1>3, DoneShape DEF Shape
<1>5. Grows
  <2>1. \A c \in 1 .. Len(creds) : Lasts(creds[c], creds'[c])
    BY <1>0, <1>1, CredSteps DEF Lasts
  <2>2. Len(creds) <= Len(creds')
    BY <1>0, <1>1, LensAre
  <2> QED
    BY <1>0, <1>1, <1>3, <1>4, <2>1, <2>2, GrowsMore
<1>6. TokensKeepTo
  BY <1>0, <1>1, LensAre, TokensSame
<1>7. Exclusive'
  <2>1. PICK r \in ReqSet : Set(p, r) /\ Abides(r, req[p])
    BY <1>0, <1>1, <1>2, EndIsFine
  <2>2. /\ \A q \in Procs : Holding(req'[q]) <=> pwLock' = q
        /\ \A q \in Procs : pwLock' = q => pwLock = q /\ req'[q].seen = req[q].seen
    BY <1>0, <1>1, <2>1, LockStays
  <2> QED
    BY <1>0, <1>1, <1>4, <1>5, <2>2, ExclusiveStays
<1> QED
  BY <1>1, <1>3, <1>4, <1>5, <1>6, <1>7, EndKeeps

LEMMA CommitRekeyKeeps ==
    ASSUME IInv, NEW p \in Procs, CommitRekey(p)
    PROVE  IInv'
<1>0. Shape /\ Requesting /\ Opening /\ Apart /\ Exclusive
  BY DEF IInv
<1>1. /\ CallIn(p) /\ Done(p) /\ Release(p) /\ onetime' = onetime /\ granted' = granted
      /\ realm' = realm /\ admin' = admin /\ Holding(req[p])
      /\ creds' = Append(Retire(req[p].seen, "rekeyed"), Row("password", FALSE, 0))
  BY DEF CommitRekey, env, At, Holding
<1>2. PICK x \in CredSet : x = Row("password", FALSE, 0)
  <2>1. Row("password", FALSE, 0) \in CredSet
    BY DEF Row, CredSet
  <2> QED
    BY <2>1
<1>3. x.kind = "password" /\ x.state = "live"
  BY <1>2 DEF Row
<1>4. /\ creds' \in Seq(CredSet) /\ Len(creds) \in Nat /\ Len(creds') = Len(creds) + 1
      /\ \A c \in 1 .. Len(creds) : Lasts(creds[c], creds'[c])
  BY <1>0, <1>1, <1>2, JoinFacts
<1>5. /\ epoch' = epoch + 1 /\ cuts' = cuts + 1 /\ status' \in {"active", "disabled"}
      /\ sessions' \in Seq(SessionSet) /\ SessionsContinue /\ Len(sessions') = Len(sessions)
  BY <1>0, <1>1, CallInFacts DEF SessionsContinue
<1>6. Shape'
  <2>1. req' \in [Procs -> ReqSet] /\ pwLock' \in Procs \cup {NoProc}
    BY <1>0, <1>1, DoneShape, ReleaseShape
  <2>2. epoch' \in Nat /\ cuts' \in Nat
    BY <1>0, <1>5 DEF Shape
  <2> QED
    BY <1>0, <1>1, <1>4, <1>5, <2>1, <2>2 DEF Shape
<1>7. Len(creds) <= Len(creds') /\ Len(creds') \in Nat
  BY <1>4
<1>8. Grows
  BY <1>0, <1>1, <1>4, <1>5, <1>6, <1>7, GrowsMore
<1>9. TokensKeepTo
  BY <1>0, <1>1, <1>7, TokensSame
<1>10. Exclusive'
  BY <1>1, <1>2, <1>3, PasswordReplaced
<1> QED
  BY <1>1, <1>5, <1>6, <1>8, <1>9, <1>10, EndKeeps

LEMMA CommitPasswordKeeps ==
    ASSUME IInv, NEW p \in Procs, CommitPassword(p)
    PROVE  IInv'
<1>0. Shape /\ Requesting /\ Opening /\ Apart /\ Exclusive
  BY DEF IInv
<1>1. /\ Done(p) /\ Release(p) /\ onetime' = onetime /\ granted' = granted /\ realm' = realm
      /\ admin' = admin /\ status' = status /\ epoch' = epoch /\ cuts' = cuts /\ sessions' = sessions
      /\ Holding(req[p])
      /\ creds' = Append(Retire(req[p].seen, "replaced"), Row("password", req[p].op = "import", 0))
  BY DEF CommitPassword, env, identity, At, Holding
<1>2. PICK x \in CredSet : x = Row("password", req[p].op = "import", 0)
  <2>1. PICK b \in BOOLEAN : b = (req[p].op = "import")
    BY Zenon
  <2>2. Row("password", b, 0) \in CredSet
    BY DEF Row, CredSet
  <2> QED
    BY <2>1, <2>2
<1>3. x.kind = "password" /\ x.state = "live"
  BY <1>2 DEF Row
<1>4. /\ creds' \in Seq(CredSet) /\ Len(creds) \in Nat /\ Len(creds') = Len(creds) + 1
      /\ \A c \in 1 .. Len(creds) : Lasts(creds[c], creds'[c])
  BY <1>0, <1>1, <1>2, JoinFacts
<1>6. Shape'
  BY <1>0, <1>1, <1>4, DoneShape, ReleaseShape DEF Shape
<1>7. Len(creds) <= Len(creds') /\ Len(creds') \in Nat
  BY <1>4
<1>8. Grows
  BY <1>0, <1>1, <1>4, <1>6, <1>7, GrowsMore
<1>9. TokensKeepTo
  BY <1>0, <1>1, <1>7, TokensSame
<1>10. Exclusive'
  BY <1>1, <1>2, <1>3, PasswordReplaced
<1> QED
  BY <1>1, <1>6, <1>8, <1>9, <1>10, EndKeeps, SessionsSame

LEMMA CommitTotpKeeps ==
    ASSUME IInv, NEW p \in Procs, CommitTotp(p)
    PROVE  IInv'
<1>0. Shape /\ Requesting /\ Opening /\ Apart /\ Exclusive
  BY DEF IInv
<1>1. /\ Done(p) /\ onetime' = onetime /\ granted' = granted /\ realm' = realm /\ pwLock' = pwLock
      /\ admin' = admin /\ status' = status /\ epoch' = epoch /\ cuts' = cuts /\ sessions' = sessions
      /\ req[p].op = "confirm_totp"
      /\ creds' = Append(Retire(req[p].seen, "replaced"), Row("totp", FALSE, req[p].step))
  BY DEF CommitTotp, env, identity
<1>2. ~Holding(req[p])
  BY <1>1 DEF Holding, Rekeys, Writes
<1>3. PICK x \in CredSet : x = Row("totp", FALSE, req[p].step)
  BY <1>0, ReqFields DEF Row, CredSet
<1>4. x.kind = "totp"
  BY <1>3 DEF Row
<1>5. /\ creds' \in Seq(CredSet) /\ Len(creds) \in Nat /\ Len(creds') = Len(creds) + 1
      /\ creds'[Len(creds) + 1] = x
      /\ \A c \in 1 .. Len(creds) :
           /\ Lasts(creds[c], creds'[c])
           /\ creds'[c].state = IF c \in req[p].seen /\ creds[c].state = "live" THEN "replaced"
                                ELSE creds[c].state
  BY <1>0, <1>1, <1>3, JoinFacts
<1>6. Shape'
  BY <1>0, <1>1, <1>5, DoneShape DEF Shape
<1>7. Len(creds) <= Len(creds') /\ Len(creds') \in Nat
  BY <1>5
<1>8. Grows
  BY <1>0, <1>1, <1>5, <1>6, <1>7, GrowsMore
<1>9. TokensKeepTo
  BY <1>0, <1>1, <1>7, TokensSame
<1>10. Exclusive'
  <2>1. PICK r \in ReqSet : Set(p, r) /\ Abides(r, req[p])
    BY <1>0, <1>1, <1>2, EndIsFine
  <2>2. /\ \A q \in Procs : Holding(req'[q]) <=> pwLock' = q
        /\ \A q \in Procs : pwLock' = q => pwLock = q /\ req'[q].seen = req[q].seen
    BY <1>0, <1>1, <2>1, LockStays
  <2>3. \A c \in req[p].seen : creds[c].kind = "totp"
    BY <1>0, <1>1 DEF Requesting, Sound
  <2>4. \A c \in 1 .. Len(creds) :
           creds[c].kind = "password" /\ creds[c].state = "live" => creds'[c].state \in {"live", "revoked"}
    BY <1>5, <2>3
  <2>5. \A c \in 1 .. Len(creds') :
           creds'[c].kind = "password" /\ creds'[c].state = "live" => c \in 1 .. Len(creds)
    BY <1>4, <1>5
  <2> QED
    BY <1>0, <1>6, <1>8, <2>2, <2>4, <2>5, ExclusiveStays
<1> QED
  BY <1>1, <1>6, <1>8, <1>9, <1>10, EndKeeps, SessionsSame

(* Steps nobody's request takes.                                           *)
LEMMA IssueKeeps ==
    ASSUME IInv, NEW s \in DOMAIN sessions, Issue(s)
    PROVE  IInv'
<1>0. Shape /\ Requesting /\ Opening /\ Apart /\ Exclusive
  BY DEF IInv
<1>1. /\ sessions' = [sessions EXCEPT ![s].epoch = epoch, ![s].cuts = cuts]
      /\ status' = status /\ epoch' = epoch /\ cuts' = cuts /\ creds' = creds /\ onetime' = onetime
      /\ realm' = realm /\ admin' = admin /\ pwLock' = pwLock /\ granted' = granted /\ req' = req
  BY DEF Issue, identity, env
<1>2. s \in 1 .. Len(sessions) /\ sessions[s] \in SessionSet /\ Len(sessions) \in Nat /\ epoch \in Nat
      /\ cuts \in Nat
  BY <1>0, LensAre DEF Shape
<1> DEFINE y == [sessions[s] EXCEPT !.epoch = epoch, !.cuts = cuts]
<1>3. y \in SessionSet /\ SameOrigin(sessions[s], y) /\ y.bare = sessions[s].bare
      /\ y.epoch = epoch /\ y.cuts = cuts
  BY <1>2 DEF SessionSet, SameOrigin
<1>4. sessions' = [sessions EXCEPT ![s] = y]
  <2>1. [sessions EXCEPT ![s].epoch = epoch, ![s].cuts = cuts]
           = [[sessions EXCEPT ![s].epoch = epoch] EXCEPT ![s].cuts = cuts]
    OBVIOUS
  <2>2. y = [[sessions[s] EXCEPT !.epoch = epoch] EXCEPT !.cuts = cuts]
    OBVIOUS
  <2>3. s \in DOMAIN sessions
    OBVIOUS
  <2> QED
    BY <1>1, <2>1, <2>2, <2>3
<1> HIDE DEF y
<1>5. /\ sessions' \in Seq(SessionSet) /\ Len(sessions') = Len(sessions) /\ sessions'[s] = y
      /\ \A u \in 1 .. Len(sessions) : u # s => sessions'[u] = sessions[u]
  BY <1>0, <1>2, <1>3, <1>4 DEF Shape
<1>6. SessionsContinue
  BY <1>1, <1>3, <1>5 DEF SessionsContinue, Continues, SameOrigin
<1>7. Shape'
  BY <1>0, <1>1, <1>5 DEF Shape
<1>8. Grows
  BY <1>0, <1>1, GrowsStill
<1>9. TokensKeepTo
  BY <1>0, <1>1, LensAre, TokensSame
<1>10. Exclusive'
  BY <1>0, <1>1 DEF Exclusive, IsLive, Holding
<1> QED
  BY <1>1, <1>6, <1>7, <1>8, <1>9, <1>10, OthersKeep

LEMMA AdminKeeps ==
    ASSUME IInv, EnableIdentity \/ AdminBumpTokenEpoch
    PROVE  IInv'
<1>0. Shape /\ Requesting /\ Opening /\ Apart /\ Exclusive
  BY DEF IInv
<1>1. /\ creds' = creds /\ onetime' = onetime /\ sessions' = sessions /\ status' \in {"active", "disabled"}
      /\ realm' = realm /\ pwLock' = pwLock /\ granted' = granted /\ req' = req
      /\ admin' \in 0 .. MaxAdmin /\ epoch' \in Nat /\ cuts' \in Nat
      /\ (epoch' = epoch /\ cuts' = cuts) \/ epoch' = epoch + 1
  BY <1>0 DEF EnableIdentity, AdminBumpTokenEpoch, Admin, Shape
<1>2. Shape'
  BY <1>0, <1>1 DEF Shape
<1>3. Grows
  <2>1. \A c \in 1 .. Len(creds) : Lasts(creds[c], creds'[c])
    BY <1>0, <1>1, CredSteps DEF Lasts
  <2>2. Len(creds) <= Len(creds')
    BY <1>0, <1>1, LensAre
  <2> QED
    BY <1>0, <1>1, <1>2, <2>1, <2>2, GrowsMore
<1>4. TokensKeepTo
  BY <1>0, <1>1, LensAre, TokensSame
<1>5. Exclusive'
  BY <1>0, <1>1 DEF Exclusive, IsLive, Holding
<1> QED
  BY <1>1, <1>2, <1>3, <1>4, <1>5, OthersKeep, SessionsSame

LEMMA RevokeCredentialKeeps ==
    ASSUME IInv, NEW c \in DOMAIN creds, RevokeCredential(c)
    PROVE  IInv'
<1>0. Shape /\ Requesting /\ Opening /\ Apart /\ Exclusive
  BY DEF IInv
<1>1. /\ creds' = Retire({c}, "revoked") /\ onetime' = onetime /\ sessions' = sessions
      /\ status' = status /\ epoch' = epoch /\ cuts' = cuts
      /\ realm' = realm /\ pwLock' = pwLock /\ granted' = granted /\ req' = req
      /\ admin' \in 0 .. MaxAdmin
  BY <1>0 DEF RevokeCredential, Admin, identity, Shape
<1>2. /\ creds' \in Seq(CredSet) /\ Len(creds') = Len(creds) /\ Len(creds) \in Nat
      /\ \A d \in 1 .. Len(creds) :
            /\ Lasts(creds[d], creds'[d])
            /\ creds'[d].state = IF d \in {c} /\ creds[d].state = "live" THEN "revoked" ELSE creds[d].state
  BY <1>0, <1>1, RetireFacts, LensAre
<1>3. Shape'
  BY <1>0, <1>1, <1>2 DEF Shape
<1>4. Grows
  <2>1. Len(creds) <= Len(creds') /\ \A d \in 1 .. Len(creds) : Lasts(creds[d], creds'[d])
    BY <1>2
  <2> QED
    BY <1>0, <1>1, <1>3, <2>1, GrowsMore
<1>5. TokensKeepTo
  BY <1>0, <1>1, <1>2, TokensSame
<1>6. Exclusive'
  <2>1. \A q \in Procs : Holding(req'[q]) <=> pwLock' = q
    BY <1>0, <1>1 DEF Exclusive
  <2> QED
    BY <1>0, <1>1, <1>2, <1>3, <1>4, <2>1, ExclusiveStays
<1> QED
  BY <1>1, <1>3, <1>4, <1>5, <1>6, OthersKeep, SessionsSame

(* A policy change leaves a request all it carries, less what is no longer *)
(* demanded of it.                                                         *)
LEMMA UpdateRealmKeeps ==
    ASSUME IInv, NEW policy \in Policies, UpdateRealm(policy)
    PROVE  IInv'
<1>0. Shape /\ Requesting /\ Opening /\ Apart /\ Exclusive
  BY DEF IInv
<1>1. /\ creds' = creds /\ onetime' = onetime /\ sessions' = sessions /\ status' = status
      /\ epoch' = epoch /\ cuts' = cuts /\ realm' = policy /\ pwLock' = pwLock /\ granted' = granted
      /\ admin' \in 0 .. MaxAdmin
  BY <1>0 DEF UpdateRealm, Admin, identity, Shape
<1>2. ASSUME NEW q \in Procs
      PROVE  /\ req'[q] \in ReqSet /\ req'[q].pc = req[q].pc /\ req'[q].op = req[q].op
             /\ req'[q].tok = req[q].tok /\ req'[q].pw = req[q].pw /\ req'[q].totp = req[q].totp
             /\ req'[q].step = req[q].step /\ req'[q].epoch = req[q].epoch /\ req'[q].cuts = req[q].cuts
             /\ req'[q].realm = req[q].realm /\ req'[q].seen = req[q].seen
             /\ req'[q].held \subseteq req[q].held /\ Within(req'[q].held, policy)
  <2> DEFINE h == StillDemanded(req[q].held, policy)
             r == [req[q] EXCEPT !.held = h]
  <2>1. req'[q] = r
    BY DEF UpdateRealm
  <2>2. h \subseteq req[q].held /\ Within(h, policy)
    BY DEF StillDemanded, Within, Policies
  <2>3. h \in SUBSET Nat /\ req[q] \in ReqSet
    BY <1>0, <2>2, ReqFields
  <2> HIDE DEF h
  <2>4. /\ r \in ReqSet /\ r.pc = req[q].pc /\ r.op = req[q].op /\ r.tok = req[q].tok
        /\ r.pw = req[q].pw /\ r.totp = req[q].totp /\ r.step = req[q].step /\ r.epoch = req[q].epoch
        /\ r.cuts = req[q].cuts /\ r.realm = req[q].realm /\ r.seen = req[q].seen /\ r.held = h
    BY <2>3 DEF ReqSet
  <2> HIDE DEF r
  <2> QED
    BY <2>1, <2>2, <2>4
<1>3. Shape'
  <2>1. req' \in [Procs -> ReqSet]
    BY <1>2 DEF UpdateRealm
  <2> QED
    BY <1>0, <1>1, <2>1 DEF Shape
<1>4. Requesting'
  <2> SUFFICES ASSUME NEW q \in Procs PROVE (Route(req[q]) /\ Sound(req[q]))'
    BY DEF Requesting
  <2>1. Route(req[q]) /\ Sound(req[q])
    BY <1>0 DEF Requesting
  <2>2. Route(req[q])'
    BY <1>2, <2>1 DEF Route
  <2>3. /\ Within(req'[q].held, realm') /\ req'[q].held \subseteq 0 .. Len(creds')
        /\ Chosen(req'[q]) => Within(req'[q].held, req'[q].realm)
    BY <1>1, <1>2, <2>1 DEF Sound, Chosen, Within
  <2>4. req'[q].pc \in {"view", "open"} /\ req'[q].totp = 0 =>
          /\ Enrolment \notin req'[q].held
          /\ \A c \in req'[q].held : ~(creds'[c].kind = "totp" /\ creds'[c].state = "live")
    BY <1>1, <1>2, <2>1 DEF Sound
  <2>5. /\ req'[q].epoch <= epoch' /\ (req'[q].epoch = epoch' => req'[q].cuts = cuts')
        /\ req'[q].tok # 0 => req'[q].tok \in 1 .. Len(onetime') /\ onetime'[req'[q].tok].spent
        /\ req'[q].pw \in 0 .. Len(creds') /\ (req'[q].totp # 0 => req'[q].totp \in 1 .. Len(creds'))
        /\ Claims(req'[q]) => req'[q].step <= creds'[req'[q].totp].step
        /\ req'[q].seen \subseteq 1 .. Len(creds')
        /\ req'[q].op = "confirm_totp" => \A c \in req'[q].seen : creds'[c].kind = "totp"
    BY <1>1, <1>2, <2>1 DEF Sound, Claims
  <2>6. Sound(req[q])'
    BY <2>3, <2>4, <2>5 DEF Sound, Chosen, Within, Claims
  <2> QED
    BY <2>2, <2>6
<1>5. Opening'
  BY <1>0, <1>1 DEF Opening, Opened
<1>6. Apart'
  <2>1. \A q \in Procs : Inherits(req'[q], req[q])
    BY <1>2 DEF Inherits, Claims
  <2> QED
    BY <1>0, <1>1, <2>1, ApartStays DEF SameOrigin
<1>7. Exclusive'
  <2>1. \A q \in Procs : (Holding(req'[q]) <=> Holding(req[q])) /\ req'[q].seen = req[q].seen
    BY <1>2 DEF Holding
  <2> QED
    BY <1>0, <1>1, <2>1 DEF Exclusive, IsLive, Holding
<1> QED
  BY <1>3, <1>4, <1>5, <1>6, <1>7 DEF IInv

-----------------------------------------------------------------------------
(* The invariant.                                                          *)

LEMMA JoinedOne ==
    ASSUME NEW S, NEW a \in S, NEW b \in S
    PROVE  <<a>> \o <<b>> = <<a, b>> /\ <<a>> \o <<>> = <<a>>
<1>1. <<a>> \in Seq(S) /\ <<b>> \in Seq(S) /\ <<a, b>> \in Seq(S)
  OBVIOUS
<1>2. <<a>> \o <<b>> \in Seq(S) /\ Len(<<a>> \o <<b>>) = 2
  BY <1>1
<1>3. \A i \in 1 .. 2 : i = 1 \/ i = 2
  OBVIOUS
<1>4. \A i \in 1 .. 2 : (<<a>> \o <<b>>)[i] = <<a, b>>[i]
  BY <1>1, <1>3
<1>5. <<a>> \o <<>> = <<a>>
  BY <1>1, ConcatEmptySeq
<1> QED
  BY <1>1, <1>2, <1>4, <1>5, SeqEqual

LEMMA JoinedTwo ==
    ASSUME NEW S, NEW a \in S, NEW b \in S, NEW c \in S, NEW d \in S
    PROVE  <<a, b>> \o <<c, d>> = <<a, b, c, d>> /\ <<a, b>> \o <<>> = <<a, b>>
<1>1. <<a, b>> \in Seq(S) /\ <<c, d>> \in Seq(S) /\ <<a, b, c, d>> \in Seq(S)
  OBVIOUS
<1>2. <<a, b>> \o <<c, d>> \in Seq(S) /\ Len(<<a, b>> \o <<c, d>>) = 4
  BY <1>1
<1>3. \A i \in 1 .. 4 : i = 1 \/ i = 2 \/ i = 3 \/ i = 4
  OBVIOUS
<1>4. \A i \in 1 .. 4 : (<<a, b>> \o <<c, d>>)[i] = <<a, b, c, d>>[i]
  BY <1>1, <1>3
<1>5. <<a, b>> \o <<>> = <<a, b>>
  BY <1>1, ConcatEmptySeq
<1> QED
  BY <1>1, <1>2, <1>4, <1>5, SeqEqual

LEMMA InitHolds == Init => IInv
<1> SUFFICES ASSUME Init PROVE IInv
  OBVIOUS
<1>1. PICK x \in Starts :
         /\ creds = <<Row("password", x.imported, 0)>>
                       \o (IF x.enrolled THEN <<Row("totp", FALSE, 0)>> ELSE <<>>)
         /\ onetime = Pending(x.enrolled)
         /\ realm = IF x.overdue THEN "overdue" ELSE "allowed"
  BY DEF Init
<1>2. x.imported \in BOOLEAN /\ x.enrolled \in BOOLEAN /\ x.overdue \in BOOLEAN
  OBVIOUS
<1> DEFINE c1 == Row("password", x.imported, 0)
           c2 == Row("totp", FALSE, 0)
<1>3. /\ c1 \in CredSet /\ c1.kind = "password" /\ c1.state = "live"
      /\ c2 \in CredSet /\ c2.kind = "totp" /\ c2.state = "live"
  BY <1>2 DEF Row, CredSet
<1> HIDE DEF c1, c2
<1>4. /\ creds \in Seq(CredSet) /\ Len(creds) \in {1, 2} /\ creds[1] = c1
      /\ Len(creds) = 2 => creds[2] = c2
  <2>1. creds = IF x.enrolled THEN <<c1, c2>> ELSE <<c1>>
    <3>1. creds = <<c1>> \o (IF x.enrolled THEN <<c2>> ELSE <<>>)
      BY <1>1 DEF c1, c2
    <3>2. <<c1>> \o <<c2>> = <<c1, c2>> /\ <<c1>> \o <<>> = <<c1>>
      BY <1>3, JoinedOne
    <3> QED
      BY <3>1, <3>2
  <2> QED
    BY <1>3, <2>1
<1> DEFINE t1 == Token("password_reset", 0)
           t2 == Token("email_login", 0)
           t3 == Token("mfa", 1)
           t4 == Token("browser_mfa", 1)
<1>5. /\ {t1, t2, t3, t4} \subseteq TokenSet /\ t1.pw = 0 /\ t2.pw = 0 /\ t3.pw = 1 /\ t4.pw = 1
  BY DEF Token, TokenSet, TokenKinds
<1> HIDE DEF t1, t2, t3, t4
<1>6. onetime = IF x.enrolled THEN <<t1, t2, t3, t4>> ELSE <<t1, t2>>
  <2>1. onetime = <<t1, t2>> \o (IF x.enrolled THEN <<t3, t4>> ELSE <<>>)
    BY <1>1 DEF Pending, t1, t2, t3, t4
  <2>2. <<t1, t2>> \o <<t3, t4>> = <<t1, t2, t3, t4>> /\ <<t1, t2>> \o <<>> = <<t1, t2>>
    <3>1. t1 \in TokenSet /\ t2 \in TokenSet /\ t3 \in TokenSet /\ t4 \in TokenSet
      BY <1>5
    <3> QED
      BY <3>1, JoinedTwo
  <2> QED
    BY <2>1, <2>2
<1>7. /\ onetime \in Seq(TokenSet) /\ \A t \in 1 .. Len(onetime) : onetime[t].pw \in 0 .. Len(creds)
  <2>1. CASE x.enrolled
    <3>1. onetime = <<t1, t2, t3, t4>> /\ Len(onetime) = 4
      BY <1>6, <2>1
    <3>2. \A t \in 1 .. 4 : t = 1 \/ t = 2 \/ t = 3 \/ t = 4
      OBVIOUS
    <3> QED
      BY <1>4, <1>5, <3>1, <3>2
  <2>2. CASE ~x.enrolled
    <3>1. onetime = <<t1, t2>> /\ Len(onetime) = 2
      BY <1>6, <2>2
    <3>2. \A t \in 1 .. 2 : t = 1 \/ t = 2
      OBVIOUS
    <3> QED
      BY <1>4, <1>5, <3>1, <3>2
  <2> QED
    BY <2>1, <2>2
<1> DEFINE y == Session([Idle EXCEPT !.epoch = 0, !.pw = 1], {})
<1>8. /\ y \in SessionSet /\ y.tok = 0 /\ y.totp = 0 /\ y.bare = {} /\ y.epoch = 0 /\ y.cuts = 0
  BY DEF Session, Idle, SessionSet, NoEpoch
<1> HIDE DEF y
<1>9. sessions = <<y>> /\ sessions \in Seq(SessionSet) /\ Len(sessions) = 1 /\ sessions[1] = y
  BY <1>8 DEF Init, y
<1>10. /\ status = "active" /\ epoch = 0 /\ cuts = 0 /\ granted = FALSE /\ admin = 0 /\ pwLock = NoProc
       /\ \A p \in Procs : req[p] = Idle
       /\ req \in [Procs -> ReqSet]
  BY IdleFacts DEF Init
<1>11. Shape
  <2>1. admin \in 0 .. MaxAdmin /\ realm \in Policies /\ granted \in BOOLEAN
    <3>1. admin \in 0 .. MaxAdmin
      BY <1>10
    <3>2. realm \in Policies
      BY <1>1 DEF Policies
    <3> QED
      BY <1>10, <3>1, <3>2
  <2>2. epoch \in Nat /\ cuts \in Nat /\ status \in {"active", "disabled"} /\ Len(sessions) >= 1
    BY <1>9, <1>10
  <2> QED
    BY <1>4, <1>7, <1>9, <1>10, <2>1, <2>2 DEF Shape
<1>12. Requesting
  <2>1. Route(Idle)
    BY IdleFacts DEF Route
  <2>2. Sound(Idle)
    BY <1>10, <1>4, IdleFacts DEF Sound, Claims, Chosen, Within
  <2> QED
    BY <1>10, <2>1, <2>2 DEF Requesting
<1>13. Opening
  <2>1. Opened(y)
    BY <1>8, <1>10 DEF Opened
  <2>2. \A s \in 1 .. Len(sessions) : s = 1
    BY <1>9
  <2> QED
    BY <1>7, <1>9, <2>1, <2>2 DEF Opening
<1>14. Apart
  <2>1. \A p \in Procs : req[p].tok = 0 /\ ~Claims(req[p])
    BY <1>10, IdleFacts DEF Claims
  <2>2. \A s \in 1 .. Len(sessions) : s = 1
    BY <1>9
  <2> QED
    BY <2>1, <2>2 DEF Apart, SameToken
<1>15. Exclusive
  <2>1. \A p \in Procs : ~Holding(req[p]) /\ pwLock # p
    BY <1>10, IdleFacts DEF Holding
  <2>2. \A c \in 1 .. Len(creds) : IsLive(c, "password") => c = 1
    BY <1>3, <1>4 DEF IsLive
  <2>3. 1 \in 1 .. Len(creds)
    BY <1>4
  <2> QED
    BY <1>3, <1>4, <2>1, <2>2, <2>3 DEF Exclusive
<1> QED
  BY <1>11, <1>12, <1>13, <1>14, <1>15 DEF IInv

LEMMA StepHolds ==
    ASSUME IInv, NEW p \in Procs, Step(p)
    PROVE  IInv'
<1>1. ASSUME NEW t \in DOMAIN onetime, ConsumeOneTime(p, t) PROVE IInv'
  BY <1>1, ConsumeKeeps
<1>2. \/ Quiet(p) \/ DbError(p) \/ CreateOneTime(p) \/ \E t \in DOMAIN onetime : ConsumeOneTime(p, t)
      \/ ReplaceHash(p) \/ AdvanceCredentialStep(p) \/ OpenSession(p) \/ CreateCredential(p)
      \/ CommitCut(p) \/ CommitRekey(p) \/ CommitPassword(p) \/ CommitTotp(p)
  BY Zenon DEF Step, Quiet
<1> HIDE DEF IInv
<1> QED
  BY <1>1, <1>2, QuietKeeps, DbErrorKeeps, CreateOneTimeKeeps, ReplaceHashKeeps, AdvanceKeeps,
     OpenSessionKeeps, CreateCredentialKeeps, CommitCutKeeps, CommitRekeyKeeps, CommitPasswordKeeps,
     CommitTotpKeeps, Zenon

LEMMA NextHolds == IInv /\ [Next]_vars => IInv'
<1> SUFFICES ASSUME IInv, [Next]_vars PROVE IInv'
  OBVIOUS
<1>1. CASE UNCHANGED vars
  <2>1. /\ status' = status /\ epoch' = epoch /\ cuts' = cuts /\ creds' = creds /\ sessions' = sessions
        /\ onetime' = onetime /\ realm' = realm /\ admin' = admin /\ pwLock' = pwLock
        /\ granted' = granted /\ req' = req
    BY <1>1 DEF vars, identity, env
  <2> QED
    BY <2>1 DEF IInv, Shape, Requesting, Route, Sound, Chosen, Within, Opening, Opened, Apart, SameToken, SameCode, Claims,
                Exclusive, IsLive, Holding
<1>2. ASSUME NEW p \in Procs, Step(p) PROVE IInv'
  BY <1>2, StepHolds
<1>3. ASSUME NEW s \in DOMAIN sessions, Issue(s) PROVE IInv'
  BY <1>3, IssueKeeps
<1>4. ASSUME NEW c \in DOMAIN creds, RevokeCredential(c) PROVE IInv'
  BY <1>4, RevokeCredentialKeeps
<1>5. CASE EnableIdentity \/ AdminBumpTokenEpoch
  BY <1>5, AdminKeeps
<1>6. ASSUME NEW policy \in Policies, UpdateRealm(policy) PROVE IInv'
  BY <1>6, UpdateRealmKeeps
<1>7. (\E policy \in Policies \ {realm} : UpdateRealm(policy)) => \E policy \in Policies : UpdateRealm(policy)
  OBVIOUS
<1> QED
  BY <1>1, <1>2, <1>3, <1>4, <1>5, <1>6, <1>7, Zenon DEF Next

-----------------------------------------------------------------------------
(* The theorems.                                                           *)

(* The invariant holds in every reachable state, whatever the number of    *)
(* requests, the kinds of them and the bounds.                             *)
THEOREM InvariantHolds == Spec => []IInv
  BY InitHolds, NextHolds, PTL DEF Spec

(* The rows and the requests keep their shape.                             *)
THEOREM TypeCorrect == Spec => []TypeOK
<1>1. IInv => TypeOK
  <2> SUFFICES ASSUME IInv PROVE TypeOK
    OBVIOUS
  <2>0. Shape /\ Requesting /\ Opening /\ Apart /\ Exclusive
    BY DEF IInv
  <2>1. \A c \in DOMAIN creds :
          creds[c] \in [kind : {"password", "totp"}, imported : BOOLEAN, step : 0..MaxStep,
                        state : {"live", "rekeyed", "replaced", "revoked"}]
    BY <2>0, LensAre DEF CredSet
  <2>2. \A t \in DOMAIN onetime :
          onetime[t] \in [kind : {"mfa", "browser_mfa", "password_reset", "email_login",
                                  "totp_enroll"}, spent : BOOLEAN, pw : 0..Len(creds)]
    <3> SUFFICES ASSUME NEW t \in DOMAIN onetime
                 PROVE  onetime[t] \in [kind : TokenKinds, spent : BOOLEAN, pw : 0..Len(creds)]
      BY DEF TokenKinds
    <3>1. onetime[t] \in TokenSet /\ onetime[t].pw \in 0 .. Len(creds)
      BY <2>0, LensAre DEF Opening
    <3> QED
      BY <3>1 DEF TokenSet
  <2>3. \A s \in DOMAIN sessions : sessions[s].epoch \in {NoEpoch} \cup 0..epoch
    <3> SUFFICES ASSUME NEW s \in DOMAIN sessions PROVE sessions[s].epoch \in {NoEpoch} \cup 0..epoch
      OBVIOUS
    <3>1. sessions[s] \in SessionSet /\ Opened(sessions[s]) /\ epoch \in Nat
      BY <2>0, LensAre DEF Opening, Shape
    <3>2. sessions[s].epoch \in {NoEpoch} \cup Nat
      BY <3>1 DEF SessionSet
    <3> QED
      BY <3>1, <3>2 DEF Opened, NoEpoch
  <2>4. \A p \in Procs : req[p].op \in Ops \cup {"none"} /\ req[p].pc \in PCs
    BY <2>0, ReqFields
  <2>5. /\ status \in {"active", "disabled"} /\ epoch \in Nat /\ cuts \in Nat
        /\ realm \in Policies /\ granted \in BOOLEAN /\ admin \in 0..MaxAdmin
        /\ pwLock \in Procs \cup {NoProc}
    BY <2>0 DEF Shape
  <2> QED
    BY <2>1, <2>2, <2>3, <2>4, <2>5 DEF TypeOK
<1> QED
  BY <1>1, InvariantHolds, PTL

(* Whatever sign-ins, sweeps and bumps overlap, an access token that is    *)
(* accepted was issued after the last of them (rekey, DisableIdentity,     *)
(* LogoutAll, BumpTokenEpoch).                                             *)
THEOREM AcceptedIsCurrent == Spec => []AcceptedTokenIsCurrent
<1>1. IInv => AcceptedTokenIsCurrent
  BY LensAre DEF IInv, Opening, Opened, AcceptedTokenIsCurrent, Accepted
<1> QED
  BY <1>1, InvariantHolds, PTL

(* However many requests present one code of an authenticator, one of them *)
(* gets a session (AdvanceCredentialStep).                                 *)
THEOREM OneSessionPerCode == Spec => []OneCodeOneSession
<1>1. IInv => OneCodeOneSession
  BY LensAre DEF IInv, Apart, SameCode, OneCodeOneSession
<1> QED
  BY <1>1, InvariantHolds, PTL

(* However many requests present one link or challenge, one of them uses   *)
(* it (ConsumeOneTimeToken).                                               *)
THEOREM OneUsePerToken == Spec => []OneTokenOneUse
<1>1. IInv => OneTokenOneUse
  BY LensAre DEF IInv, Apart, SameToken, OneTokenOneUse
<1> QED
  BY <1>1, InvariantHolds, PTL

(* An authenticator held from before a sign-in to its end, in a realm that *)
(* allowed it all that time, is asked for at every door, whatever the      *)
(* policy that was read and however it changed since (FactorPolicy,        *)
(* allowedOf).                                                             *)
THEOREM FactorIsAsked == Spec => []EnrolledFactorIsAsked
<1>1. IInv => EnrolledFactorIsAsked
  BY LensAre DEF IInv, Opening, Opened, EnrolledFactorIsAsked
<1> QED
  BY <1>1, InvariantHolds, PTL

(* A person has one password, whichever writers race and whatever fails    *)
(* halfway (credentials_one_password, replacePassword).                    *)
THEOREM PasswordIsUnique == Spec => []OnePassword
<1>1. IInv => OnePassword
  <2> SUFFICES ASSUME IInv PROVE OnePassword
    OBVIOUS
  <2>0. Shape /\ Exclusive
    BY DEF IInv
  <2>1. \A c, d \in LiveOf("password") : c = d
    BY <2>0, LiveIs DEF Exclusive, LiveRows
  <2>2. Cardinality(LiveOf("password")) <= 1
    <3>1. CASE LiveOf("password") = {}
      BY <3>1, FS_EmptySet
    <3>2. CASE LiveOf("password") # {}
      <4>1. PICK c : c \in LiveOf("password")
        BY <3>2
      <4>2. LiveOf("password") = {c}
        BY <2>1, <4>1
      <4>3. Cardinality({c}) = 1
        BY FS_Singleton, Zenon
      <4> QED
        BY <4>2, <4>3
    <3> QED
      BY <3>1, <3>2
  <2>3. \/ LiveOf("password") # {}
        \/ \E c \in DOMAIN creds : creds[c].kind = "password" /\ creds[c].state = "revoked"
    BY <2>0, LensAre DEF Exclusive, LiveOf
  <2> QED
    BY <2>2, <2>3 DEF OnePassword
<1> QED
  BY <1>1, InvariantHolds, PTL
=============================================================================
