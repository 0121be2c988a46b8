------------------------- MODULE ControlPlaneProofs -------------------------
(***************************************************************************)
(* What ControlPlane guarantees for every set of requests and operators:   *)
(* the shape of the state, one usable token per family, superseded access  *)
(* tokens, replaced passwords and second-factor codes.                     *)
(***************************************************************************)
EXTENDS ControlPlane, SequenceTheorems, FiniteSetTheorems, TLAPS

-----------------------------------------------------------------------------
(* The inductive invariant.                                                *)

Labels ==
    {"idle", "done", "password", "rehash", "roles", "open", "row", "secret", "advance",
     "confirm", "lookup", "consume", "append", "kill", "standing", "authority", "current",
     "count", "write", "stage"}

Request ==
    [op : Kinds \cup {"none"}, pc : Labels, who : Operators \cup {NoOne},
     target : Operators \cup {NoOne}, tok : Nat, pw : Nat, enrolled : BOOLEAN, epoch : Nat,
     cuts : Nat, code : Codes]

UserRow ==
    [status : {"active", "disabled"}, epoch : Nat, pw : Nat, behind : BOOLEAN,
     secret : Nat, enrolled : BOOLEAN, step : 0 .. MaxStep]

TokenRow(n) ==
    [who : Operators, family : 1 .. n, used : BOOLEAN, revoked : BOOLEAN, pw : Nat, code : Codes]

(* Where a kind of request can be, and what it has found out by then.      *)
Fits(r) ==
    /\ r.pc \in {"password", "rehash"} => r.op = "login"
    /\ r.pc = "roles" => r.op \in Doors \cup {"refresh"}
    /\ r.pc = "open" => r.op \in Doors
    /\ r.pc = "row" => r.op \in {"mfa", "refresh"}
    /\ r.pc = "secret" => r.op \in {"mfa", "confirm_totp"}
    /\ r.pc = "advance" => r.op = "mfa"
    /\ r.pc = "confirm" => r.op = "confirm_totp"
    /\ r.pc \in {"consume", "append"} => r.op = "refresh"
    /\ r.pc \in {"lookup", "kill"} => r.op \in Rotation
    /\ r.pc \notin {"idle", "done", "lookup"} => r.who \in Operators
    /\ r.pc \in {"standing", "authority", "current", "count", "write"} => r.target \in Operators
    /\ r.op = "login" => r.code = NoCode

Shape ==
    /\ users \in [Operators -> UserRow]
    /\ owners \subseteq Operators
    /\ tokens \in Seq(TokenRow(Len(tokens)))
    /\ killed \subseteq 1 .. Len(tokens)
    /\ access \subseteq [who : Operators, epoch : Nat, cuts : Nat, pw : Nat]
    /\ challenges \subseteq [who : Operators, pw : Nat]
    /\ enrolments \in [Operators -> Seq(Nat)]
    /\ cuts \in [Operators -> Nat]
    /\ req \in [Procs -> Request]
    /\ \A p \in Procs : Fits(req[p]) /\ (req[p].op \in Rotation => req[p].tok \in 1 .. Len(tokens))

Even(r) == r.op \in Doors \cup {"refresh"} => r.epoch = r.cuts

(* The epoch of a row counts its cuts, and whatever has read the row has   *)
(* read both at once.                                                      *)
Lockstep ==
    /\ \A o \in Operators : users[o].epoch = cuts[o]
    /\ \A a \in access : a.epoch = a.cuts
    /\ \A p \in Procs : Even(req[p])

(* Two usable tokens of one family, two rotations past their               *)
(* ConsumeRefresh, or one of each, are the same.                           *)
InRotation(p) == req[p].op = "refresh" /\ req[p].pc \in {"row", "roles", "append"}
FamilyOf(p) == tokens[req[p].tok].family

OneOfAFamily ==
    /\ \A s, t \in DOMAIN tokens :
          ~Spent(s) /\ ~Spent(t) /\ tokens[s].family = tokens[t].family => s = t
    /\ \A p, q \in Procs :
          InRotation(p) /\ InRotation(q) /\ FamilyOf(p) = FamilyOf(q) => p = q
    /\ \A t \in DOMAIN tokens, p \in Procs :
          ~Spent(t) /\ InRotation(p) => tokens[t].family # FamilyOf(p)

(* A code accepted in the enrolment in force is not newer than the last    *)
(* accepted step, and no two of a session's root and a request that is     *)
(* about to open one hold the same code.                                   *)
Accepted(p) == req[p].op = "mfa" /\ req[p].pc \in {"roles", "open"}

Past(o, code) ==
    /\ code.enrolment <= Len(enrolments[o])
    /\ code.enrolment = Len(enrolments[o]) => code.step <= users[o].step

CodesSpent ==
    /\ \A t \in Roots : Past(tokens[t].who, tokens[t].code)
    /\ \A p \in Procs : Accepted(p) => Past(req[p].who, req[p].code)
    /\ \A s, t \in Roots :
          tokens[s].who = tokens[t].who /\ tokens[s].code = tokens[t].code => s = t
    /\ \A p, q \in Procs :
          Accepted(p) /\ Accepted(q) /\ req[p].who = req[q].who /\ req[p].code = req[q].code
          => p = q
    /\ \A t \in Roots, p \in Procs :
          Accepted(p) /\ tokens[t].who = req[p].who => tokens[t].code # req[p].code

IInv == Shape /\ Lockstep /\ OneOfAFamily /\ CodesSpent

-----------------------------------------------------------------------------
(* The invariant holds at the start.                                       *)

USE KindsAssumption, OperatorsStartAssumption, LimitsAssumption, NoOneAssumption
    DEF rows, seen, At, Set, Goto, Done

LEMMA IdleRequest == Idle \in Request /\ Fits(Idle)
<1>1. NoCode \in Codes
  BY DEF NoCode, Codes
<1>2. Idle \in Request
  BY <1>1 DEF Idle, Request, Labels
<1>3. Fits(Idle)
  BY DEF Idle, Fits
<1> QED
  BY <1>2, <1>3

LEMMA SignedInRequest ==
    ASSUME NEW o \in Operators
    PROVE  /\ SignedIn(o) \in Request
           /\ SignedIn(o).who = o /\ SignedIn(o).pw = 1 /\ SignedIn(o).code = NoCode
           /\ SignedIn(o).epoch = 0 /\ SignedIn(o).cuts = 0
<1>1. SignedIn(o) \in Request /\ SignedIn(o).who = o /\ SignedIn(o).pw = 1
  BY IdleRequest DEF SignedIn, Request
<1>2. /\ SignedIn(o).code = Idle.code
      /\ SignedIn(o).epoch = Idle.epoch /\ SignedIn(o).cuts = Idle.cuts
  BY IdleRequest DEF SignedIn, Request
<1> QED
  BY <1>1, <1>2 DEF Idle

LEMMA FunctionIsSeq ==
    ASSUME NEW n \in Nat, NEW S, NEW f \in [1 .. n -> S]
    PROVE  f \in Seq(S) /\ Len(f) = n
  OBVIOUS

LEMMA StartShape == Init => Shape
<1> SUFFICES ASSUME Init PROVE Shape
  OBVIOUS
<1> USE DEF Init
<1>1. PICK x \in Starts : users = [o \in Operators |-> User(x)]
  OBVIOUS
<1>2. PICK order \in [1 .. Cardinality(Operators) -> Operators] :
         tokens = [i \in DOMAIN order |-> Link(SignedIn(order[i]), i)]
  OBVIOUS
<1> DEFINE n == Cardinality(Operators)
<1>3. n \in Nat
  BY FS_CardinalityType
<1> HIDE DEF n
<1>4. users \in [Operators -> UserRow]
  BY <1>1 DEF User, UserRow
<1>5. \A i \in 1 .. n : tokens[i] \in TokenRow(n)
  BY <1>2, SignedInRequest DEF Link, NoCode, Codes, TokenRow, n, Request
<1>6. tokens \in Seq(TokenRow(n)) /\ Len(tokens) = n
  <2>1. tokens \in [1 .. n -> TokenRow(n)]
    BY <1>2, <1>5 DEF n
  <2> QED
    BY <1>3, <2>1, FunctionIsSeq
<1>7. access \subseteq [who : Operators, epoch : Nat, cuts : Nat, pw : Nat]
  BY SignedInRequest DEF Minted, Request
<1>8. challenges \subseteq [who : Operators, pw : Nat]
  OBVIOUS
<1>9. enrolments \in [Operators -> Seq(Nat)]
  BY <1>4 DEF UserRow
<1>10. req \in [Procs -> Request] /\ \A p \in Procs : req[p] = Idle
  BY IdleRequest
<1> QED
  BY <1>4, <1>6, <1>7, <1>8, <1>9, <1>10, IdleRequest DEF Shape, Idle, Rotation

-----------------------------------------------------------------------------
(* Every step keeps the shape.                                             *)

RequestShape ==
    /\ req \in [Procs -> Request]
    /\ \A p \in Procs : Fits(req[p]) /\ (req[p].op \in Rotation => req[p].tok \in 1 .. Len(tokens))

Good(r) == r \in Request /\ Fits(r) /\ (r.op \in Rotation => r.tok \in 1 .. Len(tokens))

LEMMA SetKeeps ==
    ASSUME Shape, NEW p \in Procs, NEW r, Good(r)', Set(p, r), Len(tokens') \in Nat,
           Len(tokens) <= Len(tokens')
    PROVE  RequestShape'
<1>1. Len(tokens) \in Nat
  BY DEF Shape
<1> QED
  BY <1>1, SMTT(30) DEF Shape, RequestShape, Good

LEMMA DoneKeeps ==
    ASSUME Shape, NEW p \in Procs, Done(p), Len(tokens') \in Nat, Len(tokens) <= Len(tokens')
    PROVE  RequestShape'
<1> DEFINE r == [Idle EXCEPT !.pc = "done"]
<1>1. r \in Request /\ Fits(r) /\ r.op = "none"
  <2>1. r \in Request
    BY IdleRequest DEF Request, Labels
  <2> QED
    BY <2>1 DEF Idle, Fits
<1>2. Good(r)'
  BY <1>1 DEF Good, Rotation
<1> HIDE DEF r
<1>3. Set(p, r)
  BY DEF r
<1> QED
  BY <1>2, <1>3, SetKeeps

(* The requests the doors let in.                                          *)
LEMMA ArrivalsGood ==
    ASSUME Shape
    PROVE  /\ \A o \in Operators :
                 Good([Idle EXCEPT !.op = "login", !.pc = "password", !.who = o])
           /\ \A c \in challenges :
                 Good([Idle EXCEPT !.op = "mfa", !.pc = "row", !.who = c.who, !.pw = c.pw])
           /\ \A op \in Rotation, t \in DOMAIN tokens :
                 Good([Idle EXCEPT !.op = op, !.pc = "lookup", !.tok = t])
           /\ \A op \in Admin \cup Own, a \in access, o \in Operators,
                 l \in {"stage", "secret", "standing"} :
                 (l = "secret" => op = "confirm_totp") =>
                 Good([Idle EXCEPT !.op = op, !.who = a.who, !.target = o, !.epoch = a.epoch,
                           !.pc = l])
<1>1. ASSUME NEW o \in Operators
      PROVE  Good([Idle EXCEPT !.op = "login", !.pc = "password", !.who = o])
  <2> DEFINE r == [Idle EXCEPT !.op = "login", !.pc = "password", !.who = o]
  <2>1. r \in Request /\ r.code = Idle.code /\ r.op = "login" /\ r.pc = "password" /\ r.who = o
    BY IdleRequest DEF Request, Labels, Kinds, Doors
  <2> HIDE DEF r
  <2>2. Good(r)
    BY <2>1 DEF Good, Fits, Idle, Rotation
  <2> QED
    BY <2>2 DEF r
<1>2. ASSUME NEW c \in challenges
      PROVE  Good([Idle EXCEPT !.op = "mfa", !.pc = "row", !.who = c.who, !.pw = c.pw])
  <2> DEFINE r == [Idle EXCEPT !.op = "mfa", !.pc = "row", !.who = c.who, !.pw = c.pw]
  <2>1. r \in Request /\ r.op = "mfa" /\ r.pc = "row" /\ r.who \in Operators
    BY IdleRequest DEF Request, Labels, Kinds, Doors, Shape
  <2> HIDE DEF r
  <2>2. Good(r)
    BY <2>1 DEF Good, Fits, Rotation
  <2> QED
    BY <2>2 DEF r
<1>3. ASSUME NEW op \in Rotation, NEW t \in DOMAIN tokens
      PROVE  Good([Idle EXCEPT !.op = op, !.pc = "lookup", !.tok = t])
  <2> DEFINE r == [Idle EXCEPT !.op = op, !.pc = "lookup", !.tok = t]
  <2>1. t \in 1 .. Len(tokens) /\ t \in Nat
    BY DEF Shape
  <2>2. r \in Request /\ r.op = op /\ r.pc = "lookup" /\ r.tok = t
    BY <2>1, IdleRequest DEF Request, Labels, Kinds
  <2> HIDE DEF r
  <2>3. Good(r)
    BY <2>1, <2>2 DEF Good, Fits, Rotation
  <2> QED
    BY <2>3 DEF r
<1>4. ASSUME NEW op \in Admin \cup Own, NEW a \in access, NEW o \in Operators,
             NEW l \in {"stage", "secret", "standing"}, l = "secret" => op = "confirm_totp"
      PROVE  Good([Idle EXCEPT !.op = op, !.who = a.who, !.target = o, !.epoch = a.epoch,
                       !.pc = l])
  <2> DEFINE r == [Idle EXCEPT !.op = op, !.who = a.who, !.target = o, !.epoch = a.epoch,
                       !.pc = l]
  <2>1. a.who \in Operators /\ a.epoch \in Nat
    BY DEF Shape
  <2>2. r \in Request /\ r.op = op /\ r.pc = l /\ r.who = a.who /\ r.target = o
    BY <2>1, IdleRequest, ZenonT(60) DEF Request, Labels, Kinds
  <2> HIDE DEF r
  <2>3. Good(r)
    BY <1>4, <2>1, <2>2 DEF Good, Fits, Rotation, Admin, Own
  <2> QED
    BY <2>3 DEF r
<1> QED
  BY <1>1, <1>2, <1>3, <1>4

LEMMA ShapeFrame ==
    ASSUME Shape, RequestShape', UNCHANGED <<rows, seen>>
    PROVE  Shape'
  BY DEF Shape, RequestShape

(* A request moves on, with what it had found out.                         *)
LEMMA GotoGood ==
    ASSUME Shape, NEW p \in Procs, NEW l \in Labels,
           Fits([req[p] EXCEPT !.pc = l])
    PROVE  Good([req[p] EXCEPT !.pc = l])
  BY ZenonT(60) DEF Shape, Good, Request

LEMMA AnswersKeepShape ==
    ASSUME Shape, NEW p \in Procs,
           \/ DbError(p) \/ CheckPassword(p) \/ WrongPassword(p) \/ ReadRow(p) \/ Lookup(p)
           \/ Standing(p) \/ Authority(p) \/ VerifyCurrent(p) \/ LastOwnerCheck(p)
           \/ \E k \in 0 .. MaxStep : VerifyCode(p, k)
    PROVE  Shape'
<1> DEFINE r == req[p]
<1>1. r \in Request /\ Good(r)
  BY DEF Shape, Good
<1>2. UNCHANGED <<rows, seen>>
  BY DEF DbError, CheckPassword, WrongPassword, ReadRow, Lookup, Standing, Authority,
         VerifyCurrent, LastOwnerCheck, VerifyCode
<1>3. ASSUME Done(p) PROVE Shape'
  <2>1. /\ Len(tokens) \in Nat /\ Len(tokens') = Len(tokens)
      /\ Len(tokens') \in Nat /\ Len(tokens) <= Len(tokens')
    BY <1>2 DEF Shape
  <2>2. RequestShape'
    BY <1>3, <2>1, DoneKeeps
  <2> QED
    BY <1>2, <2>2, ShapeFrame
<1>4. ASSUME NEW x, Good(x), Set(p, x) PROVE Shape'
  <2>1. /\ Len(tokens) \in Nat /\ Len(tokens') = Len(tokens)
      /\ Len(tokens') \in Nat /\ Len(tokens) <= Len(tokens')
    BY <1>2 DEF Shape
  <2>2. Good(x)'
    BY <1>4, <2>1 DEF Good
  <2>3. RequestShape'
    BY <1>4, <2>1, <2>2, SetKeeps
  <2> QED
    BY <1>2, <2>3, ShapeFrame
<1>5. ASSUME NEW l \in Labels, Goto(p, l), Fits([req[p] EXCEPT !.pc = l]) PROVE Shape'
  BY <1>4, <1>5, GotoGood
<1>6. CASE DbError(p) \/ WrongPassword(p)
  BY <1>3, <1>6 DEF DbError, WrongPassword
<1>7. CASE CheckPassword(p)
  <2> DEFINE u == users[r.who]
             x == [Reading(r) EXCEPT !.pw = u.pw, !.enrolled = u.enrolled,
                        !.pc = IF u.behind THEN "rehash" ELSE "roles"]
  <2>1. r.op = "login" /\ r.who \in Operators
    BY <1>1, <1>7 DEF CheckPassword, Good, Fits
  <2>2. u \in UserRow /\ cuts[r.who] \in Nat
    BY <2>1 DEF Shape
  <2>3. /\ x \in Request /\ x.op = r.op /\ x.who = r.who /\ x.code = r.code
        /\ x.pc \in {"rehash", "roles"}
    BY <1>1, <2>1, <2>2 DEF Reading, Request, UserRow, Labels
  <2>4. Good(x)
    BY <1>1, <2>1, <2>3 DEF Good, Fits, Doors, Rotation
  <2> HIDE DEF x
  <2>5. Set(p, x) \/ Done(p)
    BY <1>7 DEF CheckPassword, x
  <2> QED
    BY <1>3, <1>4, <2>4, <2>5
<1>8. CASE ReadRow(p)
  <2> DEFINE x == [Reading(r) EXCEPT !.pc = IF r.op = "mfa" THEN "secret" ELSE "roles"]
  <2>1. r.op \in {"mfa", "refresh"} /\ r.who \in Operators
    BY <1>1, <1>8 DEF ReadRow, Good, Fits
  <2>2. users[r.who] \in UserRow /\ cuts[r.who] \in Nat
    BY <2>1 DEF Shape
  <2>3. /\ x \in Request /\ x.op = r.op /\ x.who = r.who /\ x.tok = r.tok
        /\ x.pc = IF r.op = "mfa" THEN "secret" ELSE "roles"
    BY <1>1, <2>1, <2>2 DEF Reading, Request, UserRow, Labels
  <2>4. Good(x)
    BY <1>1, <2>1, <2>3 DEF Good, Fits, Doors, Rotation
  <2> HIDE DEF x
  <2>5. Set(p, x) \/ Done(p)
    BY <1>8 DEF ReadRow, x
  <2> QED
    BY <1>3, <1>4, <2>4, <2>5
<1>9. ASSUME NEW k \in 0 .. MaxStep, VerifyCode(p, k) PROVE Shape'
  <2> DEFINE sec == users[r.who].secret
             x == [r EXCEPT !.code = [secret |-> sec, step |-> k, enrolment |-> 0],
                        !.pc = IF r.op = "mfa" THEN "advance" ELSE "confirm"]
  <2>1. r.op \in {"mfa", "confirm_totp"} /\ r.who \in Operators
    BY <1>1, <1>9 DEF VerifyCode, Good, Fits
  <2>2. sec \in Nat
    BY <2>1 DEF Shape, UserRow
  <2>3. [secret |-> sec, step |-> k, enrolment |-> 0] \in Codes
    BY <2>2 DEF Codes
  <2>4. /\ x \in Request /\ x.op = r.op /\ x.who = r.who
        /\ x.pc = IF r.op = "mfa" THEN "advance" ELSE "confirm"
    BY <1>1, <2>1, <2>3 DEF Request, Labels
  <2>5. Good(x)
    BY <1>1, <2>1, <2>4 DEF Good, Fits, Doors, Rotation
  <2> HIDE DEF x
  <2>6. Set(p, x) \/ Done(p)
    BY <1>9 DEF VerifyCode, x
  <2> QED
    BY <1>3, <1>4, <2>5, <2>6
<1>10. CASE Lookup(p)
  <2> DEFINE t == tokens[r.tok]
             x == [r EXCEPT !.who = t.who, !.pw = t.pw, !.code = t.code,
                   !.pc = IF r.op = "logout" \/ Spent(r.tok) THEN "kill" ELSE "consume"]
  <2>1. r.op \in Rotation /\ r.tok \in 1 .. Len(tokens)
    BY <1>1, <1>10 DEF Lookup, Good, Fits
  <2>2. t \in TokenRow(Len(tokens))
    BY <2>1 DEF Shape
  <2>3. /\ x \in Request /\ x.op = r.op /\ x.who \in Operators /\ x.tok = r.tok
        /\ x.pc \in {"kill", "consume"} /\ (x.pc = "consume" => r.op # "logout")
    BY <1>1, <2>1, <2>2, ZenonT(60) DEF Request, Labels, TokenRow
  <2>4. Good(x)
    BY <1>1, <2>1, <2>3 DEF Good, Fits, Doors, Rotation
  <2> HIDE DEF x
  <2>5. Set(p, x)
    BY <1>10 DEF Lookup, x
  <2> QED
    BY <1>4, <2>4, <2>5
<1>11. CASE Standing(p) \/ Authority(p) \/ VerifyCurrent(p) \/ LastOwnerCheck(p)
  <2>1. r.who \in Operators /\ r.target \in Operators
    BY <1>1, <1>11 DEF Good, Fits, Standing, Authority, VerifyCurrent, LastOwnerCheck
  <2>2. Done(p) \/ \E l \in {"current", "authority", "count", "write"} : Goto(p, l)
    BY <1>11 DEF Standing, Authority, VerifyCurrent, LastOwnerCheck
  <2>3. \A l \in {"current", "authority", "count", "write"} :
           l \in Labels /\ Fits([req[p] EXCEPT !.pc = l])
    BY <1>1, <2>1 DEF Labels, Good, Fits, Request
  <2> QED
    BY <1>3, <1>5, <2>2, <2>3
<1> QED
  BY <1>6, <1>7, <1>8, <1>9, <1>10, <1>11

LEMMA ArrivalsKeepShape ==
    ASSUME Shape, NEW p \in Procs,
           \/ \E o \in Operators : Login(p, o)
           \/ \E c \in challenges : VerifyMFA(p, c)
           \/ \E op \in Rotation, t \in DOMAIN tokens : Present(p, op, t)
           \/ \E op \in Admin \cup Own, a \in access, o \in Operators : Call(p, op, a, o)
    PROVE  Shape'
<1>1. UNCHANGED <<rows, seen>>
  BY DEF Login, VerifyMFA, Present, Call
<1>2. \E x : Good(x) /\ Set(p, x)
  <2>1. ASSUME NEW o \in Operators, Login(p, o) PROVE \E x : Good(x) /\ Set(p, x)
    BY <2>1, ArrivalsGood, Zenon DEF Login
  <2>2. ASSUME NEW c \in challenges, VerifyMFA(p, c) PROVE \E x : Good(x) /\ Set(p, x)
    BY <2>2, ArrivalsGood, Zenon DEF VerifyMFA
  <2>3. ASSUME NEW op \in Rotation, NEW t \in DOMAIN tokens, Present(p, op, t)
        PROVE  \E x : Good(x) /\ Set(p, x)
    BY <2>3, ArrivalsGood, Zenon DEF Present
  <2>4. ASSUME NEW op \in Admin \cup Own, NEW a \in access, NEW o \in Operators,
               Call(p, op, a, o)
        PROVE  \E x : Good(x) /\ Set(p, x)
    <3> DEFINE l == CASE op = "begin_totp"   -> "stage"
                      [] op = "confirm_totp" -> "secret"
                      [] OTHER               -> "standing"
    <3>1. l \in {"stage", "secret", "standing"} /\ (l = "secret" => op = "confirm_totp")
      OBVIOUS
    <3>2. Set(p, [Idle EXCEPT !.op = op, !.who = a.who, !.target = o, !.epoch = a.epoch, !.pc = l])
      BY <2>4, Zenon DEF Call
    <3> HIDE DEF l
    <3> QED
      BY <3>1, <3>2, ArrivalsGood, Zenon
  <2> QED
    BY <2>1, <2>2, <2>3, <2>4, Zenon
<1>3. PICK x : Good(x) /\ Set(p, x)
  BY <1>2
<1>4. /\ Len(tokens) \in Nat /\ Len(tokens') = Len(tokens)
      /\ Len(tokens') \in Nat /\ Len(tokens) <= Len(tokens')
  BY <1>1 DEF Shape
<1>5. Good(x)'
  BY <1>3, <1>4 DEF Good
<1>6. RequestShape'
  BY <1>3, <1>4, <1>5, SetKeeps
<1> QED
  BY <1>1, <1>6, ShapeFrame

(* What a statement makes of a row is a row.                               *)
LEMMA RowUpdates ==
    ASSUME NEW u \in UserRow
    PROVE  NewPassword(u) \in UserRow /\ Disabled(u) \in UserRow /\ Enabled(u) \in UserRow
<1> USE DEF UserRow
<1>1. u.epoch + 1 \in Nat /\ u.pw + 1 \in Nat
  OBVIOUS
<1>2. NewPassword(u) \in UserRow
  BY <1>1 DEF NewPassword
<1>3. Disabled(u) \in UserRow
  BY <1>1 DEF Disabled
<1>4. Enabled(u) \in UserRow
  BY DEF Enabled
<1> HIDE DEF UserRow
<1> QED
  BY <1>2, <1>3, <1>4

LEMMA FieldUpdates ==
    ASSUME NEW f \in [Operators -> UserRow], NEW o \in Operators
    PROVE  /\ \A n \in Nat : [f EXCEPT ![o].pw = n] \in [Operators -> UserRow]
           /\ [f EXCEPT ![o].behind = FALSE] \in [Operators -> UserRow]
           /\ \A k \in 0 .. MaxStep : [f EXCEPT ![o].step = k] \in [Operators -> UserRow]
           /\ [f EXCEPT ![o].enrolled = TRUE] \in [Operators -> UserRow]
           /\ [f EXCEPT ![o].secret = @ + 1] \in [Operators -> UserRow]
<1> DEFINE u == f[o]
<1>1. u \in UserRow /\ u.secret + 1 \in Nat
  BY DEF UserRow
<1>2. ASSUME NEW v \in UserRow PROVE [f EXCEPT ![o] = v] \in [Operators -> UserRow]
  OBVIOUS
<1>3. ASSUME NEW n \in Nat PROVE [u EXCEPT !.pw = n] \in UserRow
  BY <1>1 DEF UserRow
<1>4. [u EXCEPT !.behind = FALSE] \in UserRow
  BY <1>1 DEF UserRow
<1>5. ASSUME NEW k \in 0 .. MaxStep PROVE [u EXCEPT !.step = k] \in UserRow
  BY <1>1 DEF UserRow
<1>6. [u EXCEPT !.enrolled = TRUE] \in UserRow
  BY <1>1 DEF UserRow
<1>7. [u EXCEPT !.secret = @ + 1] \in UserRow
  BY <1>1 DEF UserRow
<1> QED
  BY <1>2, <1>3, <1>4, <1>5, <1>6, <1>7, Zenon

(* The steps that write rows of users, challenges and assignments.         *)
LEMMA WritesKeepShape ==
    ASSUME Shape, NEW p \in Procs,
           \/ Rehash(p) \/ LiveRoles(p) \/ AdvanceTOTPStep(p) \/ WriteUser(p)
           \/ WriteAssignment(p) \/ StageTOTPSecret(p) \/ ConfirmTOTP(p)
    PROVE  Shape'
<1> DEFINE r == req[p]
<1>1. r \in Request /\ Good(r)
  BY DEF Shape, Good
<1>2. UNCHANGED <<tokens, killed, access>>
  BY DEF Rehash, LiveRoles, AdvanceTOTPStep, WriteUser, WriteAssignment, StageTOTPSecret,
         ConfirmTOTP
<1>3. r.who \in Operators
  BY <1>1 DEF Rehash, LiveRoles, AdvanceTOTPStep, WriteUser, WriteAssignment,
              StageTOTPSecret, ConfirmTOTP, Good, Fits
<1>4. /\ Len(tokens) \in Nat /\ Len(tokens') = Len(tokens)
      /\ Len(tokens') \in Nat /\ Len(tokens) <= Len(tokens')
  BY <1>2 DEF Shape
<1>5. ASSUME Done(p) PROVE RequestShape'
  BY <1>4, <1>5, DoneKeeps
<1>6. ASSUME NEW x, Good(x), Set(p, x) PROVE RequestShape'
  <2>1. Good(x)'
    BY <1>6, <1>4 DEF Good
  <2> QED
    BY <1>4, <1>6, <2>1, SetKeeps
<1>7. RequestShape'
  <2>1. CASE Rehash(p)
    <3>1. r.op = "login"
      BY <1>1, <2>1 DEF Rehash, Good, Fits
    <3>2. Fits([req[p] EXCEPT !.pc = "roles"])
      BY <1>1, <1>3, <3>1 DEF Good, Fits, Request, Doors
    <3>3. Good([req[p] EXCEPT !.pc = "roles"])
      BY <3>2, GotoGood DEF Labels
    <3> QED
      BY <1>6, <2>1, <3>3 DEF Rehash
  <2>2. CASE LiveRoles(p)
    <3>1. r.op \in Doors \cup {"refresh"}
      BY <1>1, <2>2 DEF LiveRoles, Good, Fits
    <3> DEFINE l == IF r.op = "refresh" THEN "append" ELSE "open"
    <3>2. Fits([req[p] EXCEPT !.pc = l])
      BY <1>1, <1>3, <3>1 DEF Good, Fits, Request, Doors
    <3>3. Good([req[p] EXCEPT !.pc = l])
      BY <3>2, GotoGood DEF Labels
    <3>4. Done(p) \/ Set(p, [req[p] EXCEPT !.pc = l])
      BY <2>2 DEF LiveRoles
    <3> QED
      BY <1>5, <1>6, <3>3, <3>4
  <2>3. CASE AdvanceTOTPStep(p)
    <3> DEFINE x == [r EXCEPT !.code.enrolment = Len(enrolments[r.who]), !.pc = "roles"]
    <3>1. r.op = "mfa"
      BY <1>1, <2>3 DEF AdvanceTOTPStep, Good, Fits
    <3>2. Len(enrolments[r.who]) \in Nat
      BY <1>3 DEF Shape
    <3>3. x \in Request /\ x.op = r.op /\ x.who = r.who /\ x.pc = "roles"
      BY <1>1, <3>2 DEF Request, Codes, Labels
    <3> HIDE DEF x
    <3>4. Good(x)
      BY <1>3, <3>1, <3>3 DEF Good, Fits, Doors, Rotation
    <3>5. Done(p) \/ Set(p, x)
      BY <2>3 DEF AdvanceTOTPStep, x
    <3> QED
      BY <1>5, <1>6, <3>4, <3>5
  <2>4. CASE WriteUser(p) \/ WriteAssignment(p) \/ StageTOTPSecret(p) \/ ConfirmTOTP(p)
    BY <1>5, <2>4 DEF WriteUser, WriteAssignment, StageTOTPSecret, ConfirmTOTP
  <2> QED
    BY <2>1, <2>2, <2>3, <2>4
<1>8. users' \in [Operators -> UserRow] /\ cuts' \in [Operators -> Nat]
  <2>1. CASE WriteUser(p)
    <3>1. r.target \in Operators /\ users[r.target] \in UserRow
      BY <1>1, <2>1 DEF WriteUser, Good, Fits, Shape
    <3> DEFINE v == CASE r.op = "disable" -> Disabled(users[r.target])
                      [] r.op = "enable"  -> Enabled(users[r.target])
                      [] OTHER            -> NewPassword(users[r.target])
    <3>2. v \in UserRow
      BY <3>1, RowUpdates
    <3>3. users' = [users EXCEPT ![r.target] = v]
      BY <2>1 DEF WriteUser
    <3> HIDE DEF v
    <3>4. users' \in [Operators -> UserRow]
      BY <3>1, <3>2, <3>3 DEF Shape
    <3>5. cuts' \in [Operators -> Nat]
      BY <2>1, <3>1 DEF WriteUser, Shape
    <3> QED
      BY <3>4, <3>5
  <2>2. CASE Rehash(p)
    <3>1. users \in [Operators -> UserRow] /\ r.pw \in Nat /\ cuts' \in [Operators -> Nat]
      BY <1>1, <2>2 DEF Rehash, Shape, Request
    <3>2. \/ UNCHANGED users
          \/ users' = [users EXCEPT ![r.who].pw = r.pw, ![r.who].behind = FALSE]
      BY <2>2 DEF Rehash
    <3> DEFINE g == [users EXCEPT ![r.who].pw = r.pw]
    <3>3. g \in [Operators -> UserRow]
      BY <1>3, <3>1, FieldUpdates, Zenon
    <3> HIDE DEF g
    <3> DEFINE h == [g EXCEPT ![r.who].behind = FALSE]
    <3>4. h \in [Operators -> UserRow]
      BY <1>3, <3>3, FieldUpdates, Zenon
    <3>5. users' = users \/ users' = h
      BY <3>2, Zenon DEF g
    <3> HIDE DEF h
    <3> QED
      BY <3>1, <3>4, <3>5
  <2>3. CASE AdvanceTOTPStep(p)
    <3>1. users \in [Operators -> UserRow] /\ r.code.step \in 0 .. MaxStep /\ cuts' \in [Operators -> Nat]
      BY <1>1, <2>3 DEF AdvanceTOTPStep, Shape, Request, Codes
    <3>2. UNCHANGED users \/ users' = [users EXCEPT ![r.who].step = r.code.step]
      BY <2>3 DEF AdvanceTOTPStep
    <3> DEFINE g == [users EXCEPT ![r.who].step = r.code.step]
    <3>3. g \in [Operators -> UserRow]
      BY <1>3, <3>1, FieldUpdates, Zenon
    <3> HIDE DEF g
    <3> QED
      BY <3>1, <3>2, <3>3 DEF g
  <2>4. CASE StageTOTPSecret(p) \/ ConfirmTOTP(p)
    <3>1. users \in [Operators -> UserRow] /\ r.code.step \in 0 .. MaxStep /\ cuts' \in [Operators -> Nat]
      BY <1>1, <2>4 DEF StageTOTPSecret, ConfirmTOTP, Shape, Request, Codes
    <3>2. \/ users' = [users EXCEPT ![r.who].secret = @ + 1]
          \/ users' = [users EXCEPT ![r.who].enrolled = TRUE, ![r.who].step = r.code.step]
      BY <2>4 DEF StageTOTPSecret, ConfirmTOTP
    <3> DEFINE g == [users EXCEPT ![r.who].enrolled = TRUE]
    <3>3. g \in [Operators -> UserRow]
      BY <1>3, <3>1, FieldUpdates, Zenon
    <3> HIDE DEF g
    <3> DEFINE h == [g EXCEPT ![r.who].step = r.code.step]
               i == [users EXCEPT ![r.who].secret = @ + 1]
    <3>4. h \in [Operators -> UserRow] /\ i \in [Operators -> UserRow]
      BY <1>3, <3>1, <3>3, FieldUpdates, Zenon
    <3>5. users' = i \/ users' = h
      BY <3>2, Zenon DEF g
    <3> HIDE DEF h, i
    <3> QED
      BY <3>1, <3>4, <3>5
  <2>5. CASE LiveRoles(p) \/ WriteAssignment(p)
    BY <2>5 DEF LiveRoles, WriteAssignment, Shape
  <2> QED
    BY <2>1, <2>2, <2>3, <2>4, <2>5
<1>9. owners' \subseteq Operators
  BY <1>1 DEF Rehash, LiveRoles, AdvanceTOTPStep, WriteUser, WriteAssignment,
              StageTOTPSecret, ConfirmTOTP, Shape, Good, Fits
<1>10. challenges' \subseteq [who : Operators, pw : Nat]
  BY <1>1, <1>3 DEF Rehash, LiveRoles, AdvanceTOTPStep, WriteUser, WriteAssignment,
              StageTOTPSecret, ConfirmTOTP, Shape, Request
<1>11. enrolments' \in [Operators -> Seq(Nat)]
  <2>1. CASE ConfirmTOTP(p)
    <3>1. r.code.secret \in Nat
      BY <1>1 DEF Request, Codes
    <3> QED
      BY <1>3, <2>1, <3>1 DEF ConfirmTOTP, Shape
  <2>2. CASE ~ConfirmTOTP(p)
    BY <2>2 DEF Rehash, LiveRoles, AdvanceTOTPStep, WriteUser, WriteAssignment,
                StageTOTPSecret, Shape
  <2> QED
    BY <2>1, <2>2
<1> QED
  BY <1>2, <1>7, <1>8, <1>9, <1>10, <1>11 DEF Shape, RequestShape

(* The steps that write refresh tokens.                                    *)
LEMMA TokensKeepShape ==
    ASSUME Shape, NEW p \in Procs,
           \/ BeginSession(p) \/ ConsumeRefresh(p) \/ AppendRefresh(p) \/ RevokeRefreshFamily(p)
    PROVE  Shape' /\ Len(tokens') >= Len(tokens)
<1> DEFINE r == req[p]
           n == Len(tokens)
<1>1. r \in Request /\ Good(r) /\ r.who \in Operators
  BY DEF Shape, Good, Fits, BeginSession, ConsumeRefresh, AppendRefresh, RevokeRefreshFamily
<1>2. n \in Nat /\ tokens \in Seq(TokenRow(n))
  BY DEF Shape
<1>0. ASSUME NEW t \in 1 .. n
      PROVE  /\ tokens[t] \in TokenRow(n)
             /\ tokens[t].family \in 1 .. n
             /\ [tokens[t] EXCEPT !.used = TRUE] \in TokenRow(n)
             /\ [tokens[t] EXCEPT !.revoked = TRUE] \in TokenRow(n)
  <2> HIDE DEF n
  <2>1. tokens[t] \in TokenRow(n)
    BY <1>2, <1>0 DEF n
  <2> QED
    BY <2>1 DEF TokenRow
<1>3. ASSUME NEW m \in Nat, n <= m PROVE TokenRow(n) \subseteq TokenRow(m)
  BY <1>2, <1>3 DEF TokenRow
<1>4. ASSUME Len(tokens') \in Nat, n <= Len(tokens'), tokens' \in Seq(TokenRow(Len(tokens'))),
             killed' \subseteq 1 .. Len(tokens'),
             access' \subseteq [who : Operators, epoch : Nat, cuts : Nat, pw : Nat],
             RequestShape', UNCHANGED <<users, owners, challenges, enrolments, cuts>>
      PROVE  Shape' /\ Len(tokens') >= Len(tokens)
  BY <1>2, <1>4 DEF Shape, RequestShape
<1>5. CASE BeginSession(p) \/ AppendRefresh(p)
  <2>1. PICK f \in 1 .. n + 1 : tokens' = Append(tokens, Link(r, f))
    <3>1. CASE BeginSession(p)
      BY <1>2, <3>1 DEF BeginSession, Root
    <3>2. CASE AppendRefresh(p)
      <4>1. r.tok \in 1 .. n
        BY <1>1, <3>2 DEF AppendRefresh, Good, Fits, Rotation
      <4>2. tokens[r.tok].family \in 1 .. n
        BY <1>0, <4>1
      <4> QED
        BY <1>2, <3>2, <4>2 DEF AppendRefresh
    <3> QED
      BY <1>5, <3>1, <3>2
  <2>2. Link(r, f) \in TokenRow(n + 1)
    BY <1>1, <1>2, <2>1 DEF Link, TokenRow, Request
  <2>3. tokens \in Seq(TokenRow(n + 1))
    <3>1. TokenRow(n) \subseteq TokenRow(n + 1)
      BY <1>2, <1>3
    <3> QED
      BY <1>2, <3>1
  <2>4. tokens' \in Seq(TokenRow(n + 1)) /\ Len(tokens') = n + 1
    BY <2>1, <2>2, <2>3
  <2>5. RequestShape'
    BY <1>2, <1>5, <2>4, DoneKeeps DEF BeginSession, AppendRefresh
  <2>6. Minted(r) \in [who : Operators, epoch : Nat, cuts : Nat, pw : Nat]
    BY <1>1 DEF Minted, Request
  <2> QED
    BY <1>2, <1>4, <1>5, <2>4, <2>5, <2>6 DEF BeginSession, AppendRefresh, Shape
<1>6. CASE ConsumeRefresh(p)
  <2>1. r.op = "refresh" /\ r.tok \in 1 .. n
    BY <1>1, <1>6 DEF ConsumeRefresh, Good, Fits, Rotation
  <2>2. tokens' \in Seq(TokenRow(n)) /\ Len(tokens') = n
    <3>1. [tokens[r.tok] EXCEPT !.used = TRUE] \in TokenRow(n)
      BY <1>0, <2>1
    <3> QED
      BY <1>2, <1>6, <2>1, <3>1 DEF ConsumeRefresh
  <2>3. \A l \in {"kill", "row"} : l \in Labels /\ Fits([req[p] EXCEPT !.pc = l])
    BY <1>1, <2>1 DEF Labels, Good, Fits, Request, Rotation
  <2>4. ASSUME NEW l \in {"kill", "row"} PROVE Good([req[p] EXCEPT !.pc = l])
    BY <2>3, GotoGood
  <2>5. RequestShape'
    <3>1. PICK l \in {"kill", "row"} : Goto(p, l)
      BY <1>6 DEF ConsumeRefresh
    <3>2. PICK x : Good(x) /\ Set(p, x)
      BY <2>4, <3>1
    <3>3. Good(x)' /\ Len(tokens') \in Nat /\ Len(tokens) <= Len(tokens')
      BY <1>2, <2>2, <3>2 DEF Good
    <3> QED
      BY <3>2, <3>3, SetKeeps
  <2> QED
    BY <1>2, <1>4, <1>6, <2>2, <2>5 DEF ConsumeRefresh, Shape
<1>7. CASE RevokeRefreshFamily(p)
  <2>1. r.tok \in 1 .. n
    BY <1>1, <1>7 DEF RevokeRefreshFamily, Good, Fits, Rotation
  <2>2. tokens[r.tok].family \in 1 .. n
    BY <1>0, <2>1
  <2>3. ASSUME NEW t \in 1 .. n PROVE [tokens[t] EXCEPT !.revoked = TRUE] \in TokenRow(n)
    BY <1>0, <2>3
  <2>4. tokens' \in [1 .. n -> TokenRow(n)]
    BY <1>0, <1>2, <1>7, <2>3 DEF RevokeRefreshFamily
  <2>5. tokens' \in Seq(TokenRow(n)) /\ Len(tokens') = n
    BY <1>2, <2>4, FunctionIsSeq
  <2>6. RequestShape'
    <3>1. Done(p)
      BY <1>7 DEF RevokeRefreshFamily
    <3>2. Len(tokens') \in Nat /\ Len(tokens) <= Len(tokens')
      BY <1>2, <2>5
    <3> QED
      BY <3>1, <3>2, DoneKeeps
  <2>7. killed' \subseteq 1 .. n /\ UNCHANGED <<users, owners, access, challenges, enrolments, cuts>>
    BY <1>7, <2>2 DEF RevokeRefreshFamily, Shape
  <2> QED
    BY <1>2, <1>4, <2>5, <2>6, <2>7 DEF Shape
<1> QED
  BY <1>5, <1>6, <1>7

LEMMA ShapeKeeps == Shape /\ [Next]_vars => Shape'
<1> SUFFICES ASSUME Shape, [Next]_vars PROVE Shape'
  OBVIOUS
<1>1. CASE UNCHANGED vars
  BY <1>1, ShapeFrame DEF vars, Shape, RequestShape
<1>2. CASE Next
  BY <1>2, ArrivalsKeepShape, AnswersKeepShape, WritesKeepShape, TokensKeepShape, Zenon
     DEF Next, Step
<1> QED
  BY <1>1, <1>2

(* Whatever is interleaved, every row, token, challenge and counter has    *)
(* the shape the code gives it, and every request has found out what its   *)
(* place in its handler says it has.                                       *)
THEOREM ShapeHolds == Spec => []Shape
  BY StartShape, ShapeKeeps, PTL DEF Spec

(* Every row, token, challenge and counter has the shape the code gives it.*)
THEOREM TypeCorrect == Spec => []TypeOK
<1>1. Shape => TypeOK
  <2>1. ASSUME Shape PROVE DOMAIN tokens = 1 .. Len(tokens)
    BY <2>1 DEF Shape
  <2> QED
    BY <2>1, Zenon DEF Shape, TypeOK, TokenRow, UserRow
<1> QED
  BY <1>1, ShapeHolds, PTL

-----------------------------------------------------------------------------
(* Epochs.                                                                 *)

LEMMA StartLockstep == Init => Lockstep
<1> SUFFICES ASSUME Init PROVE Lockstep
  OBVIOUS
<1>1. \A o \in Operators : users[o].epoch = cuts[o]
  BY DEF Init, User
<1>2. \A a \in access : a.epoch = a.cuts
  BY SignedInRequest DEF Init, Minted
<1>3. \A p \in Procs : req[p].op = "none"
  BY DEF Init, Idle
<1> QED
  BY <1>1, <1>2, <1>3 DEF Lockstep, Doors, Even

-----------------------------------------------------------------------------
(* What a step makes of its request, as far as the other parts of the      *)
(* invariant tell: it leaves the rotation or the sign-in it was in, or it  *)
(* moves on within it.                                                     *)

Others(p) == \A q \in Procs : q # p => req'[q] = req[q]

Out(p) == Others(p) /\ Even(req'[p]) /\ ~InRotation(p)' /\ ~Accepted(p)'

Stays(p) ==
    /\ Others(p) /\ Even(req'[p])
    /\ InRotation(p)' => InRotation(p)
    /\ Accepted(p)' => Accepted(p)
    /\ req'[p].who = req[p].who /\ req'[p].tok = req[p].tok /\ req'[p].code = req[p].code

LEMMA SetFacts ==
    ASSUME Shape, NEW p \in Procs, NEW r, Set(p, r)
    PROVE  req'[p] = r /\ Others(p)
  BY DEF Shape, Others

LEMMA DoneIsOut ==
    ASSUME Shape, NEW p \in Procs, Done(p)
    PROVE  Out(p)
<1> DEFINE r == [Idle EXCEPT !.pc = "done"]
<1>1. r.op = "none"
  BY DEF Idle
<1>2. req'[p] = r /\ Others(p)
  BY SetFacts
<1> HIDE DEF r
<1> QED
  BY <1>1, <1>2 DEF Out, Even, InRotation, Accepted, Doors

LEMMA ArrivalIsOut ==
    ASSUME Shape, NEW p \in Procs,
           \/ \E o \in Operators : Login(p, o)
           \/ \E c \in challenges : VerifyMFA(p, c)
           \/ \E op \in Rotation, t \in DOMAIN tokens : Present(p, op, t)
           \/ \E op \in Admin \cup Own, a \in access, o \in Operators : Call(p, op, a, o)
    PROVE  Out(p)
<1>1. Idle \in Request /\ Idle.epoch = Idle.cuts
  BY IdleRequest DEF Idle
<1>2. CASE \E o \in Operators : Login(p, o)
  <2>1. PICK o \in Operators : Login(p, o)
    BY <1>2
  <2> DEFINE r == [Idle EXCEPT !.op = "login", !.pc = "password", !.who = o]
  <2>2. r.epoch = r.cuts /\ r.pc = "password"
    BY <1>1 DEF Request
  <2>3. req'[p] = r /\ Others(p)
    BY <2>1, SetFacts DEF Login
  <2> HIDE DEF r
  <2> QED
    BY <2>2, <2>3 DEF Out, Even, InRotation, Accepted
<1>3. CASE \E c \in challenges : VerifyMFA(p, c)
  <2>1. PICK c \in challenges : VerifyMFA(p, c)
    BY <1>3
  <2> DEFINE r == [Idle EXCEPT !.op = "mfa", !.pc = "row", !.who = c.who, !.pw = c.pw]
  <2>2. r.epoch = r.cuts /\ r.pc = "row" /\ r.op = "mfa"
    BY <1>1 DEF Request
  <2>3. req'[p] = r /\ Others(p)
    BY <2>1, SetFacts DEF VerifyMFA
  <2> HIDE DEF r
  <2> QED
    BY <2>2, <2>3 DEF Out, Even, InRotation, Accepted
<1>4. CASE \E op \in Rotation, t \in DOMAIN tokens : Present(p, op, t)
  <2>1. PICK op \in Rotation, t \in DOMAIN tokens : Present(p, op, t)
    BY <1>4
  <2> DEFINE r == [Idle EXCEPT !.op = op, !.pc = "lookup", !.tok = t]
  <2>2. r.epoch = r.cuts /\ r.pc = "lookup"
    BY <1>1 DEF Request
  <2>3. req'[p] = r /\ Others(p)
    BY <2>1, SetFacts DEF Present
  <2> HIDE DEF r
  <2> QED
    BY <2>2, <2>3 DEF Out, Even, InRotation, Accepted
<1>5. CASE \E op \in Admin \cup Own, a \in access, o \in Operators : Call(p, op, a, o)
  <2>1. PICK op \in Admin \cup Own, a \in access, o \in Operators : Call(p, op, a, o)
    BY <1>5
  <2> DEFINE l == CASE op = "begin_totp"   -> "stage"
                    [] op = "confirm_totp" -> "secret"
                    [] OTHER               -> "standing"
             r == [Idle EXCEPT !.op = op, !.who = a.who, !.target = o, !.epoch = a.epoch,
                       !.pc = l]
  <2>2. Set(p, r)
    BY <2>1, Zenon DEF Call
  <2> HIDE DEF l
  <2>3. r.op = op
    BY <1>1 DEF Request
  <2>4. req'[p] = r /\ Others(p)
    BY <2>2, SetFacts
  <2> HIDE DEF r
  <2> QED
    BY <2>3, <2>4 DEF Out, Even, InRotation, Accepted, Admin, Own, Doors
<1> QED
  BY <1>2, <1>3, <1>4, <1>5

LEMMA GotoStays ==
    ASSUME Shape, Lockstep, NEW p \in Procs, NEW l, Goto(p, l),
           l \in {"row", "roles", "append"} => InRotation(p) \/ req[p].op # "refresh",
           l \in {"roles", "open"} => Accepted(p) \/ req[p].op # "mfa"
    PROVE  Stays(p)
<1> DEFINE r == [req[p] EXCEPT !.pc = l]
<1>1. req[p] \in Request /\ Even(req[p])
  BY DEF Shape, Lockstep
<1>2. /\ r.pc = l /\ r.op = req[p].op /\ r.who = req[p].who /\ r.tok = req[p].tok
      /\ r.code = req[p].code /\ r.epoch = req[p].epoch /\ r.cuts = req[p].cuts
  BY <1>1 DEF Request
<1>3. req'[p] = r /\ Others(p)
  BY SetFacts
<1> HIDE DEF r
<1> QED
  BY <1>1, <1>2, <1>3 DEF Stays, Even, InRotation, Accepted

(* The steps that read, and the two that write what no later part of the   *)
(* invariant depends on.                                                   *)
LEMMA QuietSteps ==
    ASSUME Shape, Lockstep, NEW p \in Procs,
           \/ DbError(p) \/ CheckPassword(p) \/ WrongPassword(p) \/ ReadRow(p) \/ Lookup(p)
           \/ Standing(p) \/ Authority(p) \/ VerifyCurrent(p) \/ LastOwnerCheck(p)
           \/ (\E k \in 0 .. MaxStep : VerifyCode(p, k)) \/ Rehash(p) \/ LiveRoles(p)
    PROVE  Out(p) \/ Stays(p)
<1> DEFINE r == req[p]
<1>1. r \in Request /\ Fits(r) /\ Even(r)
  BY DEF Shape, Lockstep
<1>2. CASE Done(p)
  BY <1>2, DoneIsOut
<1>3. CASE DbError(p) \/ WrongPassword(p)
  BY <1>2, <1>3 DEF DbError, WrongPassword
<1>4. CASE CheckPassword(p) /\ ~Done(p)
  <2> DEFINE u == users[r.who]
             x == [Reading(r) EXCEPT !.pw = u.pw, !.enrolled = u.enrolled,
                        !.pc = IF u.behind THEN "rehash" ELSE "roles"]
  <2>1. r.op = "login" /\ r.who \in Operators
    BY <1>1, <1>4 DEF CheckPassword, Fits
  <2>2. x.op = "login" /\ x.epoch = users[r.who].epoch /\ x.cuts = cuts[r.who]
    BY <1>1, <2>1 DEF Reading, Request
  <2>3. x.epoch = x.cuts
    BY <2>1, <2>2 DEF Lockstep
  <2> HIDE DEF x
  <2>4. Set(p, x)
    BY <1>4, Zenon DEF CheckPassword, x
  <2>5. req'[p] = x /\ Others(p)
    BY <2>4, SetFacts
  <2> QED
    BY <2>2, <2>3, <2>5 DEF Out, Even, InRotation, Accepted
<1>5. CASE ReadRow(p) /\ ~Done(p)
  <2> DEFINE x == [Reading(r) EXCEPT !.pc = IF r.op = "mfa" THEN "secret" ELSE "roles"]
  <2>1. r.op \in {"mfa", "refresh"} /\ r.who \in Operators /\ r.pc = "row"
    BY <1>1, <1>5 DEF ReadRow, Fits
  <2>2. /\ x.op = r.op /\ x.who = r.who /\ x.tok = r.tok /\ x.code = r.code
        /\ x.pc = (IF r.op = "mfa" THEN "secret" ELSE "roles")
        /\ x.epoch = users[r.who].epoch /\ x.cuts = cuts[r.who]
    BY <1>1 DEF Reading, Request
  <2>3. x.epoch = x.cuts
    BY <2>1, <2>2 DEF Lockstep
  <2> HIDE DEF x
  <2>4. Set(p, x)
    BY <1>5, Zenon DEF ReadRow, x
  <2>5. req'[p] = x /\ Others(p)
    BY <2>4, SetFacts
  <2> QED
    BY <2>1, <2>2, <2>3, <2>5 DEF Stays, Even, InRotation, Accepted
<1>6. CASE (\E k \in 0 .. MaxStep : VerifyCode(p, k)) /\ ~Done(p)
  <2>1. PICK k \in 0 .. MaxStep : VerifyCode(p, k)
    BY <1>6
  <2> DEFINE sec == users[r.who].secret
             x == [r EXCEPT !.code = [secret |-> sec, step |-> k, enrolment |-> 0],
                        !.pc = IF r.op = "mfa" THEN "advance" ELSE "confirm"]
  <2>2. /\ x.op = r.op /\ x.epoch = r.epoch /\ x.cuts = r.cuts
        /\ x.pc \in {"advance", "confirm"}
    BY <1>1 DEF Request
  <2> HIDE DEF x
  <2>3. Set(p, x)
    BY <1>6, <2>1, Zenon DEF VerifyCode, x
  <2>4. req'[p] = x /\ Others(p)
    BY <2>3, SetFacts
  <2> QED
    BY <1>1, <2>2, <2>4 DEF Out, Even, InRotation, Accepted
<1>7. CASE Lookup(p)
  <2> DEFINE t == tokens[r.tok]
             x == [r EXCEPT !.who = t.who, !.pw = t.pw, !.code = t.code,
                   !.pc = IF r.op = "logout" \/ Spent(r.tok) THEN "kill" ELSE "consume"]
  <2>1. /\ x.op = r.op /\ x.epoch = r.epoch /\ x.cuts = r.cuts
        /\ x.pc \in {"kill", "consume"}
    BY <1>1 DEF Request
  <2> HIDE DEF x
  <2>2. Set(p, x)
    BY <1>7, Zenon DEF Lookup, x
  <2>3. req'[p] = x /\ Others(p)
    BY <2>2, SetFacts
  <2> QED
    BY <1>1, <2>1, <2>3 DEF Out, Even, InRotation, Accepted
<1>8. CASE Standing(p) \/ Authority(p) \/ VerifyCurrent(p) \/ LastOwnerCheck(p)
  <2>1. Done(p) \/ \E l \in {"current", "authority", "count", "write"} : Goto(p, l)
    BY <1>8 DEF Standing, Authority, VerifyCurrent, LastOwnerCheck
  <2> QED
    BY <1>2, <2>1, GotoStays
<1>9. CASE Rehash(p)
  <2>1. Goto(p, "roles") /\ r.op = "login"
    BY <1>1, <1>9 DEF Rehash, Fits
  <2> QED
    BY <2>1, GotoStays
<1>10. CASE LiveRoles(p) /\ ~Done(p)
  <2>1. r.pc = "roles" /\ Goto(p, IF r.op = "refresh" THEN "append" ELSE "open")
    BY <1>10 DEF LiveRoles
  <2>2. CASE r.op = "refresh"
    BY <2>1, <2>2, GotoStays DEF InRotation
  <2>3. CASE r.op # "refresh"
    BY <2>1, <2>3, GotoStays DEF Accepted
  <2> QED
    BY <2>2, <2>3
<1> QED
  BY <1>2, <1>3, <1>4, <1>5, <1>6, <1>7, <1>8, <1>9, <1>10

(* The two steps that begin something: a rotation, an accepted code.       *)
LEMMA ConsumeMoves ==
    ASSUME Shape, Lockstep, NEW p \in Procs, ConsumeRefresh(p)
    PROVE  /\ Others(p) /\ Even(req'[p]) /\ ~Accepted(p)'
           /\ req'[p].tok = req[p].tok /\ req[p].tok \in 1 .. Len(tokens)
           /\ InRotation(p)' => ~Spent(req[p].tok)
           /\ tokens' = IF Spent(req[p].tok) THEN tokens
                        ELSE [tokens EXCEPT ![req[p].tok].used = TRUE]
<1> DEFINE r == req[p]
           l == IF Spent(r.tok) THEN "kill" ELSE "row"
           x == [r EXCEPT !.pc = l]
<1>1. r \in Request /\ Even(r) /\ r.op = "refresh" /\ r.tok \in 1 .. Len(tokens)
  BY DEF Shape, Lockstep, ConsumeRefresh, Fits, Rotation
<1>2. /\ x.pc = l /\ x.op = r.op /\ x.tok = r.tok /\ x.epoch = r.epoch /\ x.cuts = r.cuts
  BY <1>1 DEF Request
<1>3. Set(p, x)
  BY DEF ConsumeRefresh
<1> HIDE DEF x
<1>4. req'[p] = x /\ Others(p)
  BY <1>3, SetFacts
<1>5. tokens' = IF Spent(r.tok) THEN tokens ELSE [tokens EXCEPT ![r.tok].used = TRUE]
  BY DEF ConsumeRefresh
<1> QED
  BY <1>1, <1>2, <1>4, <1>5 DEF Even, InRotation, Accepted

LEMMA AdvanceMoves ==
    ASSUME Shape, Lockstep, NEW p \in Procs, AdvanceTOTPStep(p)
    PROVE  /\ Others(p) /\ Even(req'[p]) /\ ~InRotation(p)'
           /\ req[p].who \in Operators
           /\ Accepted(p)' => /\ req'[p].who = req[p].who
                              /\ req'[p].code.step = req[p].code.step
                              /\ req'[p].code.enrolment = Len(enrolments[req[p].who])
                              /\ Newer(p)
           /\ users' = IF Newer(p) THEN [users EXCEPT ![req[p].who].step = req[p].code.step]
                       ELSE users
<1> DEFINE r == req[p]
           x == [r EXCEPT !.code.enrolment = Len(enrolments[r.who]), !.pc = "roles"]
<1>1. r \in Request /\ Even(r) /\ r.op = "mfa" /\ r.who \in Operators
  BY DEF Shape, Lockstep, AdvanceTOTPStep, Fits
<1>2. users' = IF Newer(p) THEN [users EXCEPT ![r.who].step = r.code.step] ELSE users
  BY DEF AdvanceTOTPStep
<1>3. CASE ~Newer(p)
  <2>1. Done(p)
    BY <1>3 DEF AdvanceTOTPStep
  <2> QED
    BY <1>1, <1>2, <2>1, DoneIsOut DEF Out
<1>4. CASE Newer(p)
  <2>1. /\ x.op = "mfa" /\ x.who = r.who /\ x.epoch = r.epoch /\ x.cuts = r.cuts
        /\ x.code.step = r.code.step /\ x.code.enrolment = Len(enrolments[r.who])
    BY <1>1 DEF Request, Codes
  <2> HIDE DEF x
  <2>2. Set(p, x)
    BY <1>4 DEF AdvanceTOTPStep, x
  <2>3. req'[p] = x /\ Others(p)
    BY <2>2, SetFacts
  <2> QED
    BY <1>1, <1>2, <1>4, <2>1, <2>3 DEF Even, InRotation, Accepted
<1> QED
  BY <1>3, <1>4

(* What the statements on platform_users leave alone.                      *)
LEMMA RowWrites ==
    ASSUME Shape, NEW p \in Procs
    PROVE  /\ Rehash(p) \/ StageTOTPSecret(p) =>
                 \A o \in Operators : /\ users'[o].epoch = users[o].epoch
                                      /\ users'[o].pw = users[o].pw
                                      /\ users'[o].step = users[o].step
           /\ ConfirmTOTP(p) \/ AdvanceTOTPStep(p) =>
                 \A o \in Operators : /\ users'[o].epoch = users[o].epoch
                                      /\ users'[o].pw = users[o].pw
                                      /\ o # req[p].who => users'[o].step = users[o].step
           /\ WriteUser(p) =>
                 \A o \in Operators : /\ users'[o].pw >= users[o].pw
                                      /\ users'[o].step = users[o].step
                                      /\ users[o].epoch = cuts[o] => users'[o].epoch = cuts'[o]
<1> USE DEF Shape
<1>1. ASSUME NEW o \in Operators
      PROVE  users[o] \in UserRow /\ users[o].pw \in Nat /\ users[o].epoch \in Nat /\ cuts[o] \in Nat
  BY DEF UserRow
<1>2. ASSUME Rehash(p), NEW o \in Operators
      PROVE  /\ users'[o].epoch = users[o].epoch /\ users'[o].pw = users[o].pw
             /\ users'[o].step = users[o].step
  <2> DEFINE a == req[p].who
  <2>1. \/ users' = users
        \/ /\ users[a].pw = req[p].pw
           /\ users' = [users EXCEPT ![a].pw = req[p].pw, ![a].behind = FALSE]
    BY <1>2, Zenon DEF Rehash, StillVerified
  <2> HIDE DEF a
  <2>2. users \in [Operators -> UserRow]
    OBVIOUS
  <2> HIDE DEF Shape
  <2> QED
    BY <1>1, <2>1, <2>2 DEF UserRow
<1>3. ASSUME StageTOTPSecret(p), NEW o \in Operators
      PROVE  /\ users'[o].epoch = users[o].epoch /\ users'[o].pw = users[o].pw
             /\ users'[o].step = users[o].step
  BY <1>1, <1>3 DEF StageTOTPSecret, UserRow
<1>4. ASSUME ConfirmTOTP(p), NEW o \in Operators
      PROVE  /\ users'[o].epoch = users[o].epoch /\ users'[o].pw = users[o].pw
             /\ o # req[p].who => users'[o].step = users[o].step
  BY <1>1, <1>4 DEF ConfirmTOTP, UserRow
<1>5. ASSUME AdvanceTOTPStep(p), NEW o \in Operators
      PROVE  /\ users'[o].epoch = users[o].epoch /\ users'[o].pw = users[o].pw
             /\ o # req[p].who => users'[o].step = users[o].step
  <2> DEFINE a == req[p].who
  <2>1. users' = users \/ users' = [users EXCEPT ![a].step = req[p].code.step]
    BY <1>5 DEF AdvanceTOTPStep
  <2>2. users \in [Operators -> UserRow]
    OBVIOUS
  <2> HIDE DEF a, Shape
  <2> QED
    BY <1>1, <2>1, <2>2 DEF UserRow, a
<1>6. ASSUME WriteUser(p), NEW o \in Operators
      PROVE  /\ users'[o].pw >= users[o].pw /\ users'[o].step = users[o].step
             /\ users[o].epoch = cuts[o] => users'[o].epoch = cuts'[o]
  <2>1. CASE o # req[p].target
    BY <1>1, <1>6, <2>1 DEF WriteUser
  <2>2. CASE o = req[p].target
    <3> DEFINE u == users[o]
    <3>1. /\ cuts'[o] = IF req[p].op = "enable" THEN cuts[o] ELSE cuts[o] + 1
          /\ users'[o] = CASE req[p].op = "disable" -> Disabled(u)
                           [] req[p].op = "enable"  -> Enabled(u)
                           [] OTHER                 -> NewPassword(u)
      BY <1>6, <2>2 DEF WriteUser
    <3>2. /\ Disabled(u).epoch = u.epoch + 1 /\ Disabled(u).pw = u.pw /\ Disabled(u).step = u.step
          /\ Enabled(u).epoch = u.epoch /\ Enabled(u).pw = u.pw /\ Enabled(u).step = u.step
          /\ NewPassword(u).epoch = u.epoch + 1 /\ NewPassword(u).pw = u.pw + 1
          /\ NewPassword(u).step = u.step
      BY <1>1 DEF Disabled, Enabled, NewPassword, UserRow
    <3> HIDE DEF u
    <3> QED
      BY <1>1, <3>1, <3>2 DEF u
  <2> QED
    BY <2>1, <2>2
<1> QED
  BY <1>2, <1>3, <1>4, <1>5, <1>6, Zenon

LEMMA LockstepFrame ==
    ASSUME Lockstep, NEW p \in Procs, Others(p), Even(req'[p]), access' = access,
           \A o \in Operators : users[o].epoch = cuts[o] => users'[o].epoch = cuts'[o]
    PROVE  Lockstep'
  BY DEF Lockstep, Others

(* A step leaves the epochs alone, or counts a cut with it.                *)
LEMMA LockstepKeeps ==
    ASSUME Shape, Lockstep, NEW p \in Procs, Step(p)
    PROVE  Lockstep'
<1>1. ASSUME Out(p), access' = access,
             \A o \in Operators : users[o].epoch = cuts[o] => users'[o].epoch = cuts'[o]
      PROVE  Lockstep'
  BY <1>1, LockstepFrame DEF Out
<1>2. CASE \/ DbError(p) \/ CheckPassword(p) \/ WrongPassword(p) \/ ReadRow(p) \/ Lookup(p)
           \/ Standing(p) \/ Authority(p) \/ VerifyCurrent(p) \/ LastOwnerCheck(p)
           \/ (\E k \in 0 .. MaxStep : VerifyCode(p, k)) \/ Rehash(p) \/ LiveRoles(p)
  <2>1. Others(p) /\ Even(req'[p])
    BY <1>2, QuietSteps DEF Out, Stays
  <2>2. UNCHANGED <<access, cuts>> /\ (users' = users \/ Rehash(p))
    BY <1>2 DEF DbError, CheckPassword, WrongPassword, ReadRow, Lookup, Standing, Authority,
                VerifyCurrent, LastOwnerCheck, VerifyCode, Rehash, LiveRoles
  <2> QED
    BY <2>1, <2>2, RowWrites, LockstepFrame
<1>3. CASE ConsumeRefresh(p)
  BY <1>3, ConsumeMoves, LockstepFrame DEF ConsumeRefresh
<1>4. CASE AdvanceTOTPStep(p)
  <2>1. UNCHANGED <<access, cuts>>
    BY <1>4 DEF AdvanceTOTPStep
  <2> QED
    BY <1>4, <2>1, AdvanceMoves, RowWrites, LockstepFrame
<1>5. CASE RevokeRefreshFamily(p) \/ WriteAssignment(p)
  <2>1. Done(p) /\ UNCHANGED <<users, access, cuts>>
    BY <1>5 DEF RevokeRefreshFamily, WriteAssignment
  <2> QED
    BY <1>1, <2>1, DoneIsOut
<1>6. CASE WriteUser(p) \/ StageTOTPSecret(p) \/ ConfirmTOTP(p)
  <2>1. Done(p) /\ UNCHANGED access /\ (cuts' = cuts \/ WriteUser(p))
    BY <1>6 DEF WriteUser, StageTOTPSecret, ConfirmTOTP
  <2> QED
    BY <1>1, <1>6, <2>1, DoneIsOut, RowWrites
<1>7. CASE BeginSession(p) \/ AppendRefresh(p)
  <2>1. Done(p) /\ access' = access \cup {Minted(req[p])} /\ UNCHANGED <<users, cuts>>
    BY <1>7 DEF BeginSession, AppendRefresh
  <2>2. Minted(req[p]).epoch = Minted(req[p]).cuts
    BY <1>7 DEF BeginSession, AppendRefresh, Shape, Fits, Lockstep, Even, Minted
  <2>3. Out(p)
    BY <2>1, DoneIsOut
  <2> QED
    BY <2>1, <2>2, <2>3 DEF Lockstep, Out, Others
<1> QED
  BY <1>2, <1>3, <1>4, <1>5, <1>6, <1>7 DEF Step

-----------------------------------------------------------------------------
(* One usable token of a family.                                           *)

LEMMA StartFamilies == Init => OneOfAFamily
<1> SUFFICES ASSUME Init PROVE OneOfAFamily
  OBVIOUS
<1>1. PICK order \in [1 .. Cardinality(Operators) -> Operators] :
         tokens = [i \in DOMAIN order |-> Link(SignedIn(order[i]), i)]
  BY DEF Init
<1>2. \A t \in DOMAIN tokens : tokens[t].family = t
  BY <1>1 DEF Link
<1>3. \A p \in Procs : req[p].op = "none"
  BY DEF Init, Idle
<1> QED
  BY <1>2, <1>3 DEF OneOfAFamily, InRotation

LEMMA FamiliesFrame ==
    ASSUME Shape, OneOfAFamily, NEW p \in Procs, Others(p), tokens' = tokens,
           InRotation(p)' => InRotation(p) /\ req'[p].tok = req[p].tok
    PROVE  OneOfAFamily'
<1>1. ASSUME NEW q \in Procs, InRotation(q)'
      PROVE  InRotation(q) /\ FamilyOf(q)' = FamilyOf(q)
  BY <1>1 DEF Others, InRotation, FamilyOf
<1>2. \A t \in DOMAIN tokens : Spent(t)' = Spent(t)
  BY DEF Spent
<1> QED
  BY <1>1, <1>2, SMTT(30) DEF OneOfAFamily

LEMMA ConsumeKeepsFamilies ==
    ASSUME Shape, Lockstep, OneOfAFamily, NEW p \in Procs, ConsumeRefresh(p)
    PROVE  OneOfAFamily'
<1> DEFINE k == req[p].tok
           n == Len(tokens)
<1>1. n \in Nat /\ tokens \in Seq(TokenRow(n)) /\ k \in 1 .. n /\ DOMAIN tokens = 1 .. n
  <2>1. k \in 1 .. n
    BY ConsumeMoves
  <2> QED
    BY <2>1 DEF Shape
<1>2. CASE Spent(k)
  BY <1>2, ConsumeMoves, FamiliesFrame
<1>3. CASE ~Spent(k)
  <2>1. tokens' = [tokens EXCEPT ![k].used = TRUE] /\ DOMAIN tokens' = DOMAIN tokens
    BY <1>1, <1>3, ConsumeMoves
  <2>2. ASSUME NEW t \in 1 .. n
        PROVE  tokens'[t].family = tokens[t].family /\ Spent(t)' = (Spent(t) \/ t = k)
    <3>1. tokens[t] \in TokenRow(n)
      BY <1>1
    <3> QED
      BY <1>1, <2>1, <3>1 DEF Spent, TokenRow
  <2>3. ASSUME NEW q \in Procs, InRotation(q)'
        PROVE  /\ q = p \/ InRotation(q)
               /\ req'[q].tok \in 1 .. n
               /\ FamilyOf(q)' = IF q = p THEN tokens[k].family ELSE FamilyOf(q)
    <3>1. req'[q].tok = req[q].tok /\ (q = p \/ InRotation(q))
      BY <2>3, ConsumeMoves DEF Others, InRotation
    <3>2. req'[q].tok \in 1 .. n
      BY <1>1, <3>1 DEF InRotation, Shape, Rotation
    <3> QED
      BY <2>2, <3>1, <3>2 DEF FamilyOf
  <2>4. \A s, t \in 1 .. n :
          ~Spent(s)' /\ ~Spent(t)' /\ tokens'[s].family = tokens'[t].family => s = t
    BY <1>1, <2>2 DEF OneOfAFamily
  <2>5. \A q, z \in Procs :
          InRotation(q)' /\ InRotation(z)' /\ FamilyOf(q)' = FamilyOf(z)' => q = z
    BY <1>1, <1>3, <2>3 DEF OneOfAFamily
  <2>6. \A t \in 1 .. n, q \in Procs :
          ~Spent(t)' /\ InRotation(q)' => tokens'[t].family # FamilyOf(q)'
    <3> SUFFICES ASSUME NEW t \in 1 .. n, NEW q \in Procs, ~Spent(t)', InRotation(q)'
                 PROVE  tokens'[t].family # FamilyOf(q)'
      OBVIOUS
    <3>1. tokens'[t].family = tokens[t].family /\ ~Spent(t) /\ t # k
      BY <2>2
    <3>2. CASE q = p
      BY <1>1, <1>3, <2>3, <3>1, <3>2 DEF OneOfAFamily
    <3>3. CASE q # p
      BY <1>1, <2>3, <3>1, <3>3 DEF OneOfAFamily
    <3> QED
      BY <3>2, <3>3
  <2> QED
    BY <1>1, <2>1, <2>4, <2>5, <2>6 DEF OneOfAFamily
<1> QED
  BY <1>2, <1>3

(* A new token: the root of a family of its own, or the successor that the *)
(* rotation of a family puts in its own place.                             *)
LEMMA NewTokenKeepsFamilies ==
    ASSUME Shape, OneOfAFamily, NEW p \in Procs, BeginSession(p) \/ AppendRefresh(p)
    PROVE  OneOfAFamily'
<1> DEFINE n == Len(tokens)
           f == IF AppendRefresh(p) THEN FamilyOf(p) ELSE n + 1
<1>1. n \in Nat /\ tokens \in Seq(TokenRow(n)) /\ DOMAIN tokens = 1 .. n
  BY DEF Shape
<1>2. \A t \in 1 .. n : tokens[t].family \in 1 .. n
  <2> SUFFICES ASSUME NEW t \in 1 .. n PROVE tokens[t].family \in 1 .. n
    OBVIOUS
  <2>1. tokens[t] \in TokenRow(n)
    BY <1>1
  <2> QED
    BY <2>1 DEF TokenRow
<1>3. Out(p)
  BY DoneIsOut DEF BeginSession, AppendRefresh
<1>4. tokens' = Append(tokens, Link(req[p], f))
  BY DEF BeginSession, AppendRefresh, Root, At, FamilyOf
<1>5. /\ DOMAIN tokens' = 1 .. n + 1 /\ tokens'[n + 1] = Link(req[p], f)
      /\ \A t \in 1 .. n : tokens'[t] = tokens[t]
  BY <1>1, <1>4
<1>6. tokens'[n + 1].family = f /\ \A t \in 1 .. n : Spent(t)' = Spent(t)
  BY <1>5 DEF Link, Spent
<1>7. ASSUME NEW q \in Procs, InRotation(q)'
      PROVE  q # p /\ InRotation(q) /\ FamilyOf(q)' = FamilyOf(q) /\ FamilyOf(q) \in 1 .. n
  <2>1. q # p /\ InRotation(q) /\ req'[q].tok = req[q].tok /\ req[q].tok \in 1 .. n
    BY <1>3, <1>7 DEF Out, Others, InRotation, Shape, Rotation
  <2> QED
    BY <1>2, <1>5, <2>1 DEF FamilyOf
<1>8. AppendRefresh(p) => InRotation(p)
  BY DEF AppendRefresh, InRotation, Shape, Fits
<1>9. /\ \A t \in 1 .. n : ~Spent(t) => tokens[t].family # f
      /\ \A q \in Procs : InRotation(q) /\ q # p /\ FamilyOf(q) \in 1 .. n => FamilyOf(q) # f
  BY <1>1, <1>2, <1>8 DEF OneOfAFamily
<1> HIDE DEF f
<1>10. \A s, t \in 1 .. n + 1 :
          ~Spent(s)' /\ ~Spent(t)' /\ tokens'[s].family = tokens'[t].family => s = t
  BY <1>1, <1>5, <1>6, <1>9 DEF OneOfAFamily
<1>11. \A q, z \in Procs :
          InRotation(q)' /\ InRotation(z)' /\ FamilyOf(q)' = FamilyOf(z)' => q = z
  BY <1>7 DEF OneOfAFamily
<1>12. \A t \in 1 .. n + 1, q \in Procs :
          ~Spent(t)' /\ InRotation(q)' => tokens'[t].family # FamilyOf(q)'
  BY <1>1, <1>5, <1>6, <1>7, <1>9 DEF OneOfAFamily
<1> QED
  BY <1>5, <1>10, <1>11, <1>12 DEF OneOfAFamily

LEMMA RevokeKeepsFamilies ==
    ASSUME Shape, OneOfAFamily, NEW p \in Procs, RevokeRefreshFamily(p)
    PROVE  OneOfAFamily'
<1> DEFINE n == Len(tokens)
<1>1. n \in Nat /\ tokens \in Seq(TokenRow(n)) /\ DOMAIN tokens = 1 .. n
  BY DEF Shape
<1>2. Done(p) /\ DOMAIN tokens' = DOMAIN tokens
  BY DEF RevokeRefreshFamily
<1>3. Out(p)
  BY <1>2, DoneIsOut
<1>4. ASSUME NEW t \in 1 .. n
      PROVE  tokens'[t].family = tokens[t].family /\ (~Spent(t)' => ~Spent(t))
  <2>1. tokens[t] \in TokenRow(n)
    BY <1>1
  <2>2. tokens'[t] = tokens[t] \/ tokens'[t] = [tokens[t] EXCEPT !.revoked = TRUE]
    BY <1>1 DEF RevokeRefreshFamily
  <2> QED
    BY <2>1, <2>2 DEF Spent, TokenRow
<1>5. ASSUME NEW q \in Procs, InRotation(q)'
      PROVE  InRotation(q) /\ FamilyOf(q)' = FamilyOf(q)
  <2>1. InRotation(q) /\ req'[q].tok = req[q].tok /\ req[q].tok \in 1 .. n
    BY <1>3, <1>5 DEF Out, Others, InRotation, Shape, Rotation
  <2> QED
    BY <1>4, <2>1 DEF FamilyOf
<1> QED
  BY <1>1, <1>2, <1>4, <1>5, SMTT(30) DEF OneOfAFamily

LEMMA FamiliesKeep ==
    ASSUME Shape, Lockstep, OneOfAFamily, NEW p \in Procs, Step(p)
    PROVE  OneOfAFamily'
<1>1. CASE \/ DbError(p) \/ CheckPassword(p) \/ WrongPassword(p) \/ ReadRow(p) \/ Lookup(p)
           \/ Standing(p) \/ Authority(p) \/ VerifyCurrent(p) \/ LastOwnerCheck(p)
           \/ (\E k \in 0 .. MaxStep : VerifyCode(p, k)) \/ Rehash(p) \/ LiveRoles(p)
  <2>1. UNCHANGED tokens
    BY <1>1 DEF DbError, CheckPassword, WrongPassword, ReadRow, Lookup, Standing, Authority,
                VerifyCurrent, LastOwnerCheck, VerifyCode, Rehash, LiveRoles
  <2> QED
    BY <1>1, <2>1, QuietSteps, FamiliesFrame DEF Out, Stays
<1>2. CASE AdvanceTOTPStep(p)
  <2>1. UNCHANGED tokens
    BY <1>2 DEF AdvanceTOTPStep
  <2> QED
    BY <1>2, <2>1, AdvanceMoves, FamiliesFrame
<1>3. CASE WriteUser(p) \/ WriteAssignment(p) \/ StageTOTPSecret(p) \/ ConfirmTOTP(p)
  <2>1. Done(p) /\ UNCHANGED tokens
    BY <1>3 DEF WriteUser, WriteAssignment, StageTOTPSecret, ConfirmTOTP
  <2> QED
    BY <2>1, DoneIsOut, FamiliesFrame DEF Out
<1> QED
  BY <1>1, <1>2, <1>3, ConsumeKeepsFamilies, NewTokenKeepsFamilies, RevokeKeepsFamilies DEF Step

-----------------------------------------------------------------------------
(* Second-factor codes.                                                    *)

LEMMA StartCodes == Init => CodesSpent
<1> SUFFICES ASSUME Init PROVE CodesSpent
  OBVIOUS
<1>1. PICK order \in [1 .. Cardinality(Operators) -> Operators] :
         tokens = [i \in DOMAIN order |-> Link(SignedIn(order[i]), i)]
  BY DEF Init
<1>2. \A t \in DOMAIN tokens : tokens[t].code = NoCode
  BY <1>1, SignedInRequest DEF Link
<1>3. \A p \in Procs : req[p].op = "none"
  BY DEF Init, Idle
<1> QED
  BY <1>2, <1>3 DEF CodesSpent, Roots, Accepted

(* An enrolment replaces the last accepted step, nothing else lowers it.   *)
Later(o) ==
    \/ Len(enrolments[o]) < Len(enrolments'[o])
    \/ Len(enrolments[o]) = Len(enrolments'[o]) /\ users[o].step <= users'[o].step

LEMMA PastStays ==
    ASSUME Shape, Shape', NEW o \in Operators, Later(o), NEW c \in Codes, Past(o, c)
    PROVE  Past(o, c)'
<1>1. /\ Len(enrolments[o]) \in Nat /\ Len(enrolments'[o]) \in Nat
      /\ users[o].step \in Nat /\ users'[o].step \in Nat /\ c.step \in Nat /\ c.enrolment \in Nat
  BY SMTT(30) DEF Shape, UserRow, Codes
<1> QED
  BY <1>1 DEF Past, Later

LEMMA Holders ==
    ASSUME Shape
    PROVE  /\ \A t \in DOMAIN tokens : tokens[t].who \in Operators /\ tokens[t].code \in Codes
                                       /\ tokens[t].family \in 1 .. Len(tokens)
           /\ \A p \in Procs : Accepted(p) => req[p].who \in Operators /\ req[p].code \in Codes
<1>1. ASSUME NEW t \in DOMAIN tokens
      PROVE  /\ tokens[t].who \in Operators /\ tokens[t].code \in Codes
             /\ tokens[t].family \in 1 .. Len(tokens)
  <2>1. tokens[t] \in TokenRow(Len(tokens))
    BY DEF Shape
  <2> QED
    BY <2>1 DEF TokenRow
<1>2. ASSUME NEW p \in Procs, Accepted(p) PROVE req[p].who \in Operators /\ req[p].code \in Codes
  BY <1>2 DEF Shape, Fits, Accepted, Request
<1> QED
  BY <1>1, <1>2

(* Roots keep their codes and requests only leave.                         *)
LEMMA CodesFrame ==
    ASSUME Shape, Shape', CodesSpent, NEW p \in Procs, Others(p),
           \A t \in Roots' : /\ t \in Roots
                             /\ tokens'[t].who = tokens[t].who /\ tokens'[t].code = tokens[t].code,
           \A o \in Operators : Later(o),
           Accepted(p)' => /\ Accepted(p)
                           /\ req'[p].who = req[p].who /\ req'[p].code = req[p].code
    PROVE  CodesSpent'
<1>1. ASSUME NEW q \in Procs, Accepted(q)'
      PROVE  Accepted(q) /\ req'[q].who = req[q].who /\ req'[q].code = req[q].code
  BY <1>1 DEF Others, Accepted
<1>2. ASSUME NEW t \in Roots' PROVE Past(tokens[t].who, tokens[t].code)'
  <2>1. PICK o, c : o = tokens[t].who /\ c = tokens[t].code
    OBVIOUS
  <2>2. o \in Operators /\ c \in Codes /\ Past(o, c)
    BY <2>1, Holders DEF CodesSpent, Roots
  <2>3. Past(o, c)'
    BY <2>2, PastStays
  <2> QED
    BY <2>1, <2>3 DEF Past
<1>3. ASSUME NEW q \in Procs, Accepted(q)' PROVE Past(req[q].who, req[q].code)'
  <2>1. PICK o, c : o = req[q].who /\ c = req[q].code
    OBVIOUS
  <2>2. o \in Operators /\ c \in Codes /\ Past(o, c)
    BY <1>1, <1>3, <2>1, Holders DEF CodesSpent
  <2>3. Past(o, c)'
    BY <2>2, PastStays
  <2> QED
    BY <1>1, <1>3, <2>1, <2>3 DEF Past
<1>4. \A t, z \in Roots' :
          tokens'[z].who = tokens'[t].who /\ tokens'[z].code = tokens'[t].code => z = t
  BY DEF CodesSpent
<1>5. \A q, z \in Procs :
         Accepted(q)' /\ Accepted(z)' /\ req'[q].who = req'[z].who /\ req'[q].code = req'[z].code
         => q = z
  BY <1>1 DEF CodesSpent
<1>6. \A t \in Roots', q \in Procs :
         Accepted(q)' /\ tokens'[t].who = req'[q].who => tokens'[t].code # req'[q].code
  BY <1>1 DEF CodesSpent
<1> QED
  BY <1>2, <1>3, <1>4, <1>5, <1>6 DEF CodesSpent

LEMMA LaterByRow ==
    ASSUME Shape, NEW o \in Operators, enrolments' = enrolments, users'[o].step = users[o].step
    PROVE  Later(o)
<1>1. users[o].step \in Nat
  BY DEF Shape, UserRow
<1> QED
  BY <1>1 DEF Later

(* ConsumeRefresh and RevokeRefreshFamily change flags only.               *)
LEMMA FlagsKeepRoots ==
    ASSUME Shape, Lockstep, NEW p \in Procs, ConsumeRefresh(p) \/ RevokeRefreshFamily(p)
    PROVE  \A t \in Roots' : /\ t \in Roots
                             /\ tokens'[t].who = tokens[t].who /\ tokens'[t].code = tokens[t].code
<1> DEFINE n == Len(tokens)
<1>1. n \in Nat /\ tokens \in Seq(TokenRow(n)) /\ DOMAIN tokens = 1 .. n
  BY DEF Shape
<1>2. DOMAIN tokens' = 1 .. n
  <2>1. CASE ConsumeRefresh(p)
    BY <1>1, <2>1 DEF ConsumeRefresh
  <2>2. CASE RevokeRefreshFamily(p)
    BY <1>1, <2>2 DEF RevokeRefreshFamily
  <2> QED
    BY <2>1, <2>2
<1>3. ASSUME NEW t \in 1 .. n
      PROVE  /\ tokens'[t].who = tokens[t].who /\ tokens'[t].code = tokens[t].code
             /\ tokens'[t].family = tokens[t].family
  <2>1. tokens[t] \in TokenRow(n)
    BY <1>1
  <2>2. \/ tokens'[t] = tokens[t] \/ tokens'[t] = [tokens[t] EXCEPT !.revoked = TRUE]
        \/ tokens'[t] = [tokens[t] EXCEPT !.used = TRUE]
    <3>1. CASE ConsumeRefresh(p)
      BY <1>1, <3>1 DEF ConsumeRefresh
    <3>2. CASE RevokeRefreshFamily(p)
      BY <1>1, <3>2 DEF RevokeRefreshFamily
    <3> QED
      BY <3>1, <3>2
  <2> QED
    BY <2>1, <2>2 DEF TokenRow
<1> QED
  BY <1>1, <1>2, <1>3 DEF Roots

LEMMA AdvanceKeepsCodes ==
    ASSUME Shape, Shape', Lockstep, CodesSpent, NEW p \in Procs, AdvanceTOTPStep(p)
    PROVE  CodesSpent'
<1> DEFINE w == req[p].who
<1>1. UNCHANGED <<tokens, enrolments>> /\ Roots' = Roots
  BY DEF AdvanceTOTPStep, Roots
<1>2. w \in Operators /\ users[w].step \in Nat /\ req[p].code.step \in Nat /\ users[w] \in UserRow
  <2>1. w \in Operators
    BY AdvanceMoves
  <2>2. req[p].code \in Codes /\ users[w] \in UserRow
    BY <2>1 DEF Shape, Request
  <2> QED
    BY <2>1, <2>2 DEF UserRow, Codes
<1>3. users'[w].step = IF Newer(p) THEN req[p].code.step ELSE users[w].step
  <2>1. users' = IF Newer(p) THEN [users EXCEPT ![w].step = req[p].code.step] ELSE users
    BY AdvanceMoves
  <2>2. users \in [Operators -> UserRow]
    BY DEF Shape
  <2> QED
    BY <1>2, <2>1, <2>2 DEF UserRow
<1>4. ASSUME NEW o \in Operators PROVE Later(o)
  <2>1. CASE o = w
    BY <1>1, <1>2, <1>3, <2>1 DEF Later, Newer
  <2>2. CASE o # w
    BY <1>1, <2>2, RowWrites, LaterByRow
  <2> QED
    BY <2>1, <2>2
<1>5. CASE ~Accepted(p)'
  BY <1>1, <1>4, <1>5, AdvanceMoves, CodesFrame
<1>6. CASE Accepted(p)'
  <2>1. /\ req'[p].who = w /\ req'[p].code.step = req[p].code.step
        /\ req'[p].code.enrolment = Len(enrolments[w]) /\ users[w].step < req[p].code.step
    BY <1>6, AdvanceMoves DEF Newer
  <2>2. ASSUME NEW c \in Codes, Past(w, c) PROVE c # req'[p].code
    <3>1. c.step \in Nat /\ c.enrolment \in Nat
      BY DEF Codes
    <3> QED
      BY <1>2, <2>1, <2>2, <3>1 DEF Past
  <2>3. ASSUME NEW q \in Procs, q # p, Accepted(q)'
        PROVE  Accepted(q) /\ req'[q] = req[q]
    BY <2>3, AdvanceMoves DEF Others, Accepted
  <2>4. ASSUME NEW t \in Roots PROVE Past(tokens[t].who, tokens[t].code)'
    <3>1. tokens[t].who \in Operators /\ tokens[t].code \in Codes
      BY Holders DEF Roots
    <3>2. PICK o \in Operators, c \in Codes : o = tokens[t].who /\ c = tokens[t].code
      BY <3>1
    <3>3. Past(o, c)'
      BY <1>4, <3>2, PastStays DEF CodesSpent
    <3> QED
      BY <1>1, <3>2, <3>3 DEF Past
  <2>5. ASSUME NEW q \in Procs, Accepted(q)' PROVE Past(req[q].who, req[q].code)'
    <3>1. CASE q = p
      BY <1>1, <1>2, <1>3, <2>1, <3>1 DEF Past, Newer
    <3>2. CASE q # p
      <4>1. req[q].who \in Operators /\ req[q].code \in Codes
        BY <2>3, <2>5, <3>2, Holders
      <4>2. PICK o \in Operators, c \in Codes : o = req[q].who /\ c = req[q].code
        BY <4>1
      <4>3. Past(o, c)'
        BY <1>4, <2>3, <2>5, <3>2, <4>2, PastStays DEF CodesSpent
      <4> QED
        BY <2>3, <2>5, <3>2, <4>2, <4>3 DEF Past
    <3> QED
      BY <3>1, <3>2
  <2>6. ASSUME NEW q \in Procs, q # p, Accepted(q)', req'[q].who = w
        PROVE  req'[q].code # req'[p].code
    BY <2>2, <2>3, <2>6, Holders DEF CodesSpent
  <2>7. \A q, z \in Procs :
           Accepted(q)' /\ Accepted(z)' /\ req'[q].who = req'[z].who /\ req'[q].code = req'[z].code
           => q = z
    BY <2>1, <2>3, <2>6 DEF CodesSpent
  <2>8. ASSUME NEW t \in Roots, tokens[t].who = w PROVE tokens[t].code # req'[p].code
    BY <2>2, <2>8, Holders DEF CodesSpent, Roots
  <2>9. \A t \in Roots, q \in Procs :
           Accepted(q)' /\ tokens[t].who = req'[q].who => tokens[t].code # req'[q].code
    BY <2>1, <2>3, <2>8 DEF CodesSpent
  <2> QED
    BY <1>1, <2>4, <2>5, <2>7, <2>9 DEF CodesSpent
<1> QED
  BY <1>5, <1>6

LEMMA BeginKeepsCodes ==
    ASSUME Shape, Shape', CodesSpent, NEW p \in Procs, BeginSession(p)
    PROVE  CodesSpent'
<1> DEFINE n == Len(tokens)
           r == req[p]
<1>1. n \in Nat /\ tokens \in Seq(TokenRow(n)) /\ DOMAIN tokens = 1 .. n
  BY DEF Shape
<1>2. /\ UNCHANGED <<users, enrolments>> /\ Done(p)
      /\ tokens' = Append(tokens, Link(r, n + 1))
  BY DEF BeginSession, Root
<1>3. Out(p)
  BY <1>2, DoneIsOut
<1>4. /\ DOMAIN tokens' = 1 .. n + 1 /\ tokens'[n + 1] = Link(r, n + 1)
      /\ \A t \in 1 .. n : tokens'[t] = tokens[t]
  BY <1>1, <1>2
<1>5. tokens'[n + 1].who = r.who /\ tokens'[n + 1].code = r.code
  BY <1>4 DEF Link
<1>6. ASSUME NEW t \in Roots', t # n + 1 PROVE t \in Roots /\ tokens'[t] = tokens[t]
  BY <1>1, <1>4, <1>6 DEF Roots
<1>7. n + 1 \in Roots' => Accepted(p)
  <2>1. r.op = "login" => r.code = NoCode
    BY DEF Shape, Fits
  <2>2. r.pc = "open" /\ r.op \in Doors
    BY DEF BeginSession, Shape, Fits
  <2> QED
    BY <1>5, <2>1, <2>2 DEF Roots, Accepted, Doors
<1>8. ASSUME NEW q \in Procs, Accepted(q)' PROVE q # p /\ Accepted(q) /\ req'[q] = req[q]
  BY <1>3, <1>8 DEF Out, Others, Accepted
<1>9. ASSUME NEW t \in Roots' PROVE Past(tokens[t].who, tokens[t].code)'
  <2>1. CASE t = n + 1
    <3>1. Past(r.who, r.code)
      BY <1>7, <2>1 DEF CodesSpent
    <3> QED
      BY <1>2, <1>5, <2>1, <3>1 DEF Past
  <2>2. CASE t # n + 1
    <3>1. Past(tokens[t].who, tokens[t].code) /\ tokens'[t] = tokens[t]
      BY <1>6, <2>2 DEF CodesSpent
    <3> QED
      BY <1>2, <3>1 DEF Past
  <2> QED
    BY <2>1, <2>2
<1>10. ASSUME NEW q \in Procs, Accepted(q)' PROVE Past(req[q].who, req[q].code)'
  BY <1>2, <1>8, <1>10 DEF CodesSpent, Past
<1>11. \A t, z \in Roots' :
          tokens'[z].who = tokens'[t].who /\ tokens'[z].code = tokens'[t].code => z = t
  <2>1. ASSUME NEW t \in Roots', NEW z \in Roots', t # n + 1, z # n + 1,
               tokens'[z].who = tokens'[t].who, tokens'[z].code = tokens'[t].code
        PROVE  z = t
    BY <1>6, <2>1 DEF CodesSpent
  <2>2. ASSUME NEW t \in Roots', t # n + 1, n + 1 \in Roots', tokens'[t].who = r.who
        PROVE  tokens'[t].code # r.code
    BY <1>6, <1>7, <2>2 DEF CodesSpent
  <2> QED
    BY <1>5, <2>1, <2>2
<1>12. \A q, z \in Procs :
          Accepted(q)' /\ Accepted(z)' /\ req'[q].who = req'[z].who /\ req'[q].code = req'[z].code
          => q = z
  BY <1>8 DEF CodesSpent
<1>13. \A t \in Roots', q \in Procs :
          Accepted(q)' /\ tokens'[t].who = req'[q].who => tokens'[t].code # req'[q].code
  <2> SUFFICES ASSUME NEW t \in Roots', NEW q \in Procs, Accepted(q)',
                      tokens'[t].who = req'[q].who
               PROVE  tokens'[t].code # req'[q].code
    OBVIOUS
  <2>1. CASE t = n + 1
    BY <1>5, <1>7, <1>8, <2>1 DEF CodesSpent
  <2>2. CASE t # n + 1
    BY <1>6, <1>8, <2>2 DEF CodesSpent
  <2> QED
    BY <2>1, <2>2
<1> QED
  BY <1>9, <1>10, <1>11, <1>12, <1>13 DEF CodesSpent

LEMMA AppendKeepsRoots ==
    ASSUME Shape, NEW p \in Procs, AppendRefresh(p)
    PROVE  \A t \in Roots' : /\ t \in Roots
                             /\ tokens'[t].who = tokens[t].who /\ tokens'[t].code = tokens[t].code
<1> DEFINE n == Len(tokens)
           f == tokens[req[p].tok].family
<1>1. n \in Nat /\ tokens \in Seq(TokenRow(n)) /\ DOMAIN tokens = 1 .. n
  BY DEF Shape
<1>2. req[p].tok \in 1 .. n
  BY DEF AppendRefresh, Shape, Fits, Rotation
<1>3. f \in 1 .. n
  BY <1>1, <1>2, Holders
<1>4. tokens' = Append(tokens, Link(req[p], f))
  BY DEF AppendRefresh
<1> HIDE DEF f
<1>5. /\ DOMAIN tokens' = 1 .. n + 1 /\ tokens'[n + 1] = Link(req[p], f)
      /\ \A t \in 1 .. n : tokens'[t] = tokens[t]
  BY <1>1, <1>4
<1>6. tokens'[n + 1].family = f
  BY <1>5 DEF Link
<1> QED
  BY <1>1, <1>3, <1>5, <1>6 DEF Roots

LEMMA CodesKeep ==
    ASSUME Shape, Shape', Lockstep, CodesSpent, NEW p \in Procs, Step(p)
    PROVE  CodesSpent'
<1> DEFINE KeepsRoots ==
             \A t \in Roots' : /\ t \in Roots
                               /\ tokens'[t].who = tokens[t].who
                               /\ tokens'[t].code = tokens[t].code
<1>1. ASSUME UNCHANGED tokens PROVE KeepsRoots
  BY <1>1 DEF Roots
<1>2. ASSUME UNCHANGED <<users, enrolments>> PROVE \A o \in Operators : Later(o)
  BY <1>2, LaterByRow
<1>3. CASE \/ DbError(p) \/ CheckPassword(p) \/ WrongPassword(p) \/ ReadRow(p) \/ Lookup(p)
           \/ Standing(p) \/ Authority(p) \/ VerifyCurrent(p) \/ LastOwnerCheck(p)
           \/ (\E k \in 0 .. MaxStep : VerifyCode(p, k)) \/ Rehash(p) \/ LiveRoles(p)
  <2>1. UNCHANGED <<tokens, enrolments>> /\ (users' = users \/ Rehash(p))
    BY <1>3 DEF DbError, CheckPassword, WrongPassword, ReadRow, Lookup, Standing, Authority,
                VerifyCurrent, LastOwnerCheck, VerifyCode, Rehash, LiveRoles
  <2>2. \A o \in Operators : Later(o)
    BY <2>1, LaterByRow, RowWrites
  <2>3. KeepsRoots
    BY <1>1, <2>1
  <2> HIDE DEF KeepsRoots
  <2>4. /\ Others(p)
        /\ Accepted(p)' => /\ Accepted(p)
                           /\ req'[p].who = req[p].who /\ req'[p].code = req[p].code
    BY <1>3, QuietSteps DEF Out, Stays
  <2> QED
    BY <2>2, <2>3, <2>4, CodesFrame DEF KeepsRoots
<1>4. CASE ConsumeRefresh(p)
  <2>1. UNCHANGED <<users, enrolments>>
    BY <1>4 DEF ConsumeRefresh
  <2> QED
    BY <1>2, <1>4, <2>1, FlagsKeepRoots, ConsumeMoves, CodesFrame
<1>5. CASE RevokeRefreshFamily(p)
  <2>1. UNCHANGED <<users, enrolments>> /\ Done(p)
    BY <1>5 DEF RevokeRefreshFamily
  <2>2. Out(p)
    BY <2>1, DoneIsOut
  <2> QED
    BY <1>2, <1>5, <2>1, <2>2, FlagsKeepRoots, CodesFrame DEF Out
<1>6. CASE AppendRefresh(p)
  <2>1. UNCHANGED <<users, enrolments>> /\ Done(p)
    BY <1>6 DEF AppendRefresh
  <2>2. Out(p)
    BY <2>1, DoneIsOut
  <2> QED
    BY <1>2, <1>6, <2>1, <2>2, AppendKeepsRoots, CodesFrame DEF Out
<1>7. CASE WriteUser(p) \/ WriteAssignment(p) \/ StageTOTPSecret(p)
  <2>1. /\ UNCHANGED <<tokens, enrolments>> /\ Done(p)
        /\ users' = users \/ WriteUser(p) \/ StageTOTPSecret(p)
    BY <1>7 DEF WriteUser, WriteAssignment, StageTOTPSecret
  <2>2. \A o \in Operators : Later(o)
    BY <2>1, LaterByRow, RowWrites
  <2>3. Out(p) /\ KeepsRoots
    BY <1>1, <2>1, DoneIsOut
  <2> QED
    BY <2>2, <2>3, CodesFrame DEF Out
<1>8. CASE ConfirmTOTP(p)
  <2> DEFINE w == req[p].who
  <2>1. /\ UNCHANGED tokens /\ Done(p)
        /\ enrolments' = [enrolments EXCEPT ![w] = Append(@, req[p].code.secret)]
    BY <1>8 DEF ConfirmTOTP
  <2>2. ASSUME NEW o \in Operators PROVE Later(o)
    <3>1. CASE o = w
      <4>1. enrolments[o] \in Seq(Nat) /\ req[p].code.secret \in Nat
        BY DEF Shape, Request, Codes
      <4>2. enrolments'[o] = Append(enrolments[o], req[p].code.secret)
        BY <2>1, <3>1 DEF Shape
      <4> QED
        BY <4>1, <4>2 DEF Later
    <3>2. CASE o # w
      <4>1. enrolments'[o] = enrolments[o] /\ users'[o].step = users[o].step
        BY <1>8, <2>1, <3>2, RowWrites, SMTT(30) DEF Shape
      <4>2. users[o].step \in Nat
        BY DEF Shape, UserRow
      <4> QED
        BY <4>1, <4>2 DEF Later
    <3> QED
      BY <3>1, <3>2
  <2>3. Out(p) /\ KeepsRoots
    BY <1>1, <2>1, DoneIsOut
  <2> QED
    BY <2>2, <2>3, CodesFrame DEF Out
<1> QED
  BY <1>3, <1>4, <1>5, <1>6, <1>7, <1>8, AdvanceKeepsCodes, BeginKeepsCodes DEF Step

-----------------------------------------------------------------------------
(* The invariant and what follows from it.                                 *)

LEMMA ArrivalsKeep ==
    ASSUME IInv, Shape', NEW p \in Procs, Out(p), UNCHANGED <<rows, seen>>
    PROVE  IInv'
<1>1. Lockstep'
  BY LockstepFrame DEF IInv, Out
<1>2. OneOfAFamily'
  BY FamiliesFrame DEF IInv, Out
<1>3. CodesSpent'
  <2>1. \A t \in Roots' : /\ t \in Roots
                          /\ tokens'[t].who = tokens[t].who /\ tokens'[t].code = tokens[t].code
    BY DEF Roots
  <2>2. \A o \in Operators : Later(o)
    BY LaterByRow DEF IInv
  <2> QED
    BY <2>1, <2>2, CodesFrame DEF IInv, Out
<1> QED
  BY <1>1, <1>2, <1>3 DEF IInv

LEMMA InvKeeps == IInv /\ [Next]_vars => IInv'
<1> SUFFICES ASSUME IInv, [Next]_vars PROVE IInv'
  OBVIOUS
<1>1. Shape'
  BY ShapeKeeps DEF IInv
<1>2. CASE UNCHANGED vars
  <2>1. Lockstep'
    BY <1>2 DEF IInv, vars, Lockstep
  <2>2. OneOfAFamily'
    BY <1>2 DEF IInv, vars, OneOfAFamily, InRotation, FamilyOf, Spent
  <2>3. CodesSpent'
    BY <1>2 DEF IInv, vars, CodesSpent, Roots, Accepted, Past
  <2> QED
    BY <1>1, <2>1, <2>2, <2>3 DEF IInv
<1>3. ASSUME NEW p \in Procs,
             \/ \E o \in Operators : Login(p, o)
             \/ \E c \in challenges : VerifyMFA(p, c)
             \/ \E op \in Rotation, t \in DOMAIN tokens : Present(p, op, t)
             \/ \E op \in Admin \cup Own, a \in access, o \in Operators : Call(p, op, a, o)
      PROVE  IInv'
  <2>1. UNCHANGED <<rows, seen>>
    BY <1>3 DEF Login, VerifyMFA, Present, Call
  <2>2. Out(p)
    BY <1>3, ArrivalIsOut DEF IInv
  <2> QED
    BY <1>1, <2>1, <2>2, ArrivalsKeep
<1>4. ASSUME NEW p \in Procs, Step(p) PROVE IInv'
  BY <1>1, <1>4, LockstepKeeps, FamiliesKeep, CodesKeep DEF IInv
<1> QED
  BY <1>2, <1>3, <1>4, Zenon DEF Next

(* Epochs and cuts, families and codes stay as the invariant says through  *)
(* every interleaving of sign-ins, rotations and administration.           *)
THEOREM InvariantHolds == Spec => []IInv
<1>1. Init => IInv
  BY StartShape, StartLockstep, StartFamilies, StartCodes DEF IInv
<1> QED
  BY <1>1, InvKeeps, PTL DEF Spec

(* A set whose members are all the same has at most one.                   *)
LEMMA AtMostOne ==
    ASSUME NEW S, \A x, y \in S : x = y
    PROVE  /\ Cardinality(S) \in Nat /\ Cardinality(S) <= 1
           /\ S = {} => Cardinality(S) = 0
<1>1. CASE S = {}
  BY <1>1, FS_EmptySet
<1>2. CASE S # {}
  <2>1. PICK x : S = {x}
    BY <1>2
  <2>2. Cardinality(S) = 1
    BY <2>1, FS_Singleton, Zenon
  <2> QED
    BY <1>2, <2>2
<1> QED
  BY <1>1, <1>2

(* However rotations, replays and sign-outs of one family interleave, it   *)
(* has one token that can still be spent, counting the successor that a    *)
(* rotation past its ConsumeRefresh is about to append.                    *)
THEOREM OneTokenOfAFamily == Spec => []OneUsableToken
<1>1. IInv => OneUsableToken
  <2> SUFFICES ASSUME IInv, NEW f \in DOMAIN tokens
               PROVE  Cardinality({t \in DOMAIN tokens : tokens[t].family = f /\ ~Spent(t)})
                          + Cardinality(Rotating(f)) <= 1
    BY DEF OneUsableToken
  <2> DEFINE T == {t \in DOMAIN tokens : tokens[t].family = f /\ ~Spent(t)}
  <2>1. \A s, t \in T : s = t
    BY DEF IInv, OneOfAFamily
  <2>2. \A p, q \in Rotating(f) : p = q
    BY DEF IInv, OneOfAFamily, Rotating, InRotation, FamilyOf
  <2>3. T = {} \/ Rotating(f) = {}
    BY DEF IInv, OneOfAFamily, Rotating, InRotation, FamilyOf
  <2> HIDE DEF T
  <2>4. Cardinality(T) \in Nat /\ Cardinality(T) <= 1 /\ (T = {} => Cardinality(T) = 0)
    BY <2>1, AtMostOne
  <2>5. /\ Cardinality(Rotating(f)) \in Nat /\ Cardinality(Rotating(f)) <= 1
        /\ Rotating(f) = {} => Cardinality(Rotating(f)) = 0
    BY <2>2, AtMostOne
  <2>6. Cardinality(T) + Cardinality(Rotating(f)) <= 1
    BY <2>3, <2>4, <2>5
  <2> QED
    BY <2>6 DEF T
<1> QED
  BY <1>1, InvariantHolds, PTL

(* An access token minted from a row that has since been superseded, by a  *)
(* password change, a reset or a disabling, even one undone, is refused by *)
(* stillValid, whenever the request that minted it had read the row.       *)
THEOREM SupersededIsRefused == Spec => []SupersededTokenRefused
<1>1. IInv => SupersededTokenRefused
  BY DEF IInv, Lockstep, Shape, SupersededTokenRefused
<1> QED
  BY <1>1, InvariantHolds, PTL

(* Within one enrolment a TOTP code opens at most one session, however     *)
(* many challenges it is presented with at once.                           *)
THEOREM OneSessionPerCode == Spec => []CodeOpensOneSession
<1>1. IInv => CodeOpensOneSession
  BY DEF IInv, CodesSpent, CodeOpensOneSession
<1> QED
  BY <1>1, InvariantHolds, PTL

(* A password once replaced never comes back, though a sign-in that        *)
(* verified it is about to write its upgraded hash.                        *)
THEOREM ReplacedStaysReplaced == Spec => OldPasswordStaysOut
<1> DEFINE Up == \A o \in Operators : users'[o].pw >= users[o].pw
<1>1. ASSUME Shape, Next PROVE Up
  <2>1. \A o \in Operators : users[o].pw \in Nat
    BY <1>1 DEF Shape, UserRow
  <2>2. ASSUME UNCHANGED users PROVE Up
    BY <2>1, <2>2
  <2>3. ASSUME NEW p \in Procs, Step(p) PROVE Up
    <3>1. CASE \/ Rehash(p) \/ StageTOTPSecret(p) \/ ConfirmTOTP(p) \/ AdvanceTOTPStep(p)
               \/ WriteUser(p)
      <4>1. \A o \in Operators : users'[o].pw = users[o].pw \/ users'[o].pw >= users[o].pw
        BY <1>1, <3>1, RowWrites
      <4> QED
        BY <2>1, <4>1
    <3>2. CASE ~(\/ Rehash(p) \/ StageTOTPSecret(p) \/ ConfirmTOTP(p) \/ AdvanceTOTPStep(p)
                 \/ WriteUser(p))
      BY <2>2, <2>3, <3>2
         DEF Step, DbError, CheckPassword, WrongPassword, ReadRow, Lookup, Standing, Authority,
             VerifyCurrent, LastOwnerCheck, VerifyCode, LiveRoles, BeginSession,
             ConsumeRefresh, AppendRefresh, RevokeRefreshFamily, WriteAssignment
    <3> QED
      BY <3>1, <3>2
  <2>4. ASSUME NEW p \in Procs,
               \/ \E o \in Operators : Login(p, o)
               \/ \E c \in challenges : VerifyMFA(p, c)
               \/ \E op \in Rotation, t \in DOMAIN tokens : Present(p, op, t)
               \/ \E op \in Admin \cup Own, a \in access, o \in Operators : Call(p, op, a, o)
        PROVE  Up
    BY <2>2, <2>4 DEF Login, VerifyMFA, Present, Call
  <2> HIDE DEF Up
  <2> QED
    BY <1>1, <2>3, <2>4, Zenon DEF Next
<1>2. Shape /\ [Next]_vars => [Up]_vars
  BY <1>1
<1> QED
  BY <1>2, ShapeHolds, PTL DEF Spec, OldPasswordStaysOut
=============================================================================
