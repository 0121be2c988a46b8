----------------------- MODULE RefreshRotationProofs -----------------------
(***************************************************************************)
(* RefreshRotation for every number of requests, sessions and tokens: the  *)
(* invariant IInv of RefreshRotationInv is inductive, and the promises of  *)
(* RefreshRotation follow from it.                                         *)
(*                                                                         *)
(* First a frame lemma for each part of IInv, then one lemma per action    *)
(* (the parts it can disturb one by one, the others by their frame lemmas),*)
(* then the theorems.                                                      *)
(***************************************************************************)
EXTENDS RefreshRotationInv, TLAPS

USE NullAssumption, OwnerAssumption
    DEF IInv, rows, people, clocks, locks, request, seen,
        Goto, Enter, Begin, Return, Release, Rollback

\* Control depends on nothing but the variables listed.
LEMMA FrameControl ==
  ASSUME Control, UNCHANGED <<sess, pc, op, arg, ids>>
  PROVE  Control'
  BY DEF Control, Statements

\* Shape depends on nothing but the variables listed.
LEMMA FrameShape ==
  ASSUME Shape, UNCHANGED <<status, sessionOf, family, succ, sess, late, covered>>
  PROVE  Shape'
  BY DEF Shape

\* TokenLocks depends on nothing but the variables listed.
LEMMA FrameTokenLocks ==
  ASSUME TokenLocks, UNCHANGED <<status, sessionOf, tokLock, pc, op, arg, ids>>
  PROVE  TokenLocks'
  BY DEF TokenLocks, Rotating

\* SessionLocks depends on nothing but the variables listed.
LEMMA FrameSessionLocks ==
  ASSUME SessionLocks, UNCHANGED <<sessionOf, sess, sesLock, pc, op, arg, ids>>
  PROVE  SessionLocks'
  BY DEF SessionLocks, Ending

\* LinearFamily depends on nothing but the variables listed.
LEMMA FrameLinearFamily ==
  ASSUME LinearFamily, UNCHANGED <<status, sessionOf, family, succ>>
  PROVE  LinearFamily'
  BY DEF LinearFamily

\* Sweeping depends on nothing but the variables listed.
LEMMA FrameSweeping ==
  ASSUME Sweeping, UNCHANGED <<status, sessionOf, family, tokLock, pc, op, ids, todo,
         covered>>
  PROVE  Sweeping'
  BY DEF Sweeping

\* LogoutSweepsFamilies depends on nothing but the variables listed.
LEMMA FrameLogoutSweepsFamilies ==
  ASSUME LogoutSweepsFamilies, UNCHANGED <<status, sessionOf, family, sess, covered>>
  PROVE  LogoutSweepsFamilies'
  BY DEF LogoutSweepsFamilies, TxReasons

\* LateTokens depends on nothing but the variables listed.
LEMMA FrameLateTokens ==
  ASSUME LateTokens, UNCHANGED <<status, sessionOf, family, sess, pc, op, arg, late>>
  PROVE  LateTokens'
  BY DEF LateTokens, AtMostOneLate, Rotating, Revoked, TxReasons, AutoReasons

\* Containment depends on nothing but the variables listed.
LEMMA FrameContainment ==
  ASSUME Containment, UNCHANGED <<sess, pc, op, ids, alarm>>
  PROVE  Containment'
  BY DEF Containment, Revoked, TxReasons, AutoReasons

\* A hosted sign-in writes a session no row refers to yet.
LEMMA OpenBrowserSessionKeeps ==
  ASSUME IInv, NEW s \in Sessions, OpenBrowserSession(s)
  PROVE  IInv'
<1>1. TypeOK'
  BY DEF OpenBrowserSession, TypeOK, PCs, Ops, TokenStatus, TxReasons, AutoReasons
<1>2. Control'
  BY DEF OpenBrowserSession, TypeOK, Control, Statements
<1>3. Shape'
  BY DEF OpenBrowserSession, TypeOK, Shape
<1>4. SessionLocks'
  BY DEF OpenBrowserSession, TypeOK, SessionLocks, Ending
<1>5. LogoutSweepsFamilies'
  BY DEF OpenBrowserSession, TypeOK, LogoutSweepsFamilies, TxReasons
<1>6. LateTokens'
  BY DEF OpenBrowserSession, TypeOK, LateTokens, AtMostOneLate, Rotating, Revoked,
         TxReasons, AutoReasons
<1>7. Containment'
  BY DEF OpenBrowserSession, TypeOK, Containment, Revoked, TxReasons, AutoReasons
<1>8. TokenLocks' /\ LinearFamily' /\ Sweeping'
  BY FrameTokenLocks, FrameLinearFamily, FrameSweeping
     DEF OpenBrowserSession
<1> QED
  BY <1>1, <1>2, <1>3, <1>4, <1>5, <1>6, <1>7, <1>8 DEF IInv

\* An API sign-in starts a session and a family of its own.
LEMMA EstablishKeeps ==
  ASSUME IInv, NEW s \in Sessions, NEW n \in Tokens, Establish(s, n)
  PROVE  IInv'
<1>1. TypeOK'
  BY DEF Establish, Insert, Revoked, TxReasons, AutoReasons, TypeOK, PCs, Ops,
         TokenStatus
<1>2. Control'
  BY DEF Establish, Insert, Revoked, TxReasons, AutoReasons, TypeOK, Control, Statements
<1>3. Shape'
  BY DEF Establish, Insert, Revoked, TxReasons, AutoReasons, TypeOK, Shape
<1>4. TokenLocks'
  BY SMTT(40) DEF Establish, Insert, Revoked, TxReasons, AutoReasons, TypeOK,
         TokenLocks, Rotating
<1>5. SessionLocks'
  BY DEF Establish, Insert, Revoked, TxReasons, AutoReasons, TypeOK, SessionLocks,
         Ending, TokenLocks, Rotating
<1>6. LinearFamily'
  BY DEF Establish, Insert, Revoked, TxReasons, AutoReasons, TypeOK, LinearFamily, Shape
<1>7. Sweeping'
  BY DEF Establish, Insert, Revoked, TxReasons, AutoReasons, TypeOK, Sweeping, Control,
         Statements
<1>8. LogoutSweepsFamilies'
  BY DEF Establish, Insert, Revoked, TxReasons, AutoReasons, TypeOK,
         LogoutSweepsFamilies
<1>9. LateTokens'
  BY DEF Establish, Insert, Revoked, TxReasons, AutoReasons, TypeOK, LateTokens,
         AtMostOneLate, Rotating, Shape
<1>10. Containment'
  BY DEF Establish, Insert, Revoked, TxReasons, AutoReasons, TypeOK, Containment
<1> QED
  BY <1>1, <1>2, <1>3, <1>4, <1>5, <1>6, <1>7, <1>8, <1>9, <1>10 DEF IInv

\* A code exchange begins, holding no lock.
LEMMA TokenAuthCodeKeeps ==
  ASSUME IInv, NEW p \in Procs, NEW s \in Sessions, TokenAuthCode(p, s)
  PROVE  IInv'
<1>1. TypeOK'
  BY DEF TokenAuthCode, TypeOK, PCs, Ops, TokenStatus, TxReasons, AutoReasons
<1>2. Control'
  BY DEF TokenAuthCode, TypeOK, Control, Statements
<1>3. TokenLocks'
  BY DEF TokenAuthCode, TypeOK, TokenLocks, Rotating
<1>4. SessionLocks'
  BY DEF TokenAuthCode, TypeOK, SessionLocks, Ending
<1>5. Sweeping'
  BY DEF TokenAuthCode, TypeOK, Sweeping
<1>6. LateTokens'
  BY DEF TokenAuthCode, TypeOK, LateTokens, AtMostOneLate, Rotating, Revoked, TxReasons,
         AutoReasons
<1>7. Containment'
  BY DEF TokenAuthCode, TypeOK, Containment, Revoked, TxReasons, AutoReasons
<1>8. Shape' /\ LinearFamily' /\ LogoutSweepsFamilies'
  BY FrameShape, FrameLinearFamily, FrameLogoutSweepsFamilies
     DEF TokenAuthCode
<1> QED
  BY <1>1, <1>2, <1>3, <1>4, <1>5, <1>6, <1>7, <1>8 DEF IInv

\* The exchange has read a live session; nothing is written.
LEMMA ExchangeLiveKeeps ==
  ASSUME IInv, NEW p \in Procs, ExchangeLive(p)
  PROVE  IInv'
<1>1. TypeOK'
  BY DEF ExchangeLive, Live, TypeOK, PCs, Ops, TokenStatus, TxReasons, AutoReasons
<1>2. Control'
  BY DEF ExchangeLive, Live, TypeOK, Control, Statements
<1>3. TokenLocks'
  BY DEF ExchangeLive, Live, TypeOK, TokenLocks, Rotating
<1>4. SessionLocks'
  BY DEF ExchangeLive, Live, TypeOK, SessionLocks, Ending
<1>5. Sweeping'
  BY DEF ExchangeLive, Live, TypeOK, Sweeping
<1>6. LateTokens'
  BY DEF ExchangeLive, Live, TypeOK, LateTokens, AtMostOneLate, Rotating, Revoked,
         TxReasons, AutoReasons
<1>7. Containment'
  BY DEF ExchangeLive, Live, TypeOK, Containment, Revoked, TxReasons, AutoReasons
<1>8. Shape' /\ LinearFamily' /\ LogoutSweepsFamilies'
  BY FrameShape, FrameLinearFamily, FrameLogoutSweepsFamilies
     DEF ExchangeLive
<1> QED
  BY <1>1, <1>2, <1>3, <1>4, <1>5, <1>6, <1>7, <1>8 DEF IInv

\* The exchange is refused and returns.
LEMMA ExchangeDeadKeeps ==
  ASSUME IInv, NEW p \in Procs, ExchangeDead(p)
  PROVE  IInv'
<1>1. TypeOK'
  BY DEF ExchangeDead, Live, TypeOK, PCs, Ops, TokenStatus, TxReasons, AutoReasons
<1>2. Control'
  BY DEF ExchangeDead, Live, TypeOK, Control, Statements
<1>3. TokenLocks'
  BY DEF ExchangeDead, Live, TypeOK, TokenLocks, Rotating
<1>4. SessionLocks'
  BY DEF ExchangeDead, Live, TypeOK, SessionLocks, Ending
<1>5. Sweeping'
  BY DEF ExchangeDead, Live, TypeOK, Sweeping
<1>6. LateTokens'
  BY DEF ExchangeDead, Live, TypeOK, LateTokens, AtMostOneLate, Rotating, Revoked,
         TxReasons, AutoReasons
<1>7. Containment'
  BY DEF ExchangeDead, Live, TypeOK, Containment, Revoked, TxReasons, AutoReasons
<1>8. Shape' /\ LinearFamily' /\ LogoutSweepsFamilies'
  BY FrameShape, FrameLinearFamily, FrameLogoutSweepsFamilies
     DEF ExchangeDead
<1> QED
  BY <1>1, <1>2, <1>3, <1>4, <1>5, <1>6, <1>7, <1>8 DEF IInv

\* The exchange's token starts a family no sweep has covered, wherever the
\* session has got to meanwhile.
LEMMA ExchangeIssueKeeps ==
  ASSUME IInv, NEW p \in Procs, NEW n \in Tokens, ExchangeIssue(p, n)
  PROVE  IInv'
<1>1. TypeOK'
  BY DEF ExchangeIssue, Insert, Revoked, TxReasons, AutoReasons, TypeOK, PCs, Ops,
         TokenStatus
<1>2. Control'
  BY DEF ExchangeIssue, Insert, Revoked, TxReasons, AutoReasons, TypeOK, Control,
         Statements, PCs, Ops
<1>3. Shape'
  BY DEF ExchangeIssue, Insert, Revoked, TxReasons, AutoReasons, TypeOK, Shape, Control,
         Statements
<1>4. TokenLocks'
  BY SMTT(40) DEF ExchangeIssue, Insert, Revoked, TxReasons, AutoReasons, TypeOK,
         TokenLocks, Rotating
<1>5. SessionLocks'
  BY DEF ExchangeIssue, Insert, Revoked, TxReasons, AutoReasons, TypeOK, SessionLocks,
         Ending, TokenLocks, Rotating
<1>6. LinearFamily'
  BY DEF ExchangeIssue, Insert, Revoked, TxReasons, AutoReasons, TypeOK, LinearFamily,
         Shape
<1>7. Sweeping'
  BY DEF ExchangeIssue, Insert, Revoked, TxReasons, AutoReasons, TypeOK, Sweeping, Shape
<1>8. LogoutSweepsFamilies'
  BY DEF ExchangeIssue, Insert, Revoked, TxReasons, AutoReasons, TypeOK,
         LogoutSweepsFamilies, Shape
<1>9. LateTokens'
  BY DEF ExchangeIssue, Insert, Revoked, TxReasons, AutoReasons, TypeOK, LateTokens,
         AtMostOneLate, Rotating, Control, Statements, Shape, TokenLocks
<1>10. Containment'
  BY DEF ExchangeIssue, Insert, Revoked, TxReasons, AutoReasons, TypeOK, Containment
<1> QED
  BY <1>1, <1>2, <1>3, <1>4, <1>5, <1>6, <1>7, <1>8, <1>9, <1>10 DEF IInv

\* A refresh begins, holding no lock.
LEMMA RefreshKeeps ==
  ASSUME IInv, NEW p \in Procs, NEW t \in Tokens, Refresh(p, t)
  PROVE  IInv'
<1>1. TypeOK'
  BY DEF Refresh, TypeOK, PCs, Ops, TokenStatus, TxReasons, AutoReasons
<1>2. Control'
  BY DEF Refresh, TypeOK, Control, Statements
<1>3. TokenLocks'
  BY DEF Refresh, TypeOK, TokenLocks, Rotating
<1>4. SessionLocks'
  BY DEF Refresh, TypeOK, SessionLocks, Ending
<1>5. Sweeping'
  BY DEF Refresh, TypeOK, Sweeping
<1>6. LateTokens'
  BY DEF Refresh, TypeOK, LateTokens, AtMostOneLate, Rotating, Revoked, TxReasons,
         AutoReasons
<1>7. Containment'
  BY DEF Refresh, TypeOK, Containment, Revoked, TxReasons, AutoReasons
<1>8. Shape' /\ LinearFamily' /\ LogoutSweepsFamilies'
  BY FrameShape, FrameLinearFamily, FrameLogoutSweepsFamilies
     DEF Refresh
<1> QED
  BY <1>1, <1>2, <1>3, <1>4, <1>5, <1>6, <1>7, <1>8 DEF IInv

\* The claim takes the lock of an active token nobody holds.
LEMMA ClaimRefreshKeeps ==
  ASSUME IInv, NEW p \in Procs, ClaimRefresh(p)
  PROVE  IInv'
<1>1. TypeOK'
  BY DEF ClaimRefresh, Claimable, TypeOK, PCs, Ops, TokenStatus, TxReasons, AutoReasons,
         Control, Statements, Shape
<1>2. Control'
  BY DEF ClaimRefresh, Claimable, TypeOK, Control, Statements, Shape
<1>3. TokenLocks'
  <2>1. /\ arg[p] \in Tokens /\ status[arg[p]] = "active" /\ p # NoProc
        /\ tokLock[arg[p]] = NoProc
        /\ tokLock' = [tokLock EXCEPT ![arg[p]] = p]
        /\ ids' = [ids EXCEPT ![p] = {sessionOf[arg[p]]}]
        /\ pc' = [pc EXCEPT ![p] = "live"]
        /\ UNCHANGED <<status, sessionOf, op, arg>>
    BY DEF ClaimRefresh, Claimable, Control
  <2>2. op[p] = "refresh" /\ pc[p] = "claim" /\ ~Rotating(p)
    BY DEF ClaimRefresh, Rotating
  <2>3. \A t \in Tokens : tokLock[t] # p
    BY <2>1, <2>2 DEF TokenLocks
  <2>4. Rotating(p)' /\ \A q \in Procs : q # p => (Rotating(q)' <=> Rotating(q))
    BY <2>1, <2>2 DEF Rotating, TypeOK
  <2>5. ASSUME NEW t \in Tokens, tokLock'[t] # NoProc
        PROVE  /\ status'[t] = "active"
               /\ \/ Rotating(tokLock[t])'
                  \/ pc'[tokLock'[t]] \in {"famrows", "sesrows"}
                  \/ pc'[tokLock'[t]] = "commit" /\ op'[tokLock'[t]] \in {"logout", "logout_all"}
    <3>1. CASE t = arg[p]
      BY <2>1, <2>4, <3>1 DEF TypeOK
    <3>2. CASE t # arg[p]
      <4>1. tokLock'[t] = tokLock[t] /\ tokLock[t] \in Procs /\ tokLock[t] # p
        BY <2>1, <2>3, <2>5, <3>2 DEF TypeOK
      <4> QED
        BY <2>1, <2>4, <2>5, <4>1 DEF TypeOK, TokenLocks
    <3> QED
      BY <3>1, <3>2
  <2>6. ASSUME NEW q \in Procs, Rotating(q)'
        PROVE  /\ tokLock'[arg'[q]] = q
               /\ ids'[q] = {sessionOf'[arg'[q]]}
               /\ \A t \in Tokens : tokLock'[t] = q => t = arg'[q]
    <3>1. CASE q = p
      BY <2>1, <2>3, <3>1 DEF TypeOK
    <3>2. CASE q # p
      <4>1. Rotating(q) /\ tokLock[arg[q]] = q /\ arg[q] \in Tokens /\ q # NoProc
        BY <2>4, <2>6, <3>2 DEF TokenLocks, Control, Rotating
      <4> QED
        BY <2>1, <3>2, <4>1 DEF TypeOK, TokenLocks
    <3> QED
      BY <3>1, <3>2
  <2> QED
    BY <2>5, <2>6 DEF TokenLocks
<1>4. SessionLocks'
  BY DEF ClaimRefresh, Claimable, TypeOK, SessionLocks, Ending
<1>5. Sweeping'
  BY DEF ClaimRefresh, Claimable, TypeOK, Sweeping
<1>6. LateTokens'
  BY DEF ClaimRefresh, Claimable, TypeOK, LateTokens, AtMostOneLate, Rotating, Revoked,
         TxReasons, AutoReasons
<1>7. Containment'
  BY DEF ClaimRefresh, Claimable, TypeOK, Containment, Revoked, TxReasons, AutoReasons
<1>8. Shape' /\ LinearFamily' /\ LogoutSweepsFamilies'
  BY FrameShape, FrameLinearFamily, FrameLogoutSweepsFamilies
     DEF ClaimRefresh
<1> QED
  BY <1>1, <1>2, <1>3, <1>4, <1>5, <1>6, <1>7, <1>8 DEF IInv

\* The claim fails and the theft response begins, holding no lock.
LEMMA ClaimFailedKeeps ==
  ASSUME IInv, NEW p \in Procs, ClaimFailed(p)
  PROVE  IInv'
<1>1. TypeOK'
  BY DEF ClaimFailed, Claimable, TypeOK, PCs, Ops, TokenStatus, TxReasons, AutoReasons
<1>2. Control'
  BY DEF ClaimFailed, Claimable, TypeOK, Control, Statements
<1>3. TokenLocks'
  BY DEF ClaimFailed, Claimable, TypeOK, TokenLocks, Rotating
<1>4. SessionLocks'
  BY DEF ClaimFailed, Claimable, TypeOK, SessionLocks, Ending
<1>5. Sweeping'
  BY DEF ClaimFailed, Claimable, TypeOK, Sweeping
<1>6. LateTokens'
  BY DEF ClaimFailed, Claimable, TypeOK, LateTokens, AtMostOneLate, Rotating, Revoked,
         TxReasons, AutoReasons
<1>7. Containment'
  BY DEF ClaimFailed, Claimable, TypeOK, Containment, Revoked, TxReasons, AutoReasons
<1>8. Shape' /\ LinearFamily' /\ LogoutSweepsFamilies'
  BY FrameShape, FrameLinearFamily, FrameLogoutSweepsFamilies
     DEF ClaimFailed
<1> QED
  BY <1>1, <1>2, <1>3, <1>4, <1>5, <1>6, <1>7, <1>8 DEF IInv

\* The session is live, so its families have no late token: a rotation that got
\* this far will issue at most the first.
LEMMA SessionLiveKeeps ==
  ASSUME IInv, NEW p \in Procs, SessionLive(p)
  PROVE  IInv'
<1>1. TypeOK'
  BY DEF SessionLive, Live, TypeOK, PCs, Ops, TokenStatus, TxReasons, AutoReasons
<1>2. Control'
  BY DEF SessionLive, Live, TypeOK, Control, Statements
<1>3. TokenLocks'
  BY DEF SessionLive, Live, TypeOK, TokenLocks, Rotating
<1>4. SessionLocks'
  BY DEF SessionLive, Live, TypeOK, SessionLocks, Ending
<1>5. Sweeping'
  BY DEF SessionLive, Live, TypeOK, Sweeping
<1>6. LateTokens'
  <2>1. /\ arg[p] \in Tokens /\ Rotating(p) /\ tokLock[arg[p]] = p /\ p # NoProc
        /\ ids[p] = {sessionOf[arg[p]]}
    BY DEF SessionLive, Control, TokenLocks, Rotating
  <2>2. status[arg[p]] # "none" /\ ~Revoked(sessionOf[arg[p]])
    BY <2>1 DEF SessionLive, Live, TokenLocks, Revoked, TxReasons, AutoReasons
  <2>3. late[family[arg[p]]] = 0
    BY <2>1, <2>2 DEF LateTokens
  <2>4. /\ \A q \in Procs : q # p => (Rotating(q)' <=> Rotating(q)) /\ pc'[q] = pc[q]
        /\ UNCHANGED <<late, status, sess, sessionOf, family, arg>>
    BY DEF SessionLive, Rotating, TypeOK
  <2>5. \A q \in Procs : Rotating(q)' /\ pc'[q] # "live" => late[family[arg[q]]] = 0
    BY <2>3, <2>4 DEF LateTokens
  <2> QED
    BY <2>4, <2>5 DEF LateTokens, AtMostOneLate, Revoked, TxReasons, AutoReasons
<1>7. Containment'
  BY DEF SessionLive, Live, TypeOK, Containment, Revoked, TxReasons, AutoReasons
<1>8. Shape' /\ LinearFamily' /\ LogoutSweepsFamilies'
  BY FrameShape, FrameLinearFamily, FrameLogoutSweepsFamilies
     DEF SessionLive
<1> QED
  BY <1>1, <1>2, <1>3, <1>4, <1>5, <1>6, <1>7, <1>8 DEF IInv

\* The rotation is rolled back and gives its locks up.
LEMMA SessionDeadKeeps ==
  ASSUME IInv, NEW p \in Procs, SessionDead(p)
  PROVE  IInv'
<1>1. TypeOK'
  BY DEF SessionDead, Live, TypeOK, PCs, Ops, TokenStatus, TxReasons, AutoReasons
<1>2. Control'
  BY DEF SessionDead, Live, TypeOK, Control, Statements
<1>3. TokenLocks'
  BY DEF SessionDead, Live, TypeOK, TokenLocks, Rotating, Control, Statements
<1>4. SessionLocks'
  BY SMTT(40) DEF SessionDead, Live, TypeOK, SessionLocks, Ending
<1>5. Sweeping'
  BY DEF SessionDead, Live, TypeOK, Sweeping
<1>6. LateTokens'
  BY DEF SessionDead, Live, TypeOK, LateTokens, AtMostOneLate, Rotating, Revoked,
         TxReasons, AutoReasons
<1>7. Containment'
  BY DEF SessionDead, Live, TypeOK, Containment, Revoked, TxReasons, AutoReasons
<1>8. Shape' /\ LinearFamily' /\ LogoutSweepsFamilies'
  BY FrameShape, FrameLinearFamily, FrameLogoutSweepsFamilies
     DEF SessionDead
<1> QED
  BY <1>1, <1>2, <1>3, <1>4, <1>5, <1>6, <1>7, <1>8 DEF IInv

\* The successor is not visible before the commit.
LEMMA IssueKeeps ==
  ASSUME IInv, NEW p \in Procs, Issue(p)
  PROVE  IInv'
<1>1. TypeOK'
  BY DEF Issue, TypeOK, PCs, Ops, TokenStatus, TxReasons, AutoReasons
<1>2. Control'
  BY DEF Issue, TypeOK, Control, Statements, PCs, Ops
<1>3. TokenLocks'
  BY DEF Issue, TypeOK, TokenLocks, Rotating
<1>4. SessionLocks'
  BY DEF Issue, TypeOK, SessionLocks, Ending
<1>5. Sweeping'
  BY DEF Issue, TypeOK, Sweeping
<1>6. LateTokens'
  BY DEF Issue, TypeOK, LateTokens, AtMostOneLate, Rotating, Revoked, TxReasons,
         AutoReasons
<1>7. Containment'
  BY DEF Issue, TypeOK, Containment, Revoked, TxReasons, AutoReasons
<1>8. Shape' /\ LinearFamily' /\ LogoutSweepsFamilies'
  BY FrameShape, FrameLinearFamily, FrameLogoutSweepsFamilies
     DEF Issue
<1> QED
  BY <1>1, <1>2, <1>3, <1>4, <1>5, <1>6, <1>7, <1>8 DEF IInv

\* The claim is rolled back with everything else.
LEMMA IssueRefusedKeeps ==
  ASSUME IInv, NEW p \in Procs, IssueRefused(p)
  PROVE  IInv'
<1>1. TypeOK'
  BY DEF IssueRefused, TypeOK, PCs, Ops, TokenStatus, TxReasons, AutoReasons
<1>2. Control'
  BY DEF IssueRefused, TypeOK, Control, Statements
<1>3. TokenLocks'
  BY DEF IssueRefused, TypeOK, TokenLocks, Rotating, Control, Statements
<1>4. SessionLocks'
  BY DEF IssueRefused, TypeOK, SessionLocks, Ending, TokenLocks, Rotating
<1>5. Sweeping'
  BY DEF IssueRefused, TypeOK, Sweeping
<1>6. LateTokens'
  BY DEF IssueRefused, TypeOK, LateTokens, AtMostOneLate, Rotating, Revoked, TxReasons,
         AutoReasons
<1>7. Containment'
  BY DEF IssueRefused, TypeOK, Containment, Revoked, TxReasons, AutoReasons
<1>8. Shape' /\ LinearFamily' /\ LogoutSweepsFamilies'
  BY FrameShape, FrameLinearFamily, FrameLogoutSweepsFamilies
     DEF IssueRefused
<1> QED
  BY <1>1, <1>2, <1>3, <1>4, <1>5, <1>6, <1>7, <1>8 DEF IInv

\* The rotation takes its session's row lock, which no logout holds.
LEMMA TouchSessionKeeps ==
  ASSUME IInv, NEW p \in Procs, TouchSession(p)
  PROVE  IInv'
<1>1. TypeOK'
  BY DEF TouchSession, TypeOK, PCs, Ops, TokenStatus, TxReasons, AutoReasons
<1>2. Control'
  BY DEF TouchSession, TypeOK, Control, Statements
<1>3. TokenLocks'
  BY DEF TouchSession, TypeOK, TokenLocks, Rotating
<1>4. SessionLocks'
  BY DEF TouchSession, TypeOK, SessionLocks, Ending, Control, Statements, TokenLocks,
         Rotating
<1>5. Sweeping'
  BY DEF TouchSession, TypeOK, Sweeping
<1>6. LateTokens'
  BY DEF TouchSession, TypeOK, LateTokens, AtMostOneLate, Rotating, Revoked, TxReasons,
         AutoReasons
<1>7. Containment'
  BY DEF TouchSession, TypeOK, Containment, Revoked, TxReasons, AutoReasons
<1>8. Shape' /\ LinearFamily' /\ LogoutSweepsFamilies'
  BY FrameShape, FrameLinearFamily, FrameLogoutSweepsFamilies
     DEF TouchSession
<1> QED
  BY <1>1, <1>2, <1>3, <1>4, <1>5, <1>6, <1>7, <1>8 DEF IInv

\* The commit spends the claimed token and links it to its successor; it holds
\* the session's lock, so no logout has swept and not committed.
LEMMA CommitRefreshKeeps ==
  ASSUME IInv, NEW p \in Procs, NEW n \in Tokens, CommitRefresh(p, n)
  PROVE  IInv'
<1>1. TypeOK'
  BY DEF CommitRefresh, Revoked, TxReasons, AutoReasons, TypeOK, PCs, Ops, TokenStatus,
         Control, Statements, Shape, TokenLocks, SessionLocks, Rotating, Ending,
         Sweeping, LateTokens, AtMostOneLate
<1>2. Control'
  BY DEF CommitRefresh, Revoked, TxReasons, AutoReasons, TypeOK, Control, Statements
<1>3. Shape'
  BY DEF CommitRefresh, Revoked, TxReasons, AutoReasons, TypeOK, Shape, Control,
         Statements, TokenLocks, Rotating
<1>4. TokenLocks'
  BY DEF CommitRefresh, Revoked, TxReasons, AutoReasons, TypeOK, TokenLocks, Rotating,
         Control, Statements
<1>5. SessionLocks'
  BY DEF CommitRefresh, Revoked, TxReasons, AutoReasons, TypeOK, SessionLocks, Ending,
         TokenLocks, Rotating
<1>6. LinearFamily'
  <2>1. /\ arg[p] \in Tokens /\ tokLock[arg[p]] = p /\ p # NoProc
        /\ status[arg[p]] = "active" /\ arg[p] # n
        /\ family[arg[p]] \in Tokens /\ succ[n] = NoToken /\ succ[arg[p]] = NoToken
    BY DEF CommitRefresh, TypeOK, Control, Shape, TokenLocks, Rotating, LinearFamily
  <2>2. /\ status' = [status EXCEPT ![arg[p]] = "consumed", ![n] = "active"]
        /\ succ' = [succ EXCEPT ![arg[p]] = n]
        /\ family' = [family EXCEPT ![n] = family[arg[p]]]
        /\ sessionOf' = [sessionOf EXCEPT ![n] = sessionOf[arg[p]]]
    BY DEF CommitRefresh
  <2>3. \A t \in Tokens : succ[t] # n
    BY DEF Shape, CommitRefresh
  <2>4. \A t \in Tokens : status'[t] = "consumed" <=> succ'[t] # NoToken
    BY <2>1, <2>2 DEF TypeOK, LinearFamily
  <2>5. ASSUME NEW t \in Tokens, succ'[t] # NoToken
        PROVE  family'[succ'[t]] = family'[t] /\ sessionOf'[succ'[t]] = sessionOf'[t]
    <3>1. CASE t = arg[p]
      BY <2>1, <2>2, <3>1 DEF TypeOK
    <3>2. CASE t # arg[p]
      <4>1. succ'[t] = succ[t] /\ succ[t] \in Tokens /\ succ[t] # n /\ t # n
        BY <2>1, <2>2, <2>3, <2>5, <3>2 DEF TypeOK
      <4>2. family[succ[t]] = family[t] /\ sessionOf[succ[t]] = sessionOf[t]
        BY <4>1, <2>5 DEF LinearFamily
      <4> QED
        BY <2>2, <4>1, <4>2 DEF TypeOK
    <3> QED
      BY <3>1, <3>2
  <2>6. ASSUME NEW t \in Tokens, NEW u \in Tokens, succ'[t] = succ'[u], succ'[t] # NoToken
        PROVE  t = u
    BY <2>1, <2>2, <2>3, <2>6 DEF TypeOK, LinearFamily
  <2>7. ASSUME NEW t \in Tokens, NEW u \in Tokens,
               status'[t] = "active", status'[u] = "active", family'[t] = family'[u]
        PROVE  t = u
    <3>1. \A x \in Tokens : x # n /\ status'[x] = "active" =>
              /\ x # arg[p] /\ status[x] = "active" /\ family'[x] = family[x]
              /\ family[x] # family[arg[p]]
      BY <2>1, <2>2 DEF TypeOK, LinearFamily
    <3>2. family'[n] = family[arg[p]]
      BY <2>2 DEF TypeOK
    <3> QED
      BY <2>7, <3>1, <3>2 DEF LinearFamily
  <2> QED
    BY <2>4, <2>5, <2>6, <2>7 DEF LinearFamily
<1>7. Sweeping'
  BY DEF CommitRefresh, Revoked, TxReasons, AutoReasons, TypeOK, Sweeping, SessionLocks,
         Ending
<1>8. LogoutSweepsFamilies'
  BY SMTT(40) DEF CommitRefresh, Revoked, TxReasons, AutoReasons, TypeOK,
         LogoutSweepsFamilies, Control, Statements, TokenLocks, Rotating
<1>9. LateTokens'
  BY SMTT(40) DEF CommitRefresh, Revoked, TxReasons, AutoReasons, TypeOK, LateTokens,
         AtMostOneLate, Rotating, Control, Statements, Shape, TokenLocks, LinearFamily
<1>10. Containment'
  BY DEF CommitRefresh, Revoked, TxReasons, AutoReasons, TypeOK, Containment
<1> QED
  BY <1>1, <1>2, <1>3, <1>4, <1>5, <1>6, <1>7, <1>8, <1>9, <1>10 DEF IInv

\* A revocation begins, holding no lock.
LEMMA RevokeTokenKeeps ==
  ASSUME IInv, NEW p \in Procs, NEW t \in Tokens, RevokeToken(p, t)
  PROVE  IInv'
<1>1. TypeOK'
  BY DEF RevokeToken, TypeOK, PCs, Ops, TokenStatus, TxReasons, AutoReasons
<1>2. Control'
  BY DEF RevokeToken, TypeOK, Control, Statements
<1>3. TokenLocks'
  BY DEF RevokeToken, TypeOK, TokenLocks, Rotating
<1>4. SessionLocks'
  BY DEF RevokeToken, TypeOK, SessionLocks, Ending
<1>5. Sweeping'
  BY DEF RevokeToken, TypeOK, Sweeping
<1>6. LateTokens'
  BY DEF RevokeToken, TypeOK, LateTokens, AtMostOneLate, Rotating, Revoked, TxReasons,
         AutoReasons
<1>7. Containment'
  BY DEF RevokeToken, TypeOK, Containment, Revoked, TxReasons, AutoReasons
<1>8. Shape' /\ LinearFamily' /\ LogoutSweepsFamilies'
  BY FrameShape, FrameLinearFamily, FrameLogoutSweepsFamilies
     DEF RevokeToken
<1> QED
  BY <1>1, <1>2, <1>3, <1>4, <1>5, <1>6, <1>7, <1>8 DEF IInv

\* The lookup names the token's session.
LEMMA RefreshByHashKeeps ==
  ASSUME IInv, NEW p \in Procs, RefreshByHash(p)
  PROVE  IInv'
<1>1. TypeOK'
  BY DEF RefreshByHash, Responds, TypeOK, PCs, Ops, TokenStatus, TxReasons, AutoReasons,
         Control, Statements, Shape
<1>2. Control'
  BY DEF RefreshByHash, Responds, TypeOK, Control, Statements, Shape
<1>3. TokenLocks'
  BY DEF RefreshByHash, Responds, TypeOK, TokenLocks, Rotating
<1>4. SessionLocks'
  BY DEF RefreshByHash, Responds, TypeOK, SessionLocks, Ending
<1>5. Sweeping'
  BY DEF RefreshByHash, Responds, TypeOK, Sweeping
<1>6. LateTokens'
  BY DEF RefreshByHash, Responds, TypeOK, LateTokens, AtMostOneLate, Rotating, Revoked,
         TxReasons, AutoReasons
<1>7. Containment'
  BY DEF RefreshByHash, Responds, TypeOK, Containment, Revoked, TxReasons, AutoReasons
<1>8. Shape' /\ LinearFamily' /\ LogoutSweepsFamilies'
  BY FrameShape, FrameLinearFamily, FrameLogoutSweepsFamilies
     DEF RefreshByHash
<1> QED
  BY <1>1, <1>2, <1>3, <1>4, <1>5, <1>6, <1>7, <1>8 DEF IInv

\* Nothing to respond to: the request returns.
LEMMA RefreshUnknownKeeps ==
  ASSUME IInv, NEW p \in Procs, RefreshUnknown(p)
  PROVE  IInv'
<1>1. TypeOK'
  BY DEF RefreshUnknown, Responds, TypeOK, PCs, Ops, TokenStatus, TxReasons, AutoReasons
<1>2. Control'
  BY DEF RefreshUnknown, Responds, TypeOK, Control, Statements
<1>3. TokenLocks'
  BY DEF RefreshUnknown, Responds, TypeOK, TokenLocks, Rotating
<1>4. SessionLocks'
  BY DEF RefreshUnknown, Responds, TypeOK, SessionLocks, Ending
<1>5. Sweeping'
  BY DEF RefreshUnknown, Responds, TypeOK, Sweeping
<1>6. LateTokens'
  BY DEF RefreshUnknown, Responds, TypeOK, LateTokens, AtMostOneLate, Rotating, Revoked,
         TxReasons, AutoReasons
<1>7. Containment'
  BY DEF RefreshUnknown, Responds, TypeOK, Containment, Revoked, TxReasons, AutoReasons
<1>8. Shape' /\ LinearFamily' /\ LogoutSweepsFamilies'
  BY FrameShape, FrameLinearFamily, FrameLogoutSweepsFamilies
     DEF RefreshUnknown
<1> QED
  BY <1>1, <1>2, <1>3, <1>4, <1>5, <1>6, <1>7, <1>8 DEF IInv

\* The family sweep fixes the rows it will visit.
LEMMA FamilyScanKeeps ==
  ASSUME IInv, NEW p \in Procs, FamilyScan(p)
  PROVE  IInv'
<1>1. TypeOK'
  BY DEF FamilyScan, TypeOK, PCs, Ops, TokenStatus, TxReasons, AutoReasons
<1>2. Control'
  BY SMTT(40) DEF FamilyScan, TypeOK, Control, Statements, Ops, PCs
<1>3. TokenLocks'
  BY DEF FamilyScan, TypeOK, TokenLocks, Rotating
<1>4. SessionLocks'
  BY DEF FamilyScan, TypeOK, SessionLocks, Ending
<1>5. Sweeping'
  BY DEF FamilyScan, TypeOK, Sweeping
<1>6. LateTokens'
  BY DEF FamilyScan, TypeOK, LateTokens, AtMostOneLate, Rotating, Revoked, TxReasons,
         AutoReasons
<1>7. Containment'
  BY DEF FamilyScan, TypeOK, Containment, Revoked, TxReasons, AutoReasons
<1>8. Shape' /\ LinearFamily' /\ LogoutSweepsFamilies'
  BY FrameShape, FrameLinearFamily, FrameLogoutSweepsFamilies
     DEF FamilyScan
<1> QED
  BY <1>1, <1>2, <1>3, <1>4, <1>5, <1>6, <1>7, <1>8 DEF IInv

\* The session sweep fixes the rows it will visit: every active token of the
\* families it covers.
LEMMA SessionScanKeeps ==
  ASSUME IInv, NEW p \in Procs, SessionScan(p)
  PROVE  IInv'
<1>1. TypeOK'
  BY DEF SessionScan, TypeOK, PCs, Ops, TokenStatus, TxReasons, AutoReasons
<1>2. Control'
  BY SMTT(30) DEF SessionScan, TypeOK, Control, Statements, Ops, PCs
<1>3. Shape'
  BY DEF SessionScan, TypeOK, Shape
<1>4. TokenLocks'
  BY DEF SessionScan, TypeOK, TokenLocks, Rotating
<1>5. SessionLocks'
  BY DEF SessionScan, TypeOK, SessionLocks, Ending
<1>6. Sweeping'
  BY DEF SessionScan, TypeOK, Sweeping, SessionLocks, Ending
<1>7. LogoutSweepsFamilies'
  BY DEF SessionScan, TypeOK, LogoutSweepsFamilies, TxReasons, Shape, SessionLocks,
         Ending
<1>8. LateTokens'
  BY DEF SessionScan, TypeOK, LateTokens, AtMostOneLate, Rotating, Revoked, TxReasons,
         AutoReasons
<1>9. Containment'
  BY DEF SessionScan, TypeOK, Containment, Revoked, TxReasons, AutoReasons
<1>10. LinearFamily'
  BY FrameLinearFamily
     DEF SessionScan
<1> QED
  BY <1>1, <1>2, <1>3, <1>4, <1>5, <1>6, <1>7, <1>8, <1>9, <1>10 DEF IInv

\* The sweep takes the lock of a row that is still active, or leaves one that
\* is not.
LEMMA SweepRowKeeps ==
  ASSUME IInv, NEW p \in Procs, NEW t \in Tokens, SweepRow(p, t)
  PROVE  IInv'
<1>1. TypeOK'
  BY DEF SweepRow, Matches, TypeOK, PCs, Ops, TokenStatus, TxReasons, AutoReasons
<1>2. TokenLocks'
  BY DEF SweepRow, Matches, TypeOK, TokenLocks, Rotating
<1>3. Sweeping'
  BY DEF SweepRow, Matches, TypeOK, Sweeping
<1>4. Control' /\ Shape' /\ SessionLocks' /\ LinearFamily' /\ LogoutSweepsFamilies'
      /\ LateTokens' /\ Containment'
  BY FrameControl, FrameShape, FrameSessionLocks, FrameLinearFamily,
     FrameLogoutSweepsFamilies, FrameLateTokens, FrameContainment
     DEF SweepRow
<1> QED
  BY <1>1, <1>2, <1>3, <1>4 DEF IInv

\* The swept rows of a family are committed as revoked.
LEMMA RevokeRefreshFamilyKeeps ==
  ASSUME IInv, NEW p \in Procs, RevokeRefreshFamily(p)
  PROVE  IInv'
<1>1. TypeOK'
  BY DEF RevokeRefreshFamily, Swept, TypeOK, PCs, Ops, TokenStatus, TxReasons,
         AutoReasons
<1>2. Control'
  BY DEF RevokeRefreshFamily, Swept, TypeOK, Control, Statements
<1>3. Shape'
  BY SMTT(40) DEF RevokeRefreshFamily, Swept, TypeOK, Shape, TokenLocks, Rotating
<1>4. TokenLocks'
  BY DEF RevokeRefreshFamily, Swept, TypeOK, TokenLocks, Rotating, Control, Statements
<1>5. SessionLocks'
  BY SMTT(40) DEF RevokeRefreshFamily, Swept, TypeOK, SessionLocks, Ending, Control,
         Statements
<1>6. LinearFamily'
  BY DEF RevokeRefreshFamily, Swept, TypeOK, LinearFamily, TokenLocks, Rotating, PCs,
         Ops, TokenStatus
<1>7. Sweeping'
  BY DEF RevokeRefreshFamily, Swept, TypeOK, Sweeping
<1>8. LogoutSweepsFamilies'
  BY DEF RevokeRefreshFamily, Swept, TypeOK, LogoutSweepsFamilies, TxReasons
<1>9. LateTokens'
  BY DEF RevokeRefreshFamily, Swept, TypeOK, LateTokens, AtMostOneLate, Rotating,
         TokenLocks, Revoked, TxReasons, AutoReasons
<1>10. Containment'
  BY DEF RevokeRefreshFamily, Swept, TypeOK, Containment, Revoked, TxReasons,
         AutoReasons
<1> QED
  BY <1>1, <1>2, <1>3, <1>4, <1>5, <1>6, <1>7, <1>8, <1>9, <1>10 DEF IInv

\* The same, for the family of a dead session.
LEMMA RevokeDeadFamilyKeeps ==
  ASSUME IInv, NEW p \in Procs, RevokeDeadFamily(p)
  PROVE  IInv'
<1>1. TypeOK'
  BY DEF RevokeDeadFamily, Swept, TypeOK, PCs, Ops, TokenStatus, TxReasons, AutoReasons
<1>2. Control'
  BY DEF RevokeDeadFamily, Swept, TypeOK, Control, Statements
<1>3. Shape'
  BY SMTT(40) DEF RevokeDeadFamily, Swept, TypeOK, Shape, TokenLocks, Rotating
<1>4. TokenLocks'
  BY DEF RevokeDeadFamily, Swept, TypeOK, TokenLocks, Rotating, Control, Statements
<1>5. SessionLocks'
  BY DEF RevokeDeadFamily, Swept, TypeOK, SessionLocks, Ending, TokenLocks, Rotating
<1>6. LinearFamily'
  BY DEF RevokeDeadFamily, Swept, TypeOK, LinearFamily, TokenLocks, Rotating
<1>7. Sweeping'
  BY DEF RevokeDeadFamily, Swept, TypeOK, Sweeping
<1>8. LogoutSweepsFamilies'
  BY DEF RevokeDeadFamily, Swept, TypeOK, LogoutSweepsFamilies, TxReasons
<1>9. LateTokens'
  BY SMTT(40) DEF RevokeDeadFamily, Swept, TypeOK, LateTokens, AtMostOneLate, Rotating,
         TokenLocks, Revoked, TxReasons, AutoReasons
<1>10. Containment'
  BY DEF RevokeDeadFamily, Swept, TypeOK, Containment, Revoked, TxReasons, AutoReasons
<1> QED
  BY <1>1, <1>2, <1>3, <1>4, <1>5, <1>6, <1>7, <1>8, <1>9, <1>10 DEF IInv

\* A live session nobody has locked is revoked, and no logout is ending it.
LEMMA RevokeSessionKeeps ==
  ASSUME IInv, NEW p \in Procs, RevokeSession(p)
  PROVE  IInv'
<1>1. TypeOK'
  BY DEF RevokeSession, Reason, TypeOK, PCs, Ops, TokenStatus, TxReasons, AutoReasons
<1>2. Control'
  BY DEF RevokeSession, Reason, TypeOK, Control, Statements
<1>3. Shape'
  BY DEF RevokeSession, Reason, TypeOK, Shape
<1>4. TokenLocks'
  BY DEF RevokeSession, Reason, TypeOK, TokenLocks, Rotating
<1>5. SessionLocks'
  BY DEF RevokeSession, Reason, TypeOK, SessionLocks, Ending
<1>6. Sweeping'
  BY DEF RevokeSession, Reason, TypeOK, Sweeping
<1>7. LogoutSweepsFamilies'
  BY DEF RevokeSession, Reason, TypeOK, LogoutSweepsFamilies, TxReasons, Shape
<1>8. LateTokens'
  BY DEF RevokeSession, Reason, TypeOK, LateTokens, AtMostOneLate, Rotating, Shape,
         Revoked, TxReasons, AutoReasons
<1>9. Containment'
  BY DEF RevokeSession, Reason, TypeOK, Containment, Revoked, TxReasons, AutoReasons
<1>10. LinearFamily'
  BY FrameLinearFamily
     DEF RevokeSession
<1> QED
  BY <1>1, <1>2, <1>3, <1>4, <1>5, <1>6, <1>7, <1>8, <1>9, <1>10 DEF IInv

\* The session was revoked already: the response reports contained=false.
LEMMA RevokeSessionNotFoundKeeps ==
  ASSUME IInv, NEW p \in Procs, RevokeSessionNotFound(p)
  PROVE  IInv'
<1>1. TypeOK'
  BY SMTT(40) DEF RevokeSessionNotFound, EmitReuse, TypeOK, PCs, Ops, TokenStatus,
         TxReasons, AutoReasons
<1>2. Control'
  BY DEF RevokeSessionNotFound, EmitReuse, TypeOK, Control, Statements
<1>3. TokenLocks'
  BY DEF RevokeSessionNotFound, EmitReuse, TypeOK, TokenLocks, Rotating
<1>4. SessionLocks'
  BY DEF RevokeSessionNotFound, EmitReuse, TypeOK, SessionLocks, Ending
<1>5. Sweeping'
  BY DEF RevokeSessionNotFound, EmitReuse, TypeOK, Sweeping
<1>6. LateTokens'
  BY DEF RevokeSessionNotFound, EmitReuse, TypeOK, LateTokens, AtMostOneLate, Rotating,
         Revoked, TxReasons, AutoReasons
<1>7. Containment'
  BY SMTT(40) DEF RevokeSessionNotFound, EmitReuse, TypeOK, Containment, Revoked,
         TxReasons, AutoReasons
<1>8. Shape' /\ LinearFamily' /\ LogoutSweepsFamilies'
  BY FrameShape, FrameLinearFamily, FrameLogoutSweepsFamilies
     DEF RevokeSessionNotFound
<1> QED
  BY <1>1, <1>2, <1>3, <1>4, <1>5, <1>6, <1>7, <1>8 DEF IInv

\* The theft response ends: it reports containment of a session it revoked.
LEMMA RevokeRefreshBySessionsKeeps ==
  ASSUME IInv, NEW p \in Procs, RevokeRefreshBySessions(p)
  PROVE  IInv'
<1>1. TypeOK'
  <2>1. alarm' \in [Sessions -> SUBSET {"true", "false"}]
    BY DEF RevokeRefreshBySessions, EmitReuse, TypeOK
  <2>2. status' \in [Tokens -> TokenStatus]
    BY DEF RevokeRefreshBySessions, Swept, TypeOK, TokenStatus
  <2> QED
    BY <2>1, <2>2 DEF RevokeRefreshBySessions, TypeOK, PCs, Ops
<1>2. Control'
  BY DEF RevokeRefreshBySessions, Swept, EmitReuse, TypeOK, Control, Statements
<1>3. Shape'
  BY DEF RevokeRefreshBySessions, Swept, EmitReuse, TypeOK, Shape, TokenLocks, Rotating
<1>4. TokenLocks'
  BY DEF RevokeRefreshBySessions, Swept, EmitReuse, TypeOK, TokenLocks, Rotating,
         Control, Statements
<1>5. SessionLocks'
  BY DEF RevokeRefreshBySessions, Swept, EmitReuse, TypeOK, SessionLocks, Ending,
         TokenLocks, Rotating
<1>6. LinearFamily'
  BY DEF RevokeRefreshBySessions, Swept, EmitReuse, TypeOK, LinearFamily, TokenLocks,
         Rotating
<1>7. Sweeping'
  BY DEF RevokeRefreshBySessions, Swept, EmitReuse, TypeOK, Sweeping
<1>8. LogoutSweepsFamilies'
  BY DEF RevokeRefreshBySessions, Swept, EmitReuse, TypeOK, LogoutSweepsFamilies,
         TxReasons
<1>9. LateTokens'
  BY DEF RevokeRefreshBySessions, Swept, EmitReuse, TypeOK, LateTokens, AtMostOneLate,
         Rotating, TokenLocks, Revoked, TxReasons, AutoReasons
<1>10. Containment'
  BY DEF RevokeRefreshBySessions, Swept, EmitReuse, TypeOK, Containment, Revoked,
         TxReasons, AutoReasons
<1> QED
  BY <1>1, <1>2, <1>3, <1>4, <1>5, <1>6, <1>7, <1>8, <1>9, <1>10 DEF IInv

\* The revocation of an access token begins, holding no lock.
LEMMA EndSessionKeeps ==
  ASSUME IInv, NEW p \in Procs, NEW s \in Sessions, EndSession(p, s)
  PROVE  IInv'
<1>1. TypeOK'
  BY DEF EndSession, TypeOK, PCs, Ops, TokenStatus, TxReasons, AutoReasons
<1>2. Control'
  BY DEF EndSession, TypeOK, Control, Statements
<1>3. TokenLocks'
  BY DEF EndSession, TypeOK, TokenLocks, Rotating
<1>4. SessionLocks'
  BY DEF EndSession, TypeOK, SessionLocks, Ending
<1>5. Sweeping'
  BY DEF EndSession, TypeOK, Sweeping
<1>6. LateTokens'
  BY DEF EndSession, TypeOK, LateTokens, AtMostOneLate, Rotating, Revoked, TxReasons,
         AutoReasons
<1>7. Containment'
  BY DEF EndSession, TypeOK, Containment, Revoked, TxReasons, AutoReasons
<1>8. Shape' /\ LinearFamily' /\ LogoutSweepsFamilies'
  BY FrameShape, FrameLinearFamily, FrameLogoutSweepsFamilies
     DEF EndSession
<1> QED
  BY <1>1, <1>2, <1>3, <1>4, <1>5, <1>6, <1>7, <1>8 DEF IInv

\* A logout begins, holding no lock.
LEMMA LogoutKeeps ==
  ASSUME IInv, NEW p \in Procs, NEW i \in Identities, NEW s \in Sessions, Logout(p, i, s)
  PROVE  IInv'
<1>1. TypeOK'
  BY DEF Logout, TypeOK, PCs, Ops, TokenStatus, TxReasons, AutoReasons
<1>2. Control'
  BY DEF Logout, TypeOK, Control, Statements
<1>3. TokenLocks'
  BY DEF Logout, TypeOK, TokenLocks, Rotating
<1>4. SessionLocks'
  BY DEF Logout, TypeOK, SessionLocks, Ending
<1>5. Sweeping'
  BY DEF Logout, TypeOK, Sweeping
<1>6. LateTokens'
  BY DEF Logout, TypeOK, LateTokens, AtMostOneLate, Rotating, Revoked, TxReasons,
         AutoReasons
<1>7. Containment'
  BY DEF Logout, TypeOK, Containment, Revoked, TxReasons, AutoReasons
<1>8. Shape' /\ LinearFamily' /\ LogoutSweepsFamilies'
  BY FrameShape, FrameLinearFamily, FrameLogoutSweepsFamilies
     DEF Logout
<1> QED
  BY <1>1, <1>2, <1>3, <1>4, <1>5, <1>6, <1>7, <1>8 DEF IInv

\* The logout takes its session's row lock, which no rotation holds.
LEMMA RevokeOneKeeps ==
  ASSUME IInv, NEW p \in Procs, RevokeOne(p)
  PROVE  IInv'
<1>1. TypeOK'
  BY DEF RevokeOne, TypeOK, PCs, Ops, TokenStatus, TxReasons, AutoReasons
<1>2. Control'
  BY DEF RevokeOne, TypeOK, Control, Statements
<1>3. TokenLocks'
  BY DEF RevokeOne, TypeOK, TokenLocks, Rotating
<1>4. SessionLocks'
  BY DEF RevokeOne, TypeOK, SessionLocks, Ending, TokenLocks, Rotating
<1>5. Sweeping'
  BY DEF RevokeOne, TypeOK, Sweeping
<1>6. LateTokens'
  BY DEF RevokeOne, TypeOK, LateTokens, AtMostOneLate, Rotating, Revoked, TxReasons,
         AutoReasons
<1>7. Containment'
  BY DEF RevokeOne, TypeOK, Containment, Revoked, TxReasons, AutoReasons
<1>8. Shape' /\ LinearFamily' /\ LogoutSweepsFamilies'
  BY FrameShape, FrameLinearFamily, FrameLogoutSweepsFamilies
     DEF RevokeOne
<1> QED
  BY <1>1, <1>2, <1>3, <1>4, <1>5, <1>6, <1>7, <1>8 DEF IInv

\* Somebody else's session: rolled back.
LEMMA RevokeOneDeniedKeeps ==
  ASSUME IInv, NEW p \in Procs, RevokeOneDenied(p)
  PROVE  IInv'
<1>1. TypeOK'
  BY DEF RevokeOneDenied, TypeOK, PCs, Ops, TokenStatus, TxReasons, AutoReasons
<1>2. Control'
  BY DEF RevokeOneDenied, TypeOK, Control, Statements
<1>3. TokenLocks'
  BY DEF RevokeOneDenied, TypeOK, TokenLocks, Rotating, Control, Statements
<1>4. SessionLocks'
  BY SMTT(40) DEF RevokeOneDenied, TypeOK, SessionLocks, Ending
<1>5. Sweeping'
  BY DEF RevokeOneDenied, TypeOK, Sweeping
<1>6. LateTokens'
  BY DEF RevokeOneDenied, TypeOK, LateTokens, AtMostOneLate, Rotating, Revoked,
         TxReasons, AutoReasons
<1>7. Containment'
  BY DEF RevokeOneDenied, TypeOK, Containment, Revoked, TxReasons, AutoReasons
<1>8. Shape' /\ LinearFamily' /\ LogoutSweepsFamilies'
  BY FrameShape, FrameLinearFamily, FrameLogoutSweepsFamilies
     DEF RevokeOneDenied
<1> QED
  BY <1>1, <1>2, <1>3, <1>4, <1>5, <1>6, <1>7, <1>8 DEF IInv

\* A logout of everything begins with no session of its own yet.
LEMMA LogoutAllKeeps ==
  ASSUME IInv, NEW p \in Procs, NEW i \in Identities, LogoutAll(p, i)
  PROVE  IInv'
<1>1. TypeOK'
  BY DEF LogoutAll, TypeOK, PCs, Ops, TokenStatus, TxReasons, AutoReasons
<1>2. Control'
  BY DEF LogoutAll, TypeOK, Control, Statements
<1>3. TokenLocks'
  BY DEF LogoutAll, TypeOK, TokenLocks, Rotating
<1>4. SessionLocks'
  BY DEF LogoutAll, TypeOK, SessionLocks, Ending
<1>5. Sweeping'
  BY DEF LogoutAll, TypeOK, Sweeping
<1>6. LateTokens'
  BY DEF LogoutAll, TypeOK, LateTokens, AtMostOneLate, Rotating, Revoked, TxReasons,
         AutoReasons
<1>7. Containment'
  BY DEF LogoutAll, TypeOK, Containment, Revoked, TxReasons, AutoReasons
<1>8. Shape' /\ LinearFamily' /\ LogoutSweepsFamilies'
  BY FrameShape, FrameLinearFamily, FrameLogoutSweepsFamilies
     DEF LogoutAll
<1> QED
  BY <1>1, <1>2, <1>3, <1>4, <1>5, <1>6, <1>7, <1>8 DEF IInv

\* Its UPDATE fixes the sessions it will visit.
LEMMA AllScanKeeps ==
  ASSUME IInv, NEW p \in Procs, AllScan(p)
  PROVE  IInv'
<1>1. TypeOK'
  BY DEF AllScan, TypeOK, PCs, Ops, TokenStatus, TxReasons, AutoReasons
<1>2. Control'
  BY DEF AllScan, TypeOK, Control, Statements, PCs, Ops
<1>3. TokenLocks'
  BY DEF AllScan, TypeOK, TokenLocks, Rotating
<1>4. SessionLocks'
  BY DEF AllScan, TypeOK, SessionLocks, Ending, Control, Statements
<1>5. Sweeping'
  BY DEF AllScan, TypeOK, Sweeping
<1>6. LateTokens'
  BY DEF AllScan, TypeOK, LateTokens, AtMostOneLate, Rotating, Revoked, TxReasons,
         AutoReasons
<1>7. Containment'
  BY DEF AllScan, TypeOK, Containment, Revoked, TxReasons, AutoReasons
<1>8. Shape' /\ LinearFamily' /\ LogoutSweepsFamilies'
  BY FrameShape, FrameLinearFamily, FrameLogoutSweepsFamilies
     DEF AllScan
<1> QED
  BY <1>1, <1>2, <1>3, <1>4, <1>5, <1>6, <1>7, <1>8 DEF IInv

\* One session of the UPDATE: locked if it is still live.
LEMMA AllRowKeeps ==
  ASSUME IInv, NEW p \in Procs, NEW s \in Sessions, AllRow(p, s)
  PROVE  IInv'
<1>1. TypeOK'
  BY DEF AllRow, TypeOK, PCs, Ops, TokenStatus, TxReasons, AutoReasons
<1>2. Control'
  BY DEF AllRow, TypeOK, Control, Statements
<1>3. TokenLocks'
  BY DEF AllRow, TypeOK, TokenLocks, Rotating
<1>4. SessionLocks'
  <2>0. op[p] = "logout_all"
    BY DEF AllRow, TypeOK, Ops, Control, Statements
  <2>1. /\ Ending(p) /\ p # NoProc /\ sesLock[s] = NoProc
        /\ UNCHANGED <<sess, pc, op, arg, sessionOf>>
        /\ \A q \in Procs : Ending(q)' <=> Ending(q)
    BY <2>0 DEF AllRow, Ending
  <2>2. CASE sess[s] = "live"
    <3>1. /\ sesLock' = [sesLock EXCEPT ![s] = p]
          /\ ids' = [ids EXCEPT ![p] = @ \cup {s}]
      BY <2>2 DEF AllRow
    <3>2. /\ sesLock'[s] = p /\ \A x \in Sessions : x # s => sesLock'[x] = sesLock[x]
          /\ ids'[p] = ids[p] \cup {s} /\ \A q \in Procs : q # p => ids'[q] = ids[q]
      BY <2>1, <3>1 DEF TypeOK
    <3>3. \A q \in Procs : Ending(q) => sesLock[s] # q
      BY <2>1
    <3>4. ASSUME NEW x \in Sessions, sesLock'[x] # NoProc
          PROVE  /\ sess'[x] # "none"
                 /\ \/ Ending(sesLock[x])'
                    \/ op'[sesLock'[x]] = "refresh" /\ pc'[sesLock'[x]] = "commit"
      BY <2>1, <2>2, <3>2, <3>4 DEF TypeOK, SessionLocks, Ending
    <3>5. \A q \in Procs : op'[q] = "refresh" /\ pc'[q] = "commit" =>
              sesLock'[sessionOf'[arg'[q]]] = q
      BY <2>1, <3>2 DEF TypeOK, Control, Shape, TokenLocks, Rotating, SessionLocks
    <3>6. ASSUME NEW q \in Procs, Ending(q), NEW x \in Sessions
          PROVE  (sesLock'[x] = q <=> x \in ids'[q]) /\ (x \in ids'[q] => sess'[x] = "live")
      <4>1. (sesLock[x] = q <=> x \in ids[q]) /\ (x \in ids[q] => sess[x] = "live")
        BY <3>6 DEF SessionLocks
      <4> QED
        BY <2>1, <2>2, <3>2, <3>3, <3>6, <4>1
    <3> QED
      BY <2>1, <3>4, <3>5, <3>6 DEF SessionLocks
  <2>3. CASE sess[s] # "live"
    <3>1. sesLock' = sesLock /\ ids' = ids
      BY <2>3 DEF AllRow, TypeOK
    <3> QED
      BY <2>1, <3>1, FrameSessionLocks
  <2> QED
    BY <2>2, <2>3
<1>5. Sweeping'
  BY DEF AllRow, TypeOK, Sweeping
<1>6. Containment'
  BY DEF AllRow, TypeOK, Containment, Revoked, TxReasons, AutoReasons
<1>7. Shape' /\ LinearFamily' /\ LogoutSweepsFamilies' /\ LateTokens'
  BY FrameShape, FrameLinearFamily, FrameLogoutSweepsFamilies, FrameLateTokens
     DEF AllRow
<1> QED
  BY <1>1, <1>2, <1>3, <1>4, <1>5, <1>6, <1>7 DEF IInv

\* The UPDATE is over, the sessions it holds are the ones it ends.
LEMMA RevokeAllSessionsKeeps ==
  ASSUME IInv, NEW p \in Procs, RevokeAllSessions(p)
  PROVE  IInv'
<1>1. TypeOK'
  BY DEF RevokeAllSessions, TypeOK, PCs, Ops, TokenStatus, TxReasons, AutoReasons
<1>2. Control'
  BY DEF RevokeAllSessions, TypeOK, Control, Statements, PCs, Ops
<1>3. TokenLocks'
  BY DEF RevokeAllSessions, TypeOK, TokenLocks, Rotating, Control, Statements
<1>4. SessionLocks'
  BY DEF RevokeAllSessions, TypeOK, SessionLocks, Ending, Control, Statements,
         TokenLocks, Rotating
<1>5. Sweeping'
  BY DEF RevokeAllSessions, TypeOK, Sweeping
<1>6. LateTokens'
  BY SMTT(40) DEF RevokeAllSessions, TypeOK, LateTokens, AtMostOneLate, Rotating,
         Control, Statements, Revoked, TxReasons, AutoReasons
<1>7. Containment'
  BY SMTT(40) DEF RevokeAllSessions, TypeOK, Containment, Revoked, TxReasons,
         AutoReasons, Control, Statements, Sweeping, PCs, Ops, TokenStatus
<1>8. Shape' /\ LinearFamily' /\ LogoutSweepsFamilies'
  BY FrameShape, FrameLinearFamily, FrameLogoutSweepsFamilies
     DEF RevokeAllSessions
<1> QED
  BY <1>1, <1>2, <1>3, <1>4, <1>5, <1>6, <1>7, <1>8 DEF IInv

\* Every token the sweep had to visit is locked or was no longer active.
LEMMA LogoutSweptKeeps ==
  ASSUME IInv, NEW p \in Procs, LogoutSwept(p)
  PROVE  IInv'
<1>1. TypeOK'
  BY DEF LogoutSwept, TypeOK, PCs, Ops, TokenStatus, TxReasons, AutoReasons
<1>2. Control'
  BY DEF LogoutSwept, TypeOK, Control, Statements
<1>3. TokenLocks'
  BY DEF LogoutSwept, TypeOK, TokenLocks, Rotating
<1>4. SessionLocks'
  BY DEF LogoutSwept, TypeOK, SessionLocks, Ending
<1>5. Sweeping'
  BY DEF LogoutSwept, TypeOK, Sweeping
<1>6. LateTokens'
  BY DEF LogoutSwept, TypeOK, LateTokens, AtMostOneLate, Rotating, Revoked, TxReasons,
         AutoReasons
<1>7. Containment'
  BY DEF LogoutSwept, TypeOK, Containment, Revoked, TxReasons, AutoReasons
<1>8. Shape' /\ LinearFamily' /\ LogoutSweepsFamilies'
  BY FrameShape, FrameLinearFamily, FrameLogoutSweepsFamilies
     DEF LogoutSwept
<1> QED
  BY <1>1, <1>2, <1>3, <1>4, <1>5, <1>6, <1>7, <1>8 DEF IInv

\* The logout commits: the tokens it swept were all the active ones of the
\* families it covers, so none is left.
LEMMA CommitLogoutKeeps ==
  ASSUME IInv, NEW p \in Procs, CommitLogout(p)
  PROVE  IInv'
<1>1. TypeOK'
  BY DEF CommitLogout, Swept, Reason, TypeOK, PCs, Ops, TokenStatus, TxReasons,
         AutoReasons
<1>2. Control'
  BY DEF CommitLogout, Swept, Reason, TypeOK, Control, Statements
<1>3. Shape'
  BY DEF CommitLogout, Swept, Reason, TypeOK, Shape, TokenLocks, Rotating
<1>4. TokenLocks'
  BY DEF CommitLogout, Swept, Reason, TypeOK, TokenLocks, Rotating, Control, Statements
<1>5. SessionLocks'
  BY DEF CommitLogout, Swept, Reason, TypeOK, SessionLocks, Ending, TokenLocks, Rotating
<1>6. LinearFamily'
  BY DEF CommitLogout, Swept, Reason, TypeOK, LinearFamily, TokenLocks, Rotating
<1>7. Sweeping'
  BY DEF CommitLogout, Swept, Reason, TypeOK, Sweeping
<1>8. LogoutSweepsFamilies'
  BY DEF CommitLogout, Swept, Reason, TypeOK, LogoutSweepsFamilies, TxReasons, Shape,
         SessionLocks, Ending, Sweeping
<1>9. LateTokens'
  <2>1. UNCHANGED <<late, family, sessionOf>>
    BY DEF CommitLogout
  <2>2. \A t \in Tokens : status'[t] # "none" => status[t] # "none"
    BY SMTT(30) DEF CommitLogout, Swept, TypeOK, TokenLocks
  <2>3. \A s \in Sessions : Revoked(s) => Revoked(s)'
    BY DEF CommitLogout, TypeOK, Revoked, Reason, TxReasons, AutoReasons
  <2>4. \A q \in Procs : Rotating(q)' => Rotating(q) /\ pc'[q] = pc[q] /\ arg'[q] = arg[q]
    BY DEF CommitLogout, Rotating, TypeOK
  <2>5. \A t \in Tokens : status[t] # "none" => sessionOf[t] \in Sessions
    BY DEF Shape
  <2> QED
    BY <2>1, <2>2, <2>3, <2>4, <2>5, SMTT(40) DEF LateTokens, AtMostOneLate
<1>10. Containment'
  BY DEF CommitLogout, Swept, Reason, TypeOK, Containment, Revoked, TxReasons,
         AutoReasons
<1> QED
  BY <1>1, <1>2, <1>3, <1>4, <1>5, <1>6, <1>7, <1>8, <1>9, <1>10 DEF IInv

\* A failed claim is taken for an unclaimable token; no lock is kept.
LEMMA ClaimErrorKeeps ==
  ASSUME IInv, NEW p \in Procs, ClaimError(p)
  PROVE  IInv'
<1>1. TypeOK'
  BY DEF ClaimError, Fails, TypeOK, PCs, Ops, TokenStatus, TxReasons, AutoReasons
<1>2. Control'
  BY DEF ClaimError, Fails, TypeOK, Control, Statements
<1>3. TokenLocks'
  BY DEF ClaimError, Fails, TypeOK, TokenLocks, Rotating, Control, Statements
<1>4. SessionLocks'
  BY DEF ClaimError, Fails, TypeOK, SessionLocks, Ending, TokenLocks, Rotating
<1>5. Sweeping'
  BY DEF ClaimError, Fails, TypeOK, Sweeping
<1>6. LateTokens'
  BY DEF ClaimError, Fails, TypeOK, LateTokens, AtMostOneLate, Rotating, Revoked,
         TxReasons, AutoReasons
<1>7. Containment'
  BY DEF ClaimError, Fails, TypeOK, Containment, Revoked, TxReasons, AutoReasons
<1>8. Shape' /\ LinearFamily' /\ LogoutSweepsFamilies'
  BY FrameShape, FrameLinearFamily, FrameLogoutSweepsFamilies
     DEF ClaimError, Fails
<1> QED
  BY <1>1, <1>2, <1>3, <1>4, <1>5, <1>6, <1>7, <1>8 DEF IInv

\* A failed read of the session is taken for a dead one; no lock is kept.
LEMMA SessionLiveErrorKeeps ==
  ASSUME IInv, NEW p \in Procs, SessionLiveError(p)
  PROVE  IInv'
<1>1. TypeOK'
  BY DEF SessionLiveError, Fails, TypeOK, PCs, Ops, TokenStatus, TxReasons, AutoReasons
<1>2. Control'
  BY DEF SessionLiveError, Fails, TypeOK, Control, Statements
<1>3. TokenLocks'
  BY DEF SessionLiveError, Fails, TypeOK, TokenLocks, Rotating, Control, Statements
<1>4. SessionLocks'
  BY SMTT(40) DEF SessionLiveError, Fails, TypeOK, SessionLocks, Ending
<1>5. Sweeping'
  BY DEF SessionLiveError, Fails, TypeOK, Sweeping
<1>6. LateTokens'
  BY DEF SessionLiveError, Fails, TypeOK, LateTokens, AtMostOneLate, Rotating, Revoked,
         TxReasons, AutoReasons
<1>7. Containment'
  BY DEF SessionLiveError, Fails, TypeOK, Containment, Revoked, TxReasons, AutoReasons
<1>8. Shape' /\ LinearFamily' /\ LogoutSweepsFamilies'
  BY FrameShape, FrameLinearFamily, FrameLogoutSweepsFamilies
     DEF SessionLiveError, Fails
<1> QED
  BY <1>1, <1>2, <1>3, <1>4, <1>5, <1>6, <1>7, <1>8 DEF IInv

\* The theft response goes on without its family sweep.
LEMMA FamilyErrorKeeps ==
  ASSUME IInv, NEW p \in Procs, FamilyError(p)
  PROVE  IInv'
<1>1. TypeOK'
  BY DEF FamilyError, Fails, TypeOK, PCs, Ops, TokenStatus, TxReasons, AutoReasons
<1>2. Control'
  BY DEF FamilyError, Fails, TypeOK, Control, Statements
<1>3. TokenLocks'
  BY DEF FamilyError, Fails, TypeOK, TokenLocks, Rotating, Control, Statements
<1>4. SessionLocks'
  BY SMTT(40) DEF FamilyError, Fails, TypeOK, SessionLocks, Ending
<1>5. Sweeping'
  BY DEF FamilyError, Fails, TypeOK, Sweeping
<1>6. LateTokens'
  BY DEF FamilyError, Fails, TypeOK, LateTokens, AtMostOneLate, Rotating, Revoked,
         TxReasons, AutoReasons
<1>7. Containment'
  BY DEF FamilyError, Fails, TypeOK, Containment, Revoked, TxReasons, AutoReasons
<1>8. Shape' /\ LinearFamily' /\ LogoutSweepsFamilies'
  BY FrameShape, FrameLinearFamily, FrameLogoutSweepsFamilies
     DEF FamilyError, Fails
<1> QED
  BY <1>1, <1>2, <1>3, <1>4, <1>5, <1>6, <1>7, <1>8 DEF IInv

\* The theft response reports the failure, never containment.
LEMMA ResponseErrorKeeps ==
  ASSUME IInv, NEW p \in Procs, ResponseError(p)
  PROVE  IInv'
<1>1. TypeOK'
  BY DEF ResponseError, EmitReuse, Fails, TypeOK, PCs, Ops, TokenStatus, TxReasons,
         AutoReasons
<1>2. Control'
  BY DEF ResponseError, EmitReuse, Fails, TypeOK, Control, Statements
<1>3. TokenLocks'
  BY DEF ResponseError, EmitReuse, Fails, TypeOK, TokenLocks, Rotating, Control,
         Statements
<1>4. SessionLocks'
  BY DEF ResponseError, EmitReuse, Fails, TypeOK, SessionLocks, Ending, TokenLocks,
         Rotating
<1>5. Sweeping'
  BY DEF ResponseError, EmitReuse, Fails, TypeOK, Sweeping
<1>6. LateTokens'
  BY DEF ResponseError, EmitReuse, Fails, TypeOK, LateTokens, AtMostOneLate, Rotating,
         Revoked, TxReasons, AutoReasons
<1>7. Containment'
  BY DEF ResponseError, EmitReuse, Fails, TypeOK, Containment, Revoked, TxReasons,
         AutoReasons
<1>8. Shape' /\ LinearFamily' /\ LogoutSweepsFamilies'
  BY FrameShape, FrameLinearFamily, FrameLogoutSweepsFamilies
     DEF ResponseError, Fails
<1> QED
  BY <1>1, <1>2, <1>3, <1>4, <1>5, <1>6, <1>7, <1>8 DEF IInv

\* Any other failed statement ends its request, rolled back.
LEMMA StatementErrorKeeps ==
  ASSUME IInv, NEW p \in Procs, StatementError(p)
  PROVE  IInv'
<1>1. TypeOK'
  BY DEF StatementError, Fails, TypeOK, PCs, Ops, TokenStatus, TxReasons, AutoReasons
<1>2. Control'
  BY DEF StatementError, Fails, TypeOK, Control, Statements
<1>3. TokenLocks'
  BY DEF StatementError, Fails, TypeOK, TokenLocks, Rotating, Control, Statements
<1>4. SessionLocks'
  BY DEF StatementError, Fails, TypeOK, SessionLocks, Ending, TokenLocks, Rotating
<1>5. Sweeping'
  BY DEF StatementError, Fails, TypeOK, Sweeping
<1>6. LateTokens'
  BY DEF StatementError, Fails, TypeOK, LateTokens, AtMostOneLate, Rotating, Revoked,
         TxReasons, AutoReasons
<1>7. Containment'
  BY DEF StatementError, Fails, TypeOK, Containment, Revoked, TxReasons, AutoReasons
<1>8. Shape' /\ LinearFamily' /\ LogoutSweepsFamilies'
  BY FrameShape, FrameLinearFamily, FrameLogoutSweepsFamilies
     DEF StatementError, Fails
<1> QED
  BY <1>1, <1>2, <1>3, <1>4, <1>5, <1>6, <1>7, <1>8 DEF IInv

\* A crash is a rollback.
LEMMA CrashKeeps ==
  ASSUME IInv, NEW p \in Procs, Crash(p)
  PROVE  IInv'
<1>1. TypeOK'
  BY DEF Crash, TypeOK, PCs, Ops, TokenStatus, TxReasons, AutoReasons
<1>2. Control'
  BY DEF Crash, TypeOK, Control, Statements
<1>3. TokenLocks'
  BY DEF Crash, TypeOK, TokenLocks, Rotating, Control, Statements
<1>4. SessionLocks'
  BY DEF Crash, TypeOK, SessionLocks, Ending, TokenLocks, Rotating
<1>5. Sweeping'
  BY DEF Crash, TypeOK, Sweeping
<1>6. LateTokens'
  BY DEF Crash, TypeOK, LateTokens, AtMostOneLate, Rotating, Revoked, TxReasons,
         AutoReasons
<1>7. Containment'
  BY DEF Crash, TypeOK, Containment, Revoked, TxReasons, AutoReasons
<1>8. Shape' /\ LinearFamily' /\ LogoutSweepsFamilies'
  BY FrameShape, FrameLinearFamily, FrameLogoutSweepsFamilies
     DEF Crash
<1> QED
  BY <1>1, <1>2, <1>3, <1>4, <1>5, <1>6, <1>7, <1>8 DEF IInv

\* Expiry changes no row.
LEMMA ExpireTokenKeeps ==
  ASSUME IInv, NEW t \in Tokens, ExpireToken(t)
  PROVE  IInv'
<1>1. TypeOK'
  BY DEF ExpireToken, TypeOK, PCs, Ops, TokenStatus, TxReasons, AutoReasons
<1>2. Control' /\ Shape' /\ TokenLocks' /\ SessionLocks' /\ LinearFamily' /\ Sweeping'
      /\ LogoutSweepsFamilies' /\ LateTokens' /\ Containment'
  BY FrameControl, FrameShape, FrameTokenLocks, FrameSessionLocks, FrameLinearFamily,
     FrameSweeping, FrameLogoutSweepsFamilies, FrameLateTokens, FrameContainment
     DEF ExpireToken
<1> QED
  BY <1>1, <1>2 DEF IInv

\* Expiry changes no row.
LEMMA ExpireSessionKeeps ==
  ASSUME IInv, NEW s \in Sessions, ExpireSession(s)
  PROVE  IInv'
<1>1. TypeOK'
  BY DEF ExpireSession, TypeOK, PCs, Ops, TokenStatus, TxReasons, AutoReasons
<1>2. Control' /\ Shape' /\ TokenLocks' /\ SessionLocks' /\ LinearFamily' /\ Sweeping'
      /\ LogoutSweepsFamilies' /\ LateTokens' /\ Containment'
  BY FrameControl, FrameShape, FrameTokenLocks, FrameSessionLocks, FrameLinearFamily,
     FrameSweeping, FrameLogoutSweepsFamilies, FrameLateTokens, FrameContainment
     DEF ExpireSession
<1> QED
  BY <1>1, <1>2 DEF IInv

----------------------------------------------------------------------------
\* The tables start empty and no request is in flight, so every part of the
\* invariant holds of the empty database.
LEMMA InitEstablishes == Init => IInv
<1> SUFFICES ASSUME Init PROVE IInv
  OBVIOUS
<1>1. TypeOK
  BY DEF Init, TypeOK, TokenStatus, PCs, Ops
<1>2. Control
  BY DEF Init, Control, Statements
<1>3. Shape /\ LinearFamily /\ LogoutSweepsFamilies
  BY DEF Init, Shape, LinearFamily, LogoutSweepsFamilies
<1>4. TokenLocks /\ SessionLocks /\ Sweeping
  BY DEF Init, TokenLocks, SessionLocks, Sweeping, Rotating, Ending
<1>5. LateTokens
  BY DEF Init, LateTokens, AtMostOneLate, Rotating
<1>6. Containment
  BY DEF Init, Containment
<1> QED
  BY <1>1, <1>2, <1>3, <1>4, <1>5, <1>6

\* A request that arrives disturbs nothing.
LEMMA ArriveKeeps ==
  ASSUME IInv, NEW p \in Procs, Arrive(p)
  PROVE  IInv'
  BY RefreshKeeps, RevokeTokenKeeps, TokenAuthCodeKeeps, EndSessionKeeps, LogoutAllKeeps,
     LogoutKeeps, Zenon DEF Arrive

\* Every statement of every usecase keeps the invariant.
LEMMA StepKeeps ==
  ASSUME IInv, NEW p \in Procs, Step(p)
  PROVE  IInv'
  BY ExchangeLiveKeeps, ExchangeDeadKeeps, ExchangeIssueKeeps, ClaimRefreshKeeps,
     ClaimFailedKeeps, SessionLiveKeeps, SessionDeadKeeps, IssueKeeps, IssueRefusedKeeps,
     TouchSessionKeeps, CommitRefreshKeeps, RefreshByHashKeeps, RefreshUnknownKeeps,
     FamilyScanKeeps, SessionScanKeeps, SweepRowKeeps, RevokeRefreshFamilyKeeps,
     RevokeDeadFamilyKeeps, RevokeSessionKeeps, RevokeSessionNotFoundKeeps,
     RevokeRefreshBySessionsKeeps, RevokeOneKeeps, RevokeOneDeniedKeeps, AllScanKeeps,
     AllRowKeeps, RevokeAllSessionsKeeps, LogoutSweptKeeps, CommitLogoutKeeps, Zenon DEF Step

\* So does every failure the code handles: a statement's error, a deadlock.
LEMMA DbErrorKeeps ==
  ASSUME IInv, NEW p \in Procs, DbError(p)
  PROVE  IInv'
  BY ClaimErrorKeeps, SessionLiveErrorKeeps, FamilyErrorKeeps, ResponseErrorKeeps,
     StatementErrorKeeps, Zenon DEF DbError

\* The invariant is inductive.
LEMMA NextKeeps ==
  ASSUME IInv, [Next]_vars
  PROVE  IInv'
<1>1. CASE Next
  BY <1>1, OpenBrowserSessionKeeps, EstablishKeeps, ArriveKeeps, StepKeeps, DbErrorKeeps,
     CrashKeeps, ExpireTokenKeeps, ExpireSessionKeeps, Zenon DEF Next
<1>2. CASE UNCHANGED vars
  <2>1. TypeOK'
    BY <1>2 DEF vars, TypeOK
  <2> QED
    BY <1>2, <2>1, FrameControl, FrameShape, FrameTokenLocks, FrameSessionLocks,
       FrameLinearFamily, FrameSweeping, FrameLogoutSweepsFamilies, FrameLateTokens,
       FrameContainment DEF vars
<1> QED
  BY <1>1, <1>2

\* Ownership depends on nothing but the variables listed.
LEMMA FrameOwnership ==
  ASSUME Ownership, UNCHANGED <<pc, op, who, ids, sids>>
  PROVE  Ownership'
  BY DEF Ownership, Ending

\* A request that arrives, moves or ends keeps Ownership.
LEMMA OwnershipKeeps ==
  ASSUME IInv, Ownership, Next
  PROVE  Ownership'
<1>1. ASSUME NEW s \in Sessions, OpenBrowserSession(s) PROVE Ownership'
  BY <1>1, FrameOwnership DEF OpenBrowserSession
<1>2. ASSUME NEW s \in Sessions, NEW n \in Tokens, Establish(s, n) PROVE Ownership'
  BY <1>2, FrameOwnership DEF Establish
<1>3. ASSUME NEW p \in Procs, Arrive(p) PROVE Ownership'
  <2>1. ASSUME NEW i \in Identities, NEW s \in Sessions, Logout(p, i, s) PROVE Ownership'
    BY <2>1 DEF Logout, TypeOK, Ownership, Ending
  <2>2. ASSUME NEW i \in Identities, LogoutAll(p, i) PROVE Ownership'
    BY <2>2 DEF LogoutAll, TypeOK, Ownership, Ending
  <2>3. ASSUME NEW s \in Sessions, TokenAuthCode(p, s) \/ EndSession(p, s) PROVE Ownership'
    BY <2>3 DEF TokenAuthCode, EndSession, TypeOK, Ownership, Ending
  <2>4. ASSUME NEW t \in Tokens, Refresh(p, t) \/ RevokeToken(p, t) PROVE Ownership'
    BY <2>4 DEF Refresh, RevokeToken, TypeOK, Ownership, Ending
  <2> QED
    BY <1>3, <2>1, <2>2, <2>3, <2>4, Zenon DEF Arrive
<1>4. ASSUME NEW p \in Procs, DbError(p) PROVE Ownership'
  BY <1>4 DEF DbError, ClaimError, SessionLiveError, FamilyError, ResponseError,
              StatementError, Fails, TypeOK, Control, Statements, Ownership, Ending
<1>5. ASSUME NEW p \in Procs, Crash(p) PROVE Ownership'
  BY <1>5 DEF Crash, TypeOK, Ownership, Ending
<1>6. ASSUME NEW p \in Procs,
             \/ ExchangeLive(p) \/ ExchangeDead(p) \/ (\E n \in Tokens : ExchangeIssue(p, n))
             \/ ClaimRefresh(p) \/ ClaimFailed(p) \/ SessionLive(p) \/ SessionDead(p)
             \/ Issue(p) \/ IssueRefused(p) \/ TouchSession(p)
             \/ (\E n \in Tokens : CommitRefresh(p, n))
      PROVE  Ownership'
  BY <1>6 DEF ExchangeLive, ExchangeDead, ExchangeIssue, ClaimRefresh, ClaimFailed, SessionLive,
              SessionDead, Issue, IssueRefused, TouchSession, CommitRefresh, TypeOK, Control,
              Statements, Ownership, Ending
<1>7. ASSUME NEW p \in Procs,
             \/ RefreshByHash(p) \/ RefreshUnknown(p) \/ FamilyScan(p) \/ SessionScan(p)
             \/ (\E t \in Tokens : SweepRow(p, t)) \/ RevokeRefreshFamily(p)
             \/ RevokeDeadFamily(p) \/ RevokeSession(p) \/ RevokeSessionNotFound(p)
             \/ RevokeRefreshBySessions(p)
      PROVE  Ownership'
  BY <1>7 DEF RefreshByHash, RefreshUnknown, FamilyScan, SessionScan, SweepRow,
              RevokeRefreshFamily, RevokeDeadFamily, RevokeSession, RevokeSessionNotFound,
              RevokeRefreshBySessions, TypeOK, Control, Statements, Ownership, Ending
<1>8. ASSUME NEW p \in Procs,
             \/ RevokeOne(p) \/ RevokeOneDenied(p) \/ AllScan(p)
             \/ (\E s \in Sessions : AllRow(p, s)) \/ RevokeAllSessions(p)
             \/ LogoutSwept(p) \/ CommitLogout(p)
      PROVE  Ownership'
  BY <1>8 DEF RevokeOne, RevokeOneDenied, AllScan, AllRow, RevokeAllSessions, LogoutSwept,
              CommitLogout, TypeOK, Control, Statements, Ownership, Ending
<1>9. ASSUME NEW t \in Tokens, ExpireToken(t) PROVE Ownership'
  BY <1>9, FrameOwnership DEF ExpireToken
<1>10. ASSUME NEW s \in Sessions, ExpireSession(s) PROVE Ownership'
  BY <1>10, FrameOwnership DEF ExpireSession
<1>11. ASSUME NEW p \in Procs, Step(p) PROVE Ownership'
  BY <1>6, <1>7, <1>8, <1>11, Zenon DEF Step
<1> QED
  BY <1>1, <1>2, <1>3, <1>4, <1>5, <1>9, <1>10, <1>11, Zenon DEF Next

\* The inductive invariant holds in every reachable state, for any number of
\* requests, sessions and tokens, with or without faults and expiry.
THEOREM InvariantHolds == Spec => []IInv
<1>1. Init => IInv
  BY InitEstablishes
<1>2. IInv /\ [Next]_vars => IInv'
  BY NextKeeps
<1> QED
  BY <1>1, <1>2, PTL DEF Spec

\* Type correctness: among others, no statement writes a status or a revoke
\* reason the schema does not know (migrations/0002_identity.sql).
THEOREM TypeCorrect == Spec => []TypeOK
<1>1. IInv => TypeOK
  OBVIOUS
<1> QED
  BY <1>1, InvariantHolds, PTL

\* Rotation is a chain whatever requests race, fail or deadlock: one successor
\* per spent token, one active token per family (rquery/refresh.go,
\* ClaimRefreshToken; refresh_interactor.go, Execute).
THEOREM RotationIsLinear == Spec => []LinearFamily
<1>1. IInv => LinearFamily
  OBVIOUS
<1> QED
  BY <1>1, InvariantHolds, PTL

\* A committed logout leaves no active token in a family its sweep could see
\* (logout_interactor.go, revokeOne and LogoutAll against the session row lock
\* of TouchSession).
THEOREM LogoutIsComplete == Spec => []LogoutSweepsFamilies
<1>1. IInv => LogoutSweepsFamilies
  OBVIOUS
<1> QED
  BY <1>1, InvariantHolds, PTL

\* Each family gets at most one token after its session was revoked.
THEOREM LateTokensBounded == Spec => []AtMostOneLate
<1>1. IInv => AtMostOneLate
  BY DEF LateTokens
<1> QED
  BY <1>1, InvariantHolds, PTL

\* A reuse event that says contained=true speaks the truth for good
\* (refresh_interactor.go, respondToFailedClaim).
THEOREM ContainmentIsTrue == Spec => []ContainedIsUnusable
<1>1. IInv => ContainedIsUnusable
  BY DEF Containment, ContainedIsUnusable, Usable, Live, Revoked, TxReasons, AutoReasons
<1> QED
  BY <1>1, InvariantHolds, PTL

\* The statuses theft detection reads, and the reason a session was revoked
\* for, are never overwritten (the guards of rquery/refresh.go and
\* rquery/session.go).
THEOREM EvidenceSurvives == Spec => EvidenceIsKept
<1> DEFINE Kept ==
      /\ \A t \in Tokens : status[t] \in {"consumed", "revoked"} => status'[t] = status[t]
      /\ \A s \in Sessions : Revoked(s) => sess'[s] = sess[s]
<1>1. ASSUME IInv, Next PROVE Kept
  <2>1. ASSUME NEW s \in Sessions, OpenBrowserSession(s) PROVE Kept
    BY <1>1, <2>1 DEF OpenBrowserSession, TypeOK, Revoked, TxReasons, AutoReasons
  <2>2. ASSUME NEW s \in Sessions, NEW n \in Tokens, Establish(s, n) PROVE Kept
    BY <1>1, <2>2 DEF Establish, Insert, TypeOK, Revoked, TxReasons, AutoReasons
  <2>3. ASSUME NEW p \in Procs, Arrive(p) PROVE Kept
    BY <1>1, <2>3 DEF Arrive, Refresh, RevokeToken, TokenAuthCode, EndSession, LogoutAll, Logout
  <2>4. ASSUME NEW p \in Procs, DbError(p) PROVE Kept
    BY <1>1, <2>4 DEF DbError, ClaimError, SessionLiveError, FamilyError, ResponseError,
                      StatementError, Fails
  <2>5. ASSUME NEW p \in Procs, Crash(p) PROVE Kept
    BY <1>1, <2>5 DEF Crash
  <2>6. ASSUME NEW p \in Procs, NEW n \in Tokens, ExchangeIssue(p, n) PROVE Kept
    BY <1>1, <2>6 DEF ExchangeIssue, Insert, TypeOK
  <2>7. ASSUME NEW p \in Procs, NEW n \in Tokens, CommitRefresh(p, n) PROVE Kept
    BY <1>1, <2>7 DEF CommitRefresh, TypeOK, Control, TokenLocks, Rotating
  <2>8. ASSUME NEW p \in Procs,
               RevokeRefreshFamily(p) \/ RevokeDeadFamily(p) \/ RevokeRefreshBySessions(p)
        PROVE  Kept
    BY <1>1, <2>8 DEF RevokeRefreshFamily, RevokeDeadFamily, RevokeRefreshBySessions, Swept,
                      TypeOK, TokenLocks
  <2>9. ASSUME NEW p \in Procs, RevokeSession(p) PROVE Kept
    BY <1>1, <2>9 DEF RevokeSession, TypeOK, Revoked, TxReasons, AutoReasons
  <2>10. ASSUME NEW p \in Procs, CommitLogout(p) PROVE Kept
    BY <1>1, <2>10 DEF CommitLogout, Swept, TypeOK, TokenLocks, SessionLocks, Ending, Revoked,
                       TxReasons, AutoReasons
  <2>11. ASSUME NEW p \in Procs,
                \/ ExchangeLive(p) \/ ExchangeDead(p) \/ ClaimRefresh(p) \/ ClaimFailed(p)
                \/ SessionLive(p) \/ SessionDead(p) \/ Issue(p) \/ IssueRefused(p)
                \/ TouchSession(p) \/ RefreshByHash(p) \/ RefreshUnknown(p) \/ FamilyScan(p)
                \/ SessionScan(p) \/ (\E t \in Tokens : SweepRow(p, t))
                \/ RevokeSessionNotFound(p) \/ RevokeOne(p) \/ RevokeOneDenied(p)
                \/ AllScan(p) \/ (\E s \in Sessions : AllRow(p, s))
                \/ RevokeAllSessions(p) \/ LogoutSwept(p)
         PROVE  Kept
    BY <1>1, <2>11 DEF ExchangeLive, ExchangeDead, ClaimRefresh, ClaimFailed, SessionLive,
          SessionDead, Issue, IssueRefused, TouchSession, RefreshByHash, RefreshUnknown,
          FamilyScan, SessionScan, SweepRow, RevokeSessionNotFound, RevokeOne,
          RevokeOneDenied, AllScan, AllRow, RevokeAllSessions, LogoutSwept
  <2>12. ASSUME NEW t \in Tokens, ExpireToken(t) PROVE Kept
    BY <1>1, <2>12 DEF ExpireToken
  <2>13. ASSUME NEW s \in Sessions, ExpireSession(s) PROVE Kept
    BY <1>1, <2>13 DEF ExpireSession
  <2>14. ASSUME NEW p \in Procs, Step(p) PROVE Kept
    BY <2>6, <2>7, <2>8, <2>9, <2>10, <2>11, <2>14, Zenon DEF Step
  <2> QED
    BY <1>1, <2>1, <2>2, <2>3, <2>4, <2>5, <2>12, <2>13, <2>14, Zenon DEF Next
<1>2. IInv /\ [Next]_vars => [Kept]_vars
  BY <1>1
<1> QED
  BY <1>2, InvariantHolds, PTL DEF Spec, EvidenceIsKept

\* A sign-out revokes only sessions of the person who signs out, though the row
\* is revoked by its id before its owner is compared (logout_interactor.go,
\* revokeOne), and LogoutAll visits its rows one by one.
THEOREM SignOutIsOnesOwn == Spec => OnlyOwnersSignOut
<1> DEFINE Own ==
      \A s \in Sessions : sess[s] = "live" /\ sess'[s] \in TxReasons =>
          \E p \in Procs : op[p] \in {"logout", "logout_all"} /\ pc[p] = "commit"
                           /\ who[p] = Owner[s]
<1>1. Init => Ownership
  BY DEF Init, Ownership, Ending
<1>2. IInv /\ Ownership /\ [Next]_vars => Ownership'
  BY OwnershipKeeps, FrameOwnership DEF vars
<1>3. ASSUME IInv, Ownership, Next PROVE Own
  <2>1. ASSUME NEW p \in Procs, CommitLogout(p) PROVE Own
    BY <1>3, <2>1 DEF CommitLogout, TypeOK, SessionLocks, Ownership, Ending, TxReasons
  <2>2. ASSUME NEW p \in Procs, RevokeSession(p) PROVE Own
    BY <1>3, <2>2 DEF RevokeSession, Reason, TypeOK, TxReasons, AutoReasons
  <2>3. ASSUME NEW s \in Sessions, OpenBrowserSession(s) PROVE Own
    BY <1>3, <2>3 DEF OpenBrowserSession, TypeOK, TxReasons
  <2>4. ASSUME NEW s \in Sessions, NEW n \in Tokens, Establish(s, n) PROVE Own
    BY <1>3, <2>4 DEF Establish, Insert, TypeOK, TxReasons
  <2>5. ASSUME UNCHANGED sess PROVE Own
    BY <1>3, <2>5 DEF TypeOK, TxReasons
  <2>6. ASSUME NEW p \in Procs, Arrive(p) \/ DbError(p) \/ Crash(p) PROVE Own
    <3>1. UNCHANGED sess
      BY <2>6 DEF Arrive, Refresh, RevokeToken, TokenAuthCode, EndSession, LogoutAll, Logout,
                  DbError, ClaimError, SessionLiveError, FamilyError, ResponseError,
                  StatementError, Fails, Crash
    <3> QED
      BY <3>1, <2>5
  <2>7. ASSUME NEW t \in Tokens, ExpireToken(t) PROVE Own
    BY <2>7, <2>5 DEF ExpireToken
  <2>8. ASSUME NEW s \in Sessions, ExpireSession(s) PROVE Own
    BY <2>8, <2>5 DEF ExpireSession
  <2>9. ASSUME NEW p \in Procs, Step(p) PROVE Own
    <3>1. CASE CommitLogout(p)
      BY <3>1, <2>1
    <3>2. CASE RevokeSession(p)
      BY <3>2, <2>2
    <3>3. CASE ~CommitLogout(p) /\ ~RevokeSession(p)
      <4>1. UNCHANGED sess
        BY <2>9, <3>3
           DEF Step, ExchangeLive, ExchangeDead, ExchangeIssue, Insert, ClaimRefresh,
               ClaimFailed, SessionLive, SessionDead, Issue, IssueRefused, TouchSession,
               CommitRefresh, RefreshByHash, RefreshUnknown, FamilyScan, SessionScan,
               SweepRow, RevokeRefreshFamily, RevokeDeadFamily, RevokeSessionNotFound,
               RevokeRefreshBySessions, RevokeOne, RevokeOneDenied, AllScan, AllRow,
               RevokeAllSessions, LogoutSwept
      <4> QED
        BY <4>1, <2>5
    <3> QED
      BY <3>1, <3>2, <3>3
  <2> HIDE DEF Own
  <2> QED
    BY <1>3, <2>3, <2>4, <2>6, <2>7, <2>8, <2>9, Zenon DEF Next
<1>4. IInv /\ Ownership /\ [Next]_vars => [Own]_vars
  BY <1>3
<1> QED
  BY <1>1, <1>2, <1>4, InvariantHolds, PTL DEF Spec, OnlyOwnersSignOut

=============================================================================
