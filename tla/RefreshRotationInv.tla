------------------------- MODULE RefreshRotationInv -------------------------
(***************************************************************************)
(* The inductive invariant of RefreshRotation: what every reachable state  *)
(* says of the rows, the row locks and the requests in flight, and why the *)
(* promises of RefreshRotation follow.                                     *)
(***************************************************************************)
EXTENDS RefreshRotation

\* The statements each usecase runs.
Statements(o) ==
    CASE o = "none"       -> {"idle"}
      [] o = "refresh"    -> {"claim", "live", "issue", "touch", "commit"}
      [] o = "exchange"   -> {"live", "issue"}
      [] o = "dead"       -> {"famscan", "famrows"}
      [] o = "theft"      -> {"lookup", "famscan", "famrows", "revsess", "sesscan", "sesrows"}
      [] o = "revoke"     -> {"lookup", "famscan", "famrows", "revsess", "sesscan", "sesrows"}
      [] o = "end"        -> {"revsess", "sesscan", "sesrows"}
      [] o = "logout"     -> {"revsess", "sesscan", "sesrows", "commit"}
      [] OTHER            -> {"allscan", "allrows", "sesscan", "sesrows", "commit"}

\* A request is where its usecase can be, and works on rows that exist.
Control ==
    \A p \in Procs :
        /\ pc[p] \in Statements(op[p])
        /\ op[p] \in {"refresh", "theft", "revoke", "dead"} => arg[p] \in Tokens
        /\ \A s \in ids[p] : sess[s] # "none"
        /\ pc[p] \in {"idle", "allscan"} => ids[p] = {}

\* Between its claim and its commit a rotation.
Rotating(p) == op[p] = "refresh" /\ pc[p] \in {"live", "issue", "touch", "commit"}

\* Between the revocation of its sessions and its commit a logout.
Ending(p) ==
    \/ op[p] = "logout" /\ pc[p] \in {"sesscan", "sesrows", "commit"}
    \/ op[p] = "logout_all" /\ pc[p] \in {"allrows", "sesscan", "sesrows", "commit"}

\* What a row that exists refers to.  A family is named by its first token and
\* stays in that token's session.
Shape ==
    /\ \A t \in Tokens : status[t] = "none" =>
           /\ sessionOf[t] = NoSession /\ family[t] = NoToken
           /\ succ[t] = NoToken /\ late[t] = 0
    /\ \A t \in Tokens : status[t] # "none" =>
           /\ sessionOf[t] \in Sessions /\ sess[sessionOf[t]] # "none"
           /\ family[t] \in Tokens /\ status[family[t]] # "none"
           /\ sessionOf[family[t]] = sessionOf[t]
    /\ \A t \in Tokens : succ[t] # NoToken => status[succ[t]] # "none"
    /\ \A s \in Sessions : \A f \in covered[s] : f \in Tokens /\ status[f] # "none"

\* A locked token is still active for everybody else, and its holder is a
\* rotation or a sweep; a rotation holds exactly the token it claimed.
TokenLocks ==
    /\ \A t \in Tokens : tokLock[t] # NoProc =>
           /\ status[t] = "active"
           /\ Rotating(tokLock[t]) \/ pc[tokLock[t]] \in {"famrows", "sesrows"}
              \/ (pc[tokLock[t]] = "commit" /\ op[tokLock[t]] \in {"logout", "logout_all"})
    /\ \A p \in Procs : Rotating(p) =>
           /\ tokLock[arg[p]] = p
           /\ ids[p] = {sessionOf[arg[p]]}
           /\ \A t \in Tokens : tokLock[t] = p => t = arg[p]

\* A locked session exists; a rotation about to commit holds its session, a
\* logout exactly the sessions it ends, which are live for everybody else.
SessionLocks ==
    /\ \A s \in Sessions : sesLock[s] # NoProc =>
           /\ sess[s] # "none"
           /\ Ending(sesLock[s]) \/ (op[sesLock[s]] = "refresh" /\ pc[sesLock[s]] = "commit")
    /\ \A p \in Procs : op[p] = "refresh" /\ pc[p] = "commit" =>
           sesLock[sessionOf[arg[p]]] = p
    /\ \A p \in Procs : Ending(p) =>
           \A s \in Sessions : (sesLock[s] = p <=> s \in ids[p])
                            /\ (s \in ids[p] => sess[s] = "live")

\* A logout that has swept missed no active token of a family it could see.
Sweeping ==
    \A p \in Procs :
        op[p] \in {"logout", "logout_all"} /\ pc[p] \in {"sesrows", "commit"} =>
            \A t \in Tokens :
                status[t] = "active" /\ sessionOf[t] \in ids[p]
                    /\ family[t] \in covered[sessionOf[t]] =>
                tokLock[t] = p \/ (pc[p] = "sesrows" /\ t \in todo[p])

\* A family of a live session has no late token, and neither has one whose
\* rotation found the session live.
LateTokens ==
    /\ AtMostOneLate
    /\ \A t \in Tokens :
           status[t] # "none" /\ ~Revoked(sessionOf[t]) => late[family[t]] = 0
    /\ \A p \in Procs : Rotating(p) /\ pc[p] # "live" => late[family[arg[p]]] = 0

\* The theft response claims containment only of sessions it has revoked.
Containment ==
    /\ \A s \in Sessions : "true" \in alarm[s] => Revoked(s)
    /\ \A p \in Procs : op[p] = "theft" /\ pc[p] \in {"sesscan", "sesrows"} =>
           \A s \in ids[p] : Revoked(s)

\* A logout holds, and LogoutAll's UPDATE has yet to visit, only sessions of
\* the person signing out.
Ownership ==
    \A p \in Procs :
        /\ Ending(p) => \A s \in ids[p] : Owner[s] = who[p]
        /\ pc[p] = "allrows" => \A s \in sids[p] : Owner[s] = who[p]

\* The inductive invariant.
IInv ==
    /\ TypeOK
    /\ Control
    /\ Shape
    /\ TokenLocks
    /\ SessionLocks
    /\ LinearFamily
    /\ Sweeping
    /\ LogoutSweepsFamilies
    /\ LateTokens
    /\ Containment

=============================================================================
