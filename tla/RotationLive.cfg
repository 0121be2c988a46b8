SPECIFICATION FairSpec
CONSTANTS
    s1 = s1
    alice = alice
    bob = bob
    Tokens = {t1, t2}
    Sessions <- OneSession
    Identities = {alice}
    Owner <- OneOwner
    Procs = {p1, p2}
    MaxEpoch = 1
    Requests = {"refresh", "revoke", "end", "exchange", "logout", "logout_all"}
    Clock = FALSE
    Faults = FALSE
    NoToken = NoToken
    NoSession = NoSession
    NoIdentity = NoIdentity
    NoProc = NoProc
PROPERTY Termination
