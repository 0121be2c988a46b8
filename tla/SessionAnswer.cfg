SPECIFICATION Spec
CONSTANTS
    s1 = s1
    alice = alice
    bob = bob
    Tokens = {t1, t2}
    Sessions <- OneSession
    Identities = {alice}
    Owner <- OneOwner
    Procs = {p1}
    MaxEpoch = 1
    Requests = {"refresh"}
    Clock = FALSE
    Faults = TRUE
    NoToken = NoToken
    NoSession = NoSession
    NoIdentity = NoIdentity
    NoProc = NoProc
INVARIANT SessionRevokedMeansDead
