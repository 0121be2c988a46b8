SPECIFICATION Spec
CONSTANTS
    s1 = s1
    alice = alice
    bob = bob
    Tokens = {t1, t2, t3}
    Sessions <- OneSession
    Identities = {alice, bob}
    Owner <- OneOwner
    Procs = {p1, p2}
    MaxEpoch = 1
    Requests = {"refresh", "revoke", "end", "logout"}
    Clock = TRUE
    Faults = TRUE
    NoToken = NoToken
    NoSession = NoSession
    NoIdentity = NoIdentity
    NoProc = NoProc
SYMMETRY Symmetry
INVARIANTS TypeOK IInv LinearFamily LogoutSweepsFamilies ContainedIsUnusable AtMostOneLate
PROPERTIES EvidenceIsKept OnlyOwnersSignOut
