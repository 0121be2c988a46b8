SPECIFICATION Spec
CONSTANTS
    Procs = {p1, p2, p3}
    Operators = {o1, o2}
    Requests = {"login", "mfa", "refresh", "logout", "change", "begin_totp", "confirm_totp",
                "reset", "disable", "enable", "revoke", "assign"}
    Starts <- BothStarts
    Faults = TRUE
    MaxStep = 2
    NoOne = NoOne
CHECK_DEADLOCK FALSE
SYMMETRY Symmetry
INVARIANTS
    OneUsableToken
    SupersededTokenRefused
    CodeOpensOneSession
PROPERTY OldPasswordStaysOut
