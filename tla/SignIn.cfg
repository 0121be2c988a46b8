SPECIFICATION Spec
CONSTANTS
    Procs = {p1, p2, p3}
    Requests = {"login", "browser", "mfa", "browser_mfa", "link", "reset_request",
                "link_request", "reset", "change", "set_password", "import",
                "begin_totp", "confirm_totp", "disable", "logout_all"}
    Starts <- OneEach
    Faults = TRUE
    MaxStep = 2
    MaxAdmin = 1
    NoProc = NoProc
CHECK_DEADLOCK FALSE
SYMMETRY Symmetry
INVARIANTS
    AcceptedTokenIsCurrent
    OneCodeOneSession
    OneTokenOneUse
    EnrolledFactorIsAsked
    OnePassword
