SPECIFICATION Spec
CONSTANTS
    acme = acme
    globex = globex
    NoData = NoData
    NoTenant = NoTenant
    Tenants <- TwoTenants
    Modes <- Calm
    MaxAge = 2
    RebuildEvery = 2
    PollInterval = 1
    Timeout = 1
    Window = 5
    AccessTTL = 6
    DirtyCap = 1
    SubBuffer = 1
CHECK_DEADLOCK FALSE
SYMMETRY Symmetry
INVARIANT RebuiltWithinMaxAge
