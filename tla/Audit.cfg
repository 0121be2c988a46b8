SPECIFICATION FairSpec
CONSTANTS
    t1 = t1
    r1 = r1
    r2 = r2
    login = login
    suspend = suspend
    erase = erase
    sweep = sweep
    authz = authz
    stray = stray
    mail = mail
    Tenants = {t1}
    Replicas = {r1, r2}
    Events = {login, suspend, erase, sweep, authz, mail, stray}
    TenantOf <- TenantFor
    Home <- HomeOf
    After <- AfterOf
    Sampled = {authz}
    Jobs = {sweep}
    Detached = {mail}
    InTx = {erase}
    RawIds = {suspend}
    Scenes <- ThreeScenes
    QueueSize = 1
    PoolSize = 1
    MaxTime = 1
    MaxStops = 1
    MaxAnchors = 1
    Faults = TRUE
    NoTenant = NoTenant
    NoReplica = NoReplica
    NoEvent = NoEvent
CHECK_DEADLOCK FALSE
INVARIANTS BreaksOnlyAtRawIds NothingSilentlyLost DrainKeepsRequests OrderKept
PROPERTIES ImplementsLog Settles CloseReturns
