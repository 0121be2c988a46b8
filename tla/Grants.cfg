SPECIFICATION FairSpec
CONSTANTS
    org = org
    o = o
    a = a
    b = b
    c = c
    g1 = g1
    g2 = g2
    g3 = g3
    p1 = p1
    p2 = p2
    None = None
    Absent = Absent
    NoNode = NoNode
    Nobody = Nobody
    Nodes = {o, a, b, c}
    Axes = {org}
    AxisOf <- OneAxis
    Tree <- Places
    RootNode = o
    FromGroup = {g3}
    SelfScoped = {}
    Admins = {p1, p2}
    Grants = {g1, g2, g3}
    Rank <- ByName
    Scenes <- Three
    MaxGrants = 2
CHECK_DEADLOCK FALSE
INVARIANTS
    NobodyLeftOut
    KindsKeepTheirWord
PROPERTIES
    ImplementsLedger
    CallsEnd
