SPECIFICATION Spec
CONSTANTS
    org = org
    product = product
    o = o
    a = a
    b = b
    c = c
    d = d
    p = p
    w1 = w1
    w2 = w2
    None = None
    Absent = Absent
    Nodes = {o, a, b, c, d, p}
    Axes = {org, product}
    AxisOf <- AxisFor
    Writers = {w1, w2}
    Duties <- OneMover
    Kinds = {"admin", "upsert", "sync"}
    Trees <- ChainOnly
    Catalogs <- AllCatalogs
    Legal <- LegalFor
    MaxDepth = 3
    MaxRows = 2
    MaxTx = 3
    MaxTime = 1
CHECK_DEADLOCK FALSE
INVARIANTS TypeOK ClosureMatchesTree EnginesAgree AnswersAgree
