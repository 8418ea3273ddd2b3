SPECIFICATION Spec
CONSTANTS
    t1 = t1
    t2 = t2
    t3 = t3
    l1 = l1
    l2 = l2
    g1 = g1
    m1 = m1
    None = None
    Published <- ThreeTables
    MetricsOrder <- AgainstOrder
    Loader = {l1, l2}
    Gate = {g1}
    Metrics = {m1}
    MaxLoads = 4
INVARIANTS ReadersSeeOneLoad RingsNeedMetrics
PROPERTY Refinement
