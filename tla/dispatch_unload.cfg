\* Three threads: queries, loads and tail unloads (no container name) racing on one model, with metadata failures.
CONSTANTS
    m1 = m1
    m2 = m2
    m3 = m3
    r1 = r1
    NoName = NoName
    Submitters = {s1}
    InputParents = {}
    FirstCpuPort = 9001
    ModelOf <- MCModelOf
    Threads = {t1, t2, t3}
    Models = {m1}
    Replicas = {r1}
    Staged = {m1}
    MaxCalls = 5
    MaxTry = 2
    EnvOps = {"load", "unload", "query"}
    UnloadNames = {NoName}
    MetadataOk = {TRUE, FALSE}
SPECIFICATION Spec
SYMMETRY MCSymmetry
INVARIANT NoDuplicateLaunch
INVARIANT SingleSlot
PROPERTY PoolRefinement
